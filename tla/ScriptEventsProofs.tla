------------------------- MODULE ScriptEventsProofs -------------------------
(***************************************************************************)
(* ScriptEvents keeps its invariants: an event reaches nobody who was not  *)
(* attached while it was fired, through whichever proxies it comes, and    *)
(* the list of proxies says which of them follow an object; who was        *)
(* attached all the while is not lost on the way; and the events of a      *)
(* thread come to each handler in their order.                             *)
(***************************************************************************)
EXTENDS ScriptEvents, TLAPS

\* The proxies a FireEvent has yet to tell follow its object.
LeftFollow ==
  \A t \in Threads : \A p \in fire[t].left :
    fire[t].at # "idle" =>
      proxy[p].state # "none" /\ (Live(p) => Follows(p, fire[t].api))

\* What pages and plugin change has its type.
RegistryOK ==
  /\ listeners \in [Objects -> SUBSET Handlers]
  /\ attribute \in [Apis -> Handlers \cup {None}]
  /\ proxy \in [Proxies -> [state : {"none", "live", "dead"}, inner : Apis \cup {None},
                            follows : BOOLEAN]]
  /\ listed \in [Objects -> SUBSET Proxies]
  /\ valid \in [Apis -> BOOLEAN]
  /\ page \in [Pages -> {"open", "draining", "shut", "gone"}]

\* Nothing is heard of an event that was not fired.
NothingYet == \A e \in Events : e > fired => heard[e] = {}

-----------------------------------------------------------------------------
(* What a change does to the events that are being fired.                  *)

LEMMA NotedHeld ==
  ASSUME TypeOK, Noted, \A e \in Events : Firing(e) => event[e].api \in Apis
  PROVE  /\ event' \in [Events -> History]
         /\ \A e \in Events : /\ event[e].held \subseteq event'[e].held
                              /\ event'[e].api = event[e].api
         /\ \A e \in Events, a \in Apis :
              Firing(e) /\ event[e].api = a => Audience(a)' \subseteq event'[e].held
<1> DEFINE now == [a \in Apis |-> Audience(a)']
           new(e) == [event[e] EXCEPT !.must = @ \cap now[event[e].api],
                                      !.held = @ \cup now[event[e].api]]
<1>0. event \in [Events -> History]
  BY DEF TypeOK
<1>1. event' = [e \in Events |-> IF Firing(e) THEN new(e) ELSE event[e]]
  BY DEF Noted
<1>2. \A a \in Apis : now[a] = Audience(a)' /\ now[a] \subseteq Registrations
  BY DEF Audience
<1>3. ASSUME NEW e \in Events
      PROVE  /\ event'[e] \in History
             /\ event[e].held \subseteq event'[e].held
             /\ event'[e].api = event[e].api
             /\ \A a \in Apis :
                  Firing(e) /\ event[e].api = a => Audience(a)' \subseteq event'[e].held
  <2> HIDE DEF now
  <2>1. event[e] \in History
    BY <1>0
  <2>2. CASE ~Firing(e)
    BY <1>1, <2>1, <2>2
  <2>3. CASE Firing(e)
    <3>1. event'[e] = new(e)
      BY <1>1, <2>3
    <3>2. /\ new(e).held = event[e].held \cup now[event[e].api]
          /\ new(e).must = event[e].must \cap now[event[e].api]
          /\ new(e).api = event[e].api /\ new(e).thread = event[e].thread
          /\ new(e).cut = event[e].cut /\ new(e).aborted = event[e].aborted
      BY <2>1 DEF History
    <3>3. event'[e].api = event[e].api /\ event[e].held \subseteq event'[e].held
      BY <3>1, <3>2
    <3>4. \A a \in Apis : event[e].api = a => Audience(a)' \subseteq event'[e].held
      BY <3>1, <3>2, <1>2
    <3>5. event'[e] \in History
      <4>1. event[e].api \in Apis
        BY <2>3
      <4> QED
        BY <4>1, <3>1, <3>2, <2>1, <1>2 DEF History
    <3> QED
      BY <3>3, <3>4, <3>5
  <2> QED
    BY <2>2, <2>3
<1> QED
  BY <1>1, <1>3

\* Every change of the registry keeps the invariant if it keeps what is said of
\* the proxies; it may also drop the calls of a page.
LEMMA ChangeKeeps ==
  ASSUME IInv, MayChange, Changed, RegistryOK', ProxiesFollow', ListedExist', LeftFollow',
         queue' \in [Pages -> Seq(Calls)], timers' \in [Pages -> Seq(Calls)],
         \A q \in Pages : queue'[q] = queue[q] \/ queue'[q] = <<>>,
         \A q \in Pages : timers'[q] = timers[q] \/ timers'[q] = <<>>
  PROVE  IInv'
<1> USE EventsAssumption
<1>1. /\ event' \in [Events -> History]
      /\ \A e \in Events : /\ event[e].held \subseteq event'[e].held
                           /\ event'[e].api = event[e].api
      /\ \A e \in Events, a \in Apis :
           Firing(e) /\ event[e].api = a => Audience(a)' \subseteq event'[e].held
  <2>1. \A e \in Events : Firing(e) => event[e].api \in Apis
    BY DEF IInv, Placed, Firing
  <2> QED
    BY <2>1, NotedHeld DEF IInv, Changed
<1>2. /\ fire' = fire /\ fired' = fired /\ heard' = heard /\ overflow' = overflow
      /\ changes' = changes + 1 /\ changes < MaxChanges
  BY DEF Changed, MayChange
<1>3. TypeOK'
  BY <1>1, <1>2 DEF IInv, TypeOK, RegistryOK
<1>4. ASSUME NEW t \in Threads, NEW f, f = fire[t], f.at # "idle",
             NEW a, a = f.api, NEW e, e = f.e
      PROVE  Placed(fire[t])'
  <2>1. Placed(f) /\ f \in Fires /\ fired \in 0..MaxEvents
    BY <1>4 DEF IInv, TypeOK
  <2>2. a \in Apis /\ e \in 1..fired /\ event[e].api = a
    BY <1>4, <2>1 DEF Placed
  <2>3. e \in Events
    BY <2>1, <2>2 DEF Events
  <2>4. Firing(e)
    BY <1>4 DEF Firing
  <2>5. Audience(a)' \subseteq event'[e].held /\ event'[e].api = a
    BY <1>1, <2>2, <2>3, <2>4
  <2>6. \A p \in f.left : (proxy[p].state # "none")' /\ (Live(p) => Follows(p, a))'
    BY <1>2, <1>4 DEF LeftFollow, Live, Follows
  <2>7. f.at \in {"calls", "call", "post"} =>
          \A h \in f.copy : Listener(f.obj, h) \in event'[e].held
    BY <1>1, <1>4, <2>1, <2>3 DEF Placed
  <2> QED
    BY <1>2, <1>4, <2>1, <2>2, <2>5, <2>6, <2>7 DEF Placed
<1>8. fired \in 0..MaxEvents /\ 1..fired \subseteq Events
  BY DEF IInv, TypeOK, Events
<1>5. CallsHeld(queue)'
  <2>1. CallsHeld(queue)
    BY DEF IInv
  <2>2. ASSUME NEW q \in Pages, NEW i \in 1..Len(queue'[q])
        PROVE  queue'[q][i].e \in 1..fired /\ queue'[q][i].to \subseteq event'[queue'[q][i].e].held
    <3>1. Len(<<>>) = 0
      OBVIOUS
    <3>2. queue'[q] = queue[q]
      BY <3>1
    <3>3. queue[q][i].e \in 1..fired /\ queue[q][i].to \subseteq event[queue[q][i].e].held
      BY <2>1, <3>2 DEF CallsHeld
    <3> QED
      BY <3>2, <3>3, <1>1, <1>8
  <2> QED
    BY <1>2, <2>2 DEF CallsHeld
<1>6. CallsHeld(timers)'
  <2>1. CallsHeld(timers)
    BY DEF IInv
  <2>2. ASSUME NEW q \in Pages, NEW i \in 1..Len(timers'[q])
        PROVE  timers'[q][i].e \in 1..fired /\ timers'[q][i].to \subseteq event'[timers'[q][i].e].held
    <3>1. Len(<<>>) = 0
      OBVIOUS
    <3>2. timers'[q] = timers[q]
      BY <3>1
    <3>3. timers[q][i].e \in 1..fired /\ timers[q][i].to \subseteq event[timers[q][i].e].held
      BY <2>1, <3>2 DEF CallsHeld
    <3> QED
      BY <3>2, <3>3, <1>1, <1>8
  <2> QED
    BY <1>2, <2>2 DEF CallsHeld
<1>7. HeardWasAttached'
  BY <1>1, <1>2 DEF IInv, HeardWasAttached
<1>9. ASSUME NEW t \in Threads PROVE Placed(fire[t])'
  <2>1. CASE fire[t].at = "idle"
    BY <1>2, <2>1 DEF Placed
  <2>2. CASE fire[t].at # "idle"
    BY <1>4, <2>2
  <2> QED
    BY <2>1, <2>2
<1> QED
  BY <1>2, <1>3, <1>5, <1>6, <1>7, <1>9 DEF IInv

\* Steps that only go on with FireEvent, or with calls under way, keep it.
LEMMA StepKeeps ==
  ASSUME IInv, UNCHANGED <<listeners, attribute, proxy, valid, page, changes, fired>>,
         listed' \in [Objects -> SUBSET Proxies], ProxiesFollow', ListedExist',
         fire' \in [Threads -> Fires], overflow' \in BOOLEAN,
         \A t \in Threads : Placed(fire'[t]),
         event' \in [Events -> History],
         \A e \in Events : event'[e].held = event[e].held /\ event'[e].api = event[e].api,
         queue' \in [Pages -> Seq(Calls)], timers' \in [Pages -> Seq(Calls)],
         CallsHeld(queue'), CallsHeld(timers'),
         heard' \in [Events -> SUBSET Registrations],
         \A e \in Events : heard'[e] \subseteq event[e].held /\ (e > fired => heard'[e] = {})
  PROVE  IInv'
<1>1. TypeOK'
  BY DEF IInv, TypeOK
<1>2. fired \in 0..MaxEvents /\ 1..fired \subseteq Events
  BY EventsAssumption DEF IInv, TypeOK, Events
<1>3. ASSUME NEW t \in Threads, NEW f, f = fire'[t], NEW a, a = f.api, NEW e, e = f.e
      PROVE  Placed(fire[t])'
  <2>1. Placed(f) /\ f \in Fires
    BY <1>3
  <2>2. SUFFICES ASSUME f.at # "idle" PROVE Placed(fire[t])'
    BY <1>3 DEF Placed
  <2>3. a \in Apis /\ e \in 1..fired /\ event[e].api = a /\ Audience(a) \subseteq event[e].held
    BY <1>3, <2>1, <2>2 DEF Placed
  <2>4. Audience(a)' = Audience(a)
    BY DEF Audience, Follows, Live
  <2>5. \A p \in f.left : (proxy[p].state # "none")' /\ (Live(p) => Follows(p, a))'
    BY <1>3, <2>1, <2>2 DEF Placed, Follows, Live
  <2>6. event'[e].held = event[e].held /\ event'[e].api = event[e].api
    BY <1>2, <2>3
  <2>7. f.at \in {"calls", "call", "post"} =>
          \A h \in f.copy : Listener(f.obj, h) \in event'[e].held
    BY <1>3, <2>1, <2>2, <2>6 DEF Placed
  <2> QED
    BY <1>3, <2>1, <2>3, <2>4, <2>5, <2>6, <2>7 DEF Placed
<1>4. CallsHeld(queue)' /\ CallsHeld(timers)'
  BY <1>2 DEF CallsHeld
<1>5. HeardWasAttached'
  BY DEF HeardWasAttached
<1> QED
  BY <1>1, <1>3, <1>4, <1>5 DEF IInv

-----------------------------------------------------------------------------
(* The actions of pages and plugin.                                        *)

LEMMA ConsequencesOfIInv ==
  ASSUME IInv
  PROVE  /\ TypeOK /\ RegistryOK /\ ProxiesFollow /\ ListedExist /\ LeftFollow
         /\ \A t \in Threads : Placed(fire[t]) /\ fire[t] \in Fires
         /\ 1..fired \subseteq Events /\ fired \in Nat
<1>1. LeftFollow
  BY DEF IInv, LeftFollow, Placed
<1> QED
  BY <1>1, EventsAssumption DEF IInv, TypeOK, RegistryOK, Events

\* The list of an object is locked while its proxies are being told.
LEMMA LeftMeansLocked ==
  ASSUME IInv, NEW t \in Threads, fire[t].at # "idle", fire[t].left # {}
  PROVE  Locked(fire[t].api)
<1>1. Placed(fire[t])
  BY DEF IInv
<1> QED
  BY <1>1 DEF Placed, Locked

\* What leaves the proxies alone leaves what is said of them.
LEMMA ProxiesUntouched ==
  ASSUME IInv, UNCHANGED <<proxy, listed, fire>>
  PROVE  ProxiesFollow' /\ ListedExist' /\ LeftFollow'
BY ConsequencesOfIInv DEF ProxiesFollow, ListedExist, LeftFollow, Live, Follows

LEMMA RegisteringKeeps ==
  ASSUME IInv, Registering
  PROVE  IInv'
<1> USE EventsAssumption
<1>1. RegistryOK /\ queue \in [Pages -> Seq(Calls)] /\ timers \in [Pages -> Seq(Calls)]
  BY ConsequencesOfIInv DEF TypeOK
<1>2. ASSUME MayChange, Quiet, UNCHANGED <<proxy, listed, valid, page>>,
             listeners' \in [Objects -> SUBSET Handlers],
             attribute' \in [Apis -> Handlers \cup {None}]
      PROVE  IInv'
  <2>1. ProxiesFollow' /\ ListedExist' /\ LeftFollow'
    BY <1>2, ProxiesUntouched DEF Quiet, Changed
  <2>2. RegistryOK'
    BY <1>1, <1>2 DEF RegistryOK
  <2> QED
    BY <1>1, <1>2, <2>1, <2>2, ChangeKeeps DEF Quiet
<1>3. ASSUME NEW o \in Objects, NEW h \in Handlers, AddListener(o, h) PROVE IInv'
  <2>1. listeners' \in [Objects -> SUBSET Handlers]
    BY <1>1, <1>3 DEF RegistryOK, AddListener
  <2> QED
    BY <1>1, <1>2, <1>3, <2>1 DEF AddListener, MayRegister, RegistryOK
<1>4. ASSUME NEW o \in Objects, NEW h \in Handlers, RemoveListener(o, h) PROVE IInv'
  <2>1. listeners' \in [Objects -> SUBSET Handlers]
    BY <1>1, <1>4 DEF RegistryOK, RemoveListener
  <2> QED
    BY <1>1, <1>2, <1>4, <2>1 DEF RemoveListener, MayRegister, RegistryOK
<1>5. ASSUME NEW q \in Pages, NEW a \in Apis, NEW h \in Handlers \cup {None}, SetAttribute(q, a, h)
      PROVE  IInv'
  <2>1. attribute' \in [Apis -> Handlers \cup {None}]
    BY <1>1, <1>5 DEF RegistryOK, SetAttribute
  <2> QED
    BY <1>1, <1>2, <1>5, <2>1 DEF SetAttribute, RegistryOK
<1> QED
  BY <1>3, <1>4, <1>5 DEF Registering

LEMMA CreateKeeps ==
  ASSUME IInv, NEW p \in Proxies, NEW a \in Apis, CreateWeak(p, a) \/ CreateShared(p, a)
  PROVE  IInv'
<1> USE EventsAssumption
<1>1. /\ RegistryOK /\ queue \in [Pages -> Seq(Calls)] /\ timers \in [Pages -> Seq(Calls)]
      /\ ProxiesFollow /\ ListedExist /\ LeftFollow
      /\ \A t \in Threads : fire[t].left \subseteq Proxies
  BY ConsequencesOfIInv DEF TypeOK, Fires
<1>2. /\ MayChange /\ Quiet /\ UNCHANGED <<listeners, attribute, valid, page>>
      /\ proxy[p].state = "none" /\ fire' = fire
  BY DEF CreateWeak, CreateShared, Quiet, Changed
<1>3. PICK follows \in BOOLEAN :
        /\ proxy' = [proxy EXCEPT ![p] = [state |-> "live", inner |-> a, follows |-> follows]]
        /\ \A b \in Apis : listed'[b] = IF b = a /\ follows THEN listed[b] \cup {p} ELSE listed[b]
        /\ listed' \in [Objects -> SUBSET Proxies]
  <2>1. CASE CreateWeak(p, a)
    <3> WITNESS TRUE \in BOOLEAN
    <3> QED
      BY <1>1, <2>1 DEF CreateWeak, RegistryOK, Objects
  <2>2. CASE CreateShared(p, a)
    <3> WITNESS FALSE \in BOOLEAN
    <3> QED
      BY <1>1, <2>2 DEF CreateShared, RegistryOK, Objects
  <2> QED
    BY <2>1, <2>2
<1>4. RegistryOK'
  BY <1>1, <1>2, <1>3 DEF RegistryOK
<1>5. \A b \in Apis : p \notin listed[b]
  BY <1>1, <1>2 DEF ListedExist
<1>6. \A d \in Proxies : d # p => proxy'[d] = proxy[d]
  BY <1>1, <1>3 DEF RegistryOK
<1>7. proxy'[p].state = "live" /\ proxy'[p].inner = a /\ (proxy'[p].follows <=> follows)
  BY <1>1, <1>3 DEF RegistryOK
<1>8. ASSUME NEW d \in Proxies, NEW b \in Apis
      PROVE  (Live(d) => (d \in listed[b] <=> Follows(d, b)))'
  <2>1. CASE d = p
    <3>1. d \in listed'[b] <=> b = a /\ follows
      BY <1>3, <1>5, <2>1
    <3> QED
      BY <3>1, <2>1, <1>7 DEF Live, Follows
  <2>2. CASE d # p
    <3>1. (d \in listed'[b] <=> d \in listed[b]) /\ proxy'[d] = proxy[d]
      BY <1>3, <1>6, <2>2
    <3> QED
      BY <3>1, <1>1 DEF ProxiesFollow, Live, Follows
  <2> QED
    BY <2>1, <2>2
<1>9. ListedExist'
  BY ZenonT(60), <1>1, <1>3, <1>6, <1>7 DEF ListedExist, RegistryOK, Objects
<1>10. LeftFollow'
  BY <1>1, <1>2, <1>6 DEF LeftFollow, Live, Follows
<1> QED
  BY <1>1, <1>2, <1>4, <1>8, <1>9, <1>10, ChangeKeeps DEF Quiet, ProxiesFollow

LEMMA ChangeObjectKeeps ==
  ASSUME IInv, NEW p \in Proxies, NEW b \in Apis \cup {None}, ChangeObject(p, b)
  PROVE  IInv'
<1> USE EventsAssumption
<1>1. /\ RegistryOK /\ queue \in [Pages -> Seq(Calls)] /\ timers \in [Pages -> Seq(Calls)]
      /\ ProxiesFollow /\ ListedExist /\ LeftFollow
      /\ \A t \in Threads : fire[t].left \subseteq Proxies
  BY ConsequencesOfIInv DEF TypeOK, Fires
<1>2. /\ MayChange /\ Quiet /\ UNCHANGED <<listeners, attribute, valid, page>>
      /\ Live(p) /\ ~Locked(proxy[p].inner) /\ fire' = fire
  BY DEF ChangeObject, Quiet, Changed
<1>3. /\ \A d \in Proxies : d # p => proxy'[d] = proxy[d]
      /\ proxy'[p].state = "live" /\ proxy'[p].inner = b /\ (proxy'[p].follows <=> b # None)
      /\ proxy' \in [Proxies -> [state : {"none", "live", "dead"}, inner : Apis \cup {None},
                                 follows : BOOLEAN]]
  <2>1. proxy[p] \in [state : {"none", "live", "dead"}, inner : Apis \cup {None}, follows : BOOLEAN]
    BY <1>1 DEF RegistryOK
  <2>2. proxy' = [proxy EXCEPT ![p] = [proxy[p] EXCEPT !.inner = b, !.follows = (b # None)]]
    BY <1>1 DEF RegistryOK, ChangeObject
  <2>3. [proxy[p] EXCEPT !.inner = b, !.follows = (b # None)] \in [state : {"none", "live", "dead"}, inner : Apis \cup {None}, follows : BOOLEAN]
    BY <2>1
  <2> QED
    BY <1>1, <1>2, <2>1, <2>2, <2>3 DEF RegistryOK, Live
<1>4. \A o \in Objects : listed'[o] =
        (IF o = proxy[p].inner THEN Unlisted(o, p) ELSE listed[o]) \cup (IF o = b THEN {p} ELSE {})
  BY DEF ChangeObject
<1>5. listed' \in [Objects -> SUBSET Proxies]
  BY <1>1 DEF ChangeObject, RegistryOK, Unlisted
<1>6. RegistryOK'
  BY <1>1, <1>2, <1>3, <1>5 DEF RegistryOK
<1>7. ASSUME NEW d \in Proxies, NEW a \in Apis
      PROVE  /\ (Live(d) => (d \in listed[a] <=> Follows(d, a)))'
             /\ d \in listed'[a] => proxy'[d].state # "none"
  <2>1. Live(d) => (d \in listed[a] <=> Follows(d, a))
    BY <1>1 DEF ProxiesFollow
  <2>2. d \in listed[a] => proxy[d].state # "none"
    BY <1>1 DEF ListedExist
  <2>3. a \in Objects
    BY DEF Objects
  <2>4. CASE d = p
    <3>1. d \in listed'[a] <=> (IF a = proxy[p].inner THEN FALSE ELSE d \in listed[a]) \/ a = b
      BY <1>4, <2>3, <2>4 DEF Unlisted
    <3>2. a # proxy[p].inner => d \notin listed[a]
      BY <1>2, <2>1, <2>4 DEF Follows
    <3>3. d \in listed'[a] <=> a = b
      BY <3>1, <3>2
    <3> QED
      BY <3>3, <1>3, <2>4 DEF Live, Follows
  <2>5. CASE d # p
    <3>1. d \in listed'[a] <=>
            (IF a = proxy[p].inner THEN d \in listed[a] /\ Live(d) ELSE d \in listed[a])
      BY <1>4, <2>3, <2>5 DEF Unlisted
    <3>2. proxy'[d] = proxy[d]
      BY <1>3, <2>5
    <3> QED
      BY <3>1, <3>2, <2>1, <2>2 DEF Live, Follows
  <2> QED
    BY <2>4, <2>5
<1>8. ProxiesFollow' /\ ListedExist'
  BY <1>5, <1>7 DEF ProxiesFollow, ListedExist, Objects
<1>9. ASSUME NEW t \in Threads, NEW d \in fire[t].left, fire[t].at # "idle"
      PROVE  d # p
  <2>1. Live(d) => proxy[d].inner = fire[t].api
    BY <1>1, <1>9 DEF LeftFollow, Follows
  <2>2. Locked(fire[t].api)
    BY <1>9, LeftMeansLocked
  <2> QED
    BY <1>2, <2>1, <2>2
<1>10. ASSUME NEW t \in Threads, NEW d \in fire[t].left, fire[t].at # "idle"
       PROVE  (proxy[d].state # "none" /\ (Live(d) => Follows(d, fire[t].api)))'
  <2>1. d # p /\ d \in Proxies
    BY <1>1, <1>9, <1>10
  <2>2. proxy'[d] = proxy[d]
    BY <1>3, <2>1
  <2> QED
    BY <1>1, <1>2, <1>10, <2>2 DEF LeftFollow, Live, Follows
<1>11. LeftFollow'
  BY <1>2, <1>10 DEF LeftFollow
<1> QED
  BY <1>1, <1>2, <1>6, <1>8, <1>11, ChangeKeeps DEF Quiet

LEMMA ResetKeeps ==
  ASSUME IInv, NEW p \in Proxies, Reset(p)
  PROVE  IInv'
<1> USE EventsAssumption
<1>1. /\ RegistryOK /\ queue \in [Pages -> Seq(Calls)] /\ timers \in [Pages -> Seq(Calls)]
      /\ ProxiesFollow /\ ListedExist /\ LeftFollow
      /\ \A t \in Threads : fire[t].left \subseteq Proxies
  BY ConsequencesOfIInv DEF TypeOK, Fires
<1>2. /\ MayChange /\ Quiet /\ UNCHANGED <<listeners, attribute, valid, page>>
      /\ Live(p) /\ ~Locked(proxy[p].inner) /\ fire' = fire
      /\ proxy[p].inner # None
  BY DEF Reset, Quiet, Changed
<1>3. /\ \A d \in Proxies : d # p => proxy'[d] = proxy[d]
      /\ proxy'[p].state = "live" /\ ~proxy'[p].follows
      /\ proxy' \in [Proxies -> [state : {"none", "live", "dead"}, inner : Apis \cup {None},
                                 follows : BOOLEAN]]
  <2>1. proxy[p] \in [state : {"none", "live", "dead"}, inner : Apis \cup {None}, follows : BOOLEAN]
    BY <1>1 DEF RegistryOK
  <2>2. proxy' = [proxy EXCEPT ![p] = [proxy[p] EXCEPT !.follows = FALSE]]
    BY <1>1 DEF RegistryOK, Reset
  <2>3. [proxy[p] EXCEPT !.follows = FALSE] \in [state : {"none", "live", "dead"}, inner : Apis \cup {None}, follows : BOOLEAN]
    BY <2>1
  <2> QED
    BY <1>1, <1>2, <2>1, <2>2, <2>3 DEF RegistryOK, Live
<1>4. proxy[p].inner \in Apis /\ proxy[p].inner \in Objects
  BY <1>1, <1>2 DEF RegistryOK, Objects
<1>5. /\ listed' \in [Objects -> SUBSET Proxies]
      /\ \A o \in Objects : listed'[o] = IF o = proxy[p].inner THEN Unlisted(o, p) ELSE listed[o]
  BY <1>1, <1>4 DEF Reset, RegistryOK, Unlisted
<1>6. RegistryOK'
  BY <1>1, <1>2, <1>3, <1>5 DEF RegistryOK
<1>7. ASSUME NEW d \in Proxies, NEW a \in Apis
      PROVE  /\ (Live(d) => (d \in listed[a] <=> Follows(d, a)))'
             /\ d \in listed'[a] => proxy'[d].state # "none"
  <2>1. Live(d) => (d \in listed[a] <=> Follows(d, a))
    BY <1>1 DEF ProxiesFollow
  <2>2. d \in listed[a] => proxy[d].state # "none"
    BY <1>1 DEF ListedExist
  <2>3. a \in Objects
    BY DEF Objects
  <2>4. CASE d = p
    <3>1. a # proxy[p].inner => d \notin listed[a]
      BY <1>2, <2>1, <2>4 DEF Follows
    <3>2. d \notin listed'[a]
      BY <3>1, <1>5, <2>3, <2>4 DEF Unlisted
    <3> QED
      BY <3>2, <1>3, <2>4 DEF Live, Follows
  <2>5. CASE d # p
    <3>1. d \in listed'[a] <=>
            (IF a = proxy[p].inner THEN d \in listed[a] /\ Live(d) ELSE d \in listed[a])
      BY <1>5, <2>3, <2>5 DEF Unlisted
    <3>2. proxy'[d] = proxy[d]
      BY <1>3, <2>5
    <3> QED
      BY <3>1, <3>2, <2>1, <2>2 DEF Live, Follows
  <2> QED
    BY <2>4, <2>5
<1>8. ProxiesFollow' /\ ListedExist'
  BY <1>5, <1>7 DEF ProxiesFollow, ListedExist, Objects
<1>9. ASSUME NEW t \in Threads, NEW d \in fire[t].left, fire[t].at # "idle"
      PROVE  d # p
  <2>1. Live(d) => proxy[d].inner = fire[t].api
    BY <1>1, <1>9 DEF LeftFollow, Follows
  <2>2. Locked(fire[t].api)
    BY <1>9, LeftMeansLocked
  <2> QED
    BY <1>2, <2>1, <2>2
<1>10. ASSUME NEW t \in Threads, NEW d \in fire[t].left, fire[t].at # "idle"
       PROVE  (proxy[d].state # "none" /\ (Live(d) => Follows(d, fire[t].api)))'
  <2>1. d # p /\ d \in Proxies
    BY <1>1, <1>9, <1>10
  <2>2. proxy'[d] = proxy[d]
    BY <1>3, <2>1
  <2> QED
    BY <1>1, <1>2, <1>10, <2>2 DEF LeftFollow, Live, Follows
<1>11. LeftFollow'
  BY <1>2, <1>10 DEF LeftFollow
<1> QED
  BY <1>1, <1>2, <1>6, <1>8, <1>11, ChangeKeeps DEF Quiet

LEMMA ReleaseKeeps ==
  ASSUME IInv, NEW p \in Proxies, Release(p)
  PROVE  IInv'
<1>1. /\ RegistryOK /\ queue \in [Pages -> Seq(Calls)] /\ timers \in [Pages -> Seq(Calls)]
      /\ ProxiesFollow /\ ListedExist /\ LeftFollow
      /\ \A t \in Threads : fire[t].left \subseteq Proxies
  BY ConsequencesOfIInv DEF TypeOK, Fires
<1>2. /\ MayChange /\ Quiet /\ UNCHANGED <<listeners, attribute, listed, valid, page>>
      /\ fire' = fire
  BY DEF Release, Quiet, Changed
<1>3. /\ \A d \in Proxies : d # p => proxy'[d] = proxy[d]
      /\ proxy'[p].state = "dead"
      /\ proxy' \in [Proxies -> [state : {"none", "live", "dead"}, inner : Apis \cup {None},
                                 follows : BOOLEAN]]
  BY <1>1, <1>2 DEF RegistryOK, Release
<1>4. RegistryOK'
  BY <1>1, <1>2, <1>3 DEF RegistryOK
<1>5. ASSUME NEW d \in Proxies, NEW a \in Apis
      PROVE  (Live(d) => (d \in listed[a] <=> Follows(d, a)))'
  <2>1. CASE d = p
    BY <1>3, <2>1 DEF Live
  <2>2. CASE d # p
    BY <1>1, <1>2, <1>3, <2>2 DEF ProxiesFollow, Live, Follows
  <2> QED
    BY <2>1, <2>2
<1>6. ListedExist'
  BY <1>1, <1>2, <1>3 DEF ListedExist, RegistryOK, Objects
<1>7. LeftFollow'
  BY <1>1, <1>2, <1>3 DEF LeftFollow, Live, Follows
<1> QED
  BY <1>1, <1>2, <1>4, <1>5, <1>6, <1>7, ChangeKeeps DEF Quiet, ProxiesFollow

LEMMA ClosingKeeps ==
  ASSUME IInv, Closing
  PROVE  IInv'
<1> USE EventsAssumption
<1>1. /\ TypeOK /\ RegistryOK /\ queue \in [Pages -> Seq(Calls)] /\ timers \in [Pages -> Seq(Calls)]
  BY ConsequencesOfIInv DEF TypeOK
<1>2. ASSUME NEW o \in Objects, Invalidate(o) PROVE IInv'
  <2>1. ProxiesFollow' /\ ListedExist' /\ LeftFollow'
    BY <1>2, ProxiesUntouched DEF Invalidate, Quiet, Changed
  <2>2. RegistryOK'
    BY <1>1, <1>2 DEF RegistryOK, Invalidate
  <2> QED
    BY <1>1, <1>2, <2>1, <2>2, ChangeKeeps DEF Invalidate, Quiet
<1>3. ASSUME NEW q \in Pages, ShutPage(q) PROVE IInv'
  <2>1. ProxiesFollow' /\ ListedExist' /\ LeftFollow'
    BY <1>3, ProxiesUntouched DEF ShutPage, Changed
  <2>2. RegistryOK'
    BY <1>1, <1>3 DEF RegistryOK, ShutPage
  <2>3. <<>> \in Seq(Calls)
    OBVIOUS
  <2>4. /\ queue' \in [Pages -> Seq(Calls)] /\ timers' \in [Pages -> Seq(Calls)]
        /\ \A r \in Pages : queue'[r] = queue[r] \/ queue'[r] = <<>>
        /\ \A r \in Pages : timers'[r] = timers[r] \/ timers'[r] = <<>>
    BY <1>1, <1>3, <2>3 DEF ShutPage
  <2> QED
    BY <1>3, <2>1, <2>2, <2>4, ChangeKeeps DEF ShutPage
<1>4. ASSUME NEW q \in Pages, DrainEnds(q) \/ HostGone(q) PROVE IInv'
  <2>1. page' \in [Pages -> {"open", "draining", "shut", "gone"}]
    BY <1>1, <1>4 DEF RegistryOK, DrainEnds, HostGone
  <2>2. TypeOK'
    BY <1>1, <1>4, <2>1 DEF DrainEnds, HostGone, TypeOK
  <2> QED
    BY <1>4, <2>2 DEF DrainEnds, HostGone, IInv, ProxiesFollow, ListedExist, Placed, Audience,
                      Live, Follows, CallsHeld, HeardWasAttached
<1> QED
  BY <1>2, <1>3, <1>4 DEF Closing

-----------------------------------------------------------------------------
(* Calls under way.                                                        *)

LEMMA AppendedCall ==
  ASSUME NEW calls \in [Pages -> Seq(Calls)], CallsHeld(calls), NEW q \in Pages,
         NEW c \in Calls, c.e \in 1..fired, c.to \subseteq event[c.e].held,
         NEW new, new = [calls EXCEPT ![q] = Append(@, c)]
  PROVE  new \in [Pages -> Seq(Calls)] /\ CallsHeld(new)
<1>1. \A r \in Pages : new[r] = IF r = q THEN Append(calls[r], c) ELSE calls[r]
  OBVIOUS
<1>2. ASSUME NEW r \in Pages, NEW i \in 1..Len(new[r])
      PROVE  new[r][i].e \in 1..fired /\ new[r][i].to \subseteq event[new[r][i].e].held
  <2>1. CASE r = q /\ i = Len(calls[r]) + 1
    BY <1>1, <2>1
  <2>2. CASE ~(r = q /\ i = Len(calls[r]) + 1)
    <3>1. i \in 1..Len(calls[r]) /\ new[r][i] = calls[r][i]
      BY <1>1, <2>2
    <3> QED
      BY <3>1 DEF CallsHeld
  <2> QED
    BY <2>1, <2>2
<1> QED
  BY <1>2 DEF CallsHeld

LEMMA FirstCall ==
  ASSUME NEW calls \in [Pages -> Seq(Calls)], CallsHeld(calls), NEW q \in Pages,
         calls[q] # <<>>,
         NEW new, new = [calls EXCEPT ![q] = Tail(@)]
  PROVE  /\ new \in [Pages -> Seq(Calls)] /\ CallsHeld(new)
         /\ Head(calls[q]) \in Calls /\ Head(calls[q]) = calls[q][1] /\ Len(calls[q]) >= 1
         /\ Head(calls[q]).e \in 1..fired
         /\ Head(calls[q]).to \subseteq event[Head(calls[q]).e].held
<1>1. \A r \in Pages : new[r] = IF r = q THEN Tail(calls[r]) ELSE calls[r]
  OBVIOUS
<1>2. Head(calls[q]) = calls[q][1] /\ 1 \in 1..Len(calls[q]) /\ Head(calls[q]) \in Calls
  OBVIOUS
<1>3. ASSUME NEW r \in Pages, NEW i \in 1..Len(new[r])
      PROVE  new[r][i].e \in 1..fired /\ new[r][i].to \subseteq event[new[r][i].e].held
  <2>1. CASE r = q
    <3>1. i + 1 \in 1..Len(calls[r]) /\ new[r][i] = calls[r][i + 1]
      BY <1>1, <2>1
    <3> QED
      BY <3>1 DEF CallsHeld
  <2>2. CASE r # q
    BY <1>1, <2>2 DEF CallsHeld
  <2> QED
    BY <2>1, <2>2
<1>4. new \in [Pages -> Seq(Calls)]
  OBVIOUS
<1> QED
  BY <1>2, <1>3, <1>4 DEF CallsHeld

\* A call on the main thread goes to handlers that were attached.
LEMMA RunKeeps ==
  ASSUME IInv, NEW e \in 1..fired, NEW q \in Pages, NEW some, some \subseteq event[e].held,
         Run(e, q, some)
  PROVE  /\ timers' \in [Pages -> Seq(Calls)] /\ CallsHeld(timers')
         /\ heard' \in [Events -> SUBSET Registrations]
         /\ \A d \in Events : heard'[d] \subseteq event[d].held /\ (d > fired => heard'[d] = {})
<1> DEFINE later == {r \in some : ~AtOnce(r)}
           now == {r \in some : AtOnce(r)}
<1>1. /\ TypeOK /\ e \in Events /\ fired \in Nat /\ CallsHeld(timers) /\ HeardWasAttached
      /\ \A d \in Events : d > fired => heard[d] = {}
  BY ConsequencesOfIInv DEF IInv
<1>2. some \subseteq Registrations
  BY <1>1 DEF TypeOK, History
<1>3. timers' \in [Pages -> Seq(Calls)] /\ CallsHeld(timers')
  <2>1. CASE later = {}
    <3>1. timers' = timers
      BY <1>1, <2>1 DEF Run, TypeOK
    <3> QED
      BY <1>1, <3>1 DEF TypeOK
  <2>2. CASE later # {}
    <3>1. [e |-> e, to |-> later] \in Calls
      BY <1>1, <1>2 DEF Calls
    <3>2. timers' = [timers EXCEPT ![q] = Append(@, [e |-> e, to |-> later])]
      BY <2>2 DEF Run
    <3>3. timers \in [Pages -> Seq(Calls)]
      BY <1>1 DEF TypeOK
    <3> HIDE DEF later
    <3>4. [e |-> e, to |-> later].to \subseteq event[[e |-> e, to |-> later].e].held
      BY DEF later
    <3> QED
      BY <1>1, <3>1, <3>2, <3>3, <3>4, AppendedCall
  <2> QED
    BY <2>1, <2>2
<1>4. heard' = [heard EXCEPT ![e] = @ \cup now]
  BY DEF Run
<1>5. now \subseteq event[e].held /\ now \subseteq Registrations
  BY <1>2
<1> HIDE DEF now
<1> QED
  BY <1>1, <1>3, <1>4, <1>5 DEF TypeOK, HeardWasAttached

-----------------------------------------------------------------------------
(* Calls on the main thread.                                               *)

LEMMA ReachedPart ==
  ASSUME NEW to, NEW thrown, NEW some \in Reached(to, thrown)
  PROVE  some \subseteq to
BY DEF Reached

LEMMA DeliverKeeps ==
  ASSUME IInv, NEW q \in Pages, Deliver(q)
  PROVE  IInv'
<1> USE EventsAssumption
<1>1. TypeOK /\ CallsHeld(queue) /\ ProxiesFollow /\ ListedExist /\ 1..fired \subseteq Events
  BY ConsequencesOfIInv DEF IInv
<1>2. queue[q] # <<>> /\ queue' = [queue EXCEPT ![q] = Tail(@)] /\ queue \in [Pages -> Seq(Calls)]
  BY <1>1 DEF Deliver, TypeOK
<1> DEFINE c == Head(queue[q])
<1>3. /\ queue' \in [Pages -> Seq(Calls)] /\ CallsHeld(queue')
      /\ c \in Calls /\ c.e \in 1..fired /\ c.to \subseteq event[c.e].held
  BY <1>1, <1>2, FirstCall
<1>4. PICK thrown \in BOOLEAN : \E some \in Reached(c.to, thrown) :
        /\ Run(c.e, q, some)
        /\ event' = [event EXCEPT ![c.e].cut = IF thrown THEN @ \cup {q} ELSE @]
  BY DEF Deliver
<1>12. PICK some \in Reached(c.to, thrown) :
         /\ Run(c.e, q, some)
         /\ event' = [event EXCEPT ![c.e].cut = IF thrown THEN @ \cup {q} ELSE @]
  BY <1>4
<1>5. some \subseteq event[c.e].held
  BY <1>3, <1>12, ReachedPart
<1>6. c.e \in Events /\ event[c.e] \in History /\ event \in [Events -> History]
  BY <1>1, <1>3 DEF TypeOK
<1>7. /\ event' \in [Events -> History]
      /\ \A e \in Events : event'[e].held = event[e].held /\ event'[e].api = event[e].api
  BY <1>6, <1>12 DEF History
<1>8. UNCHANGED <<registry, fire, fired, changes, overflow>>
  BY DEF Deliver
<1>9. /\ timers' \in [Pages -> Seq(Calls)] /\ CallsHeld(timers')
      /\ heard' \in [Events -> SUBSET Registrations]
      /\ \A d \in Events : heard'[d] \subseteq event[d].held /\ (d > fired => heard'[d] = {})
  BY <1>3, <1>5, <1>12, RunKeeps
<1>10. ProxiesFollow' /\ ListedExist'
  BY <1>8, <1>1 DEF registry, ProxiesFollow, ListedExist, Live, Follows
<1>11. \A t \in Threads : Placed(fire'[t])
  BY <1>8 DEF IInv
<1> QED
  BY <1>1, <1>3, <1>7, <1>8, <1>9, <1>10, <1>11, StepKeeps DEF TypeOK, registry

LEMMA TimerKeeps ==
  ASSUME IInv, NEW q \in Pages, Timer(q)
  PROVE  IInv'
<1> USE EventsAssumption
<1>1. /\ TypeOK /\ CallsHeld(timers) /\ CallsHeld(queue) /\ ProxiesFollow /\ ListedExist
      /\ 1..fired \subseteq Events /\ fired \in Nat /\ HeardWasAttached
      /\ \A d \in Events : d > fired => heard[d] = {}
  BY ConsequencesOfIInv DEF IInv
<1>2. timers[q] # <<>> /\ timers \in [Pages -> Seq(Calls)]
  BY <1>1 DEF Timer, TypeOK
<1> DEFINE c == Head(timers[q])
           next == [timers EXCEPT ![q] = Tail(@)]
<1>3. /\ next \in [Pages -> Seq(Calls)] /\ CallsHeld(next)
      /\ c \in Calls /\ c.e \in 1..fired /\ c.to \subseteq event[c.e].held
      /\ c = timers[q][1] /\ Len(timers[q]) >= 1
  BY <1>1, <1>2, FirstCall
<1>4. PICK r \in c.to :
        /\ heard' = [heard EXCEPT ![c.e] = @ \cup {r}]
        /\ timers' = [timers EXCEPT ![q] =
             IF c.to = {r} THEN Tail(@) ELSE [@ EXCEPT ![1] = [c EXCEPT !.to = @ \ {r}]]]
  BY DEF Timer
<1>5. timers' \in [Pages -> Seq(Calls)] /\ CallsHeld(timers')
  <2>1. CASE c.to = {r}
    BY <1>3, <1>4, <2>1
  <2>2. CASE c.to # {r}
    <3> DEFINE rest == [c EXCEPT !.to = @ \ {r}]
               s == timers[q]
               new == [s EXCEPT ![1] = rest]
    <3>1. rest \in Calls /\ rest.e = c.e /\ rest.to \subseteq c.to
      BY <1>3 DEF Calls
    <3>2. s \in Seq(Calls) /\ 1 \in 1..Len(s) /\ s[1] = c
      BY <1>2, <1>3
    <3>3. timers' = [timers EXCEPT ![q] = new]
      BY <1>4, <2>2
    <3> HIDE DEF rest, c
    <3>4. new \in Seq(Calls) /\ Len(new) = Len(s)
          /\ \A i \in 1..Len(s) : new[i] = IF i = 1 THEN rest ELSE s[i]
      BY <3>1, <3>2
    <3>5. \A p \in Pages : timers'[p] = IF p = q THEN new ELSE timers[p]
      BY <1>2, <3>3
    <3> HIDE DEF new
    <3>6. timers' \in [Pages -> Seq(Calls)]
      BY <1>2, <3>3, <3>4
    <3>7. ASSUME NEW p \in Pages, NEW i \in 1..Len(timers'[p])
          PROVE  /\ timers'[p][i].e \in 1..fired
                 /\ timers'[p][i].to \subseteq event[timers'[p][i].e].held
      <4>1. CASE p = q /\ i = 1
        <5>1. timers'[p][i] = rest
          BY <3>4, <3>5, <3>2, <4>1
        <5> QED
          BY <5>1, <3>1, <1>3
      <4>2. CASE ~(p = q /\ i = 1)
        <5>1. i \in 1..Len(timers[p]) /\ timers'[p][i] = timers[p][i]
          BY <3>4, <3>5, <4>2
        <5> QED
          BY <5>1, <1>1 DEF CallsHeld
      <4> QED
        BY <4>1, <4>2
    <3> QED
      BY <3>6, <3>7 DEF CallsHeld
  <2> QED
    BY <2>1, <2>2
<1>6. c.e \in Events /\ r \in event[c.e].held /\ r \in Registrations
  BY <1>1, <1>3 DEF TypeOK, History
<1>7. heard' \in [Events -> SUBSET Registrations]
  BY <1>1, <1>4, <1>6 DEF TypeOK
<1>8. \A d \in Events : heard'[d] \subseteq event[d].held /\ (d > fired => heard'[d] = {})
  BY <1>1, <1>3, <1>4, <1>6 DEF TypeOK, HeardWasAttached
<1>9. UNCHANGED <<registry, fire, queue, event, fired, changes, overflow>>
  BY DEF Timer
<1>10. ProxiesFollow' /\ ListedExist'
  BY <1>9, <1>1 DEF registry, ProxiesFollow, ListedExist, Live, Follows
<1>11. \A t \in Threads : Placed(fire'[t])
  BY <1>9 DEF IInv
<1> QED
  BY <1>1, <1>5, <1>7, <1>8, <1>9, <1>10, <1>11, StepKeeps DEF TypeOK, registry

-----------------------------------------------------------------------------
(* FireEvent.                                                              *)

LEMMA BeginKeeps ==
  ASSUME IInv, NEW t \in Threads, NEW a \in Apis, Begin(t, a)
  PROVE  IInv'
<1> USE EventsAssumption
<1>1. /\ TypeOK /\ ProxiesFollow /\ ListedExist /\ CallsHeld(queue) /\ CallsHeld(timers)
      /\ HeardWasAttached /\ 1..fired \subseteq Events /\ fired \in Nat
      /\ \A d \in Events : d > fired => heard[d] = {}
  BY ConsequencesOfIInv DEF IInv
<1> DEFINE e == fired + 1
           new == [thread |-> t, api |-> a, must |-> Audience(a), held |-> Audience(a),
                   cut |-> {}, aborted |-> FALSE]
           f == Begun(a, e)
<1>2. /\ fired' = e /\ fire' = [fire EXCEPT ![t] = f] /\ event' = [event EXCEPT ![e] = new]
      /\ UNCHANGED <<registry, queue, timers, heard, changes, overflow>>
      /\ fired < MaxEvents
  BY DEF Begin, Goes
<1>3. e \in Events /\ e \in 1..MaxEvents /\ e \notin 1..fired /\ e > fired
  BY <1>1, <1>2 DEF Events
<1>4. Audience(a) \subseteq Registrations /\ Audience(a)' = Audience(a)
  BY <1>2 DEF Audience, registry, Follows, Live
<1>5. new \in History
  BY <1>4 DEF History
<1>6. f \in Fires /\ f.at = "begun" /\ f.api = a /\ f.e = e /\ f.left = {} /\ f.obj = None
  <2>1. e \in 0..MaxEvents
    BY <1>3
  <2> HIDE DEF e
  <2> QED
    BY <2>1 DEF Fires, Begun
<1> HIDE DEF f, e
<1>7. /\ event' \in [Events -> History]
      /\ event'[e] = new
      /\ \A d \in Events : d # e => event'[d] = event[d]
  BY <1>1, <1>2, <1>3, <1>5 DEF TypeOK
<1>8. new.api = a /\ new.held = Audience(a)
  OBVIOUS
<1> HIDE DEF new
<1>9. TypeOK'
  <2>1. fire' \in [Threads -> Fires] /\ fired' \in 0..MaxEvents
    BY <1>1, <1>2, <1>3, <1>6 DEF TypeOK
  <2> QED
    BY <1>1, <1>2, <1>7, <2>1 DEF TypeOK, registry
<1>10. ProxiesFollow' /\ ListedExist'
  BY <1>1, <1>2 DEF ProxiesFollow, ListedExist, Live, Follows, registry
<1>11. ASSUME NEW u \in Threads PROVE Placed(fire[u])'
  <2>1. CASE u = t
    <3>1. fire'[u] = f
      BY <1>1, <1>2, <2>1 DEF TypeOK
    <3>2. e \in 1..fired'
      BY <1>1, <1>2 DEF e
    <3> QED
      BY <1>4, <1>6, <1>7, <1>8, <3>1, <3>2 DEF Placed
  <2>2. CASE u # t
    <3>1. fire'[u] = fire[u] /\ Placed(fire[u]) /\ fire[u] \in Fires
      BY <1>1, <1>2, <2>2 DEF TypeOK, IInv
    <3>2. CASE fire[u].at = "idle"
      BY <3>1, <3>2 DEF Placed
    <3>3. ASSUME NEW g, g = fire[u], g.at # "idle", NEW b, b = g.api, NEW d, d = g.e
          PROVE  Placed(fire[u])'
      <4>1. d \in 1..fired /\ b \in Apis
        BY <3>1, <3>3 DEF Placed
      <4>2. event'[d] = event[d] /\ d \in 1..fired'
        BY <1>1, <1>2, <1>3, <1>7, <4>1 DEF e
      <4>3. Audience(b)' = Audience(b)
        BY <1>2 DEF Audience, registry, Follows, Live
      <4>4. \A p \in g.left : (proxy[p].state # "none")' /\ (Live(p) => Follows(p, b))'
        BY <1>2, <3>1, <3>3 DEF Placed, Follows, Live, registry
      <4> QED
        BY <3>1, <3>3, <4>1, <4>2, <4>3, <4>4 DEF Placed
    <3> QED
      BY <3>2, <3>3
  <2> QED
    BY <2>1, <2>2
<1>12. \A d \in 1..fired : d \in 1..fired' /\ event'[d].held = event[d].held
  BY <1>1, <1>2, <1>3, <1>7 DEF e
<1>13. CallsHeld(queue)' /\ CallsHeld(timers)'
  BY <1>1, <1>2, <1>12 DEF CallsHeld
<1>14. \A d \in Events : d > fired' => heard'[d] = {}
  BY <1>1, <1>2 DEF e, Events
<1>15. HeardWasAttached'
  <2>1. heard[e] = {}
    BY <1>1, <1>3
  <2> QED
    BY <1>1, <1>2, <1>7, <2>1 DEF HeardWasAttached
<1> QED
  BY <1>9, <1>10, <1>11, <1>13, <1>14, <1>15 DEF IInv

\* A step of FireEvent that changes nothing but where it is, and the calls, the
\* list of proxies or the history in a way that keeps what is said of them.
LEMMA FireStepKeeps ==
  ASSUME IInv, NEW t \in Threads, NEW f \in Fires, Placed(f), Goes(t, f),
         UNCHANGED <<listeners, attribute, proxy, valid, page, changes, fired>>,
         listed' \in [Objects -> SUBSET Proxies], ProxiesFollow', ListedExist',
         overflow' \in BOOLEAN,
         event' \in [Events -> History],
         \A e \in Events : event'[e].held = event[e].held /\ event'[e].api = event[e].api,
         queue' \in [Pages -> Seq(Calls)], timers' \in [Pages -> Seq(Calls)],
         CallsHeld(queue'), CallsHeld(timers'),
         heard' \in [Events -> SUBSET Registrations],
         \A e \in Events : heard'[e] \subseteq event[e].held /\ (e > fired => heard'[e] = {})
  PROVE  IInv'
<1>1. fire \in [Threads -> Fires] /\ fire' = [fire EXCEPT ![t] = f]
  BY DEF IInv, TypeOK, Goes
<1>2. fire' \in [Threads -> Fires]
  BY <1>1
<1>3. \A u \in Threads : Placed(fire'[u])
  <2>1. ASSUME NEW u \in Threads PROVE fire'[u] = f \/ fire'[u] = fire[u]
    BY <1>1
  <2>2. \A u \in Threads : Placed(fire[u])
    BY DEF IInv
  <2> QED
    BY <2>1, <2>2
<1> QED
  BY <1>2, <1>3, StepKeeps

\* Of which most change nothing else.
LEMMA MoveKeeps ==
  ASSUME IInv, NEW t \in Threads, NEW f \in Fires, Placed(f), Goes(t, f),
         Still, UNCHANGED registry, overflow' \in BOOLEAN
  PROVE  IInv'
<1>1. /\ TypeOK /\ ProxiesFollow /\ ListedExist /\ CallsHeld(queue) /\ CallsHeld(timers)
      /\ HeardWasAttached /\ \A d \in Events : d > fired => heard[d] = {}
  BY DEF IInv
<1>2. ProxiesFollow' /\ ListedExist'
  BY <1>1 DEF registry, ProxiesFollow, ListedExist, Live, Follows
<1>3. UNCHANGED <<listeners, attribute, proxy, listed, valid, page, queue, timers, event,
                  fired, heard, changes>>
  BY DEF registry, Still
<1> QED
  BY <1>1, <1>2, <1>3, FireStepKeeps DEF TypeOK, HeardWasAttached

\* What the invariant says of a thread in FireEvent.
LEMMA AtPlace ==
  ASSUME IInv, NEW t \in Threads, NEW f, f = fire[t], f.at # "idle"
  PROVE  /\ Placed(f) /\ f \in Fires /\ f.api \in Apis /\ f.api \in Objects
         /\ f.e \in 1..fired /\ f.e \in Events
         /\ Audience(f.api) \subseteq event[f.e].held /\ event[f.e] \in History
BY ConsequencesOfIInv DEF Placed, TypeOK, Objects

LEMMA LockProxiesKeeps ==
  ASSUME IInv, NEW t \in Threads, LockProxies(t)
  PROVE  IInv'
<1> USE EventsAssumption
<1> DEFINE f == fire[t]
           g == [f EXCEPT !.at = "proxies", !.left = listed[f.api]]
<1>1. f.at = "begun" /\ Goes(t, g) /\ Still /\ UNCHANGED <<registry, overflow>>
  BY DEF LockProxies, At
<1>2. /\ Placed(f) /\ f \in Fires /\ f.api \in Apis /\ f.api \in Objects
      /\ TypeOK /\ ProxiesFollow /\ ListedExist
  BY <1>1, AtPlace, ConsequencesOfIInv
<1>3. listed[f.api] \subseteq Proxies
  BY <1>2 DEF TypeOK
<1> HIDE DEF f
<1>4. g \in Fires
  BY <1>2, <1>3 DEF Fires
<1>5. \A p \in listed[f.api] : proxy[p].state # "none" /\ (Live(p) => Follows(p, f.api))
  BY <1>2, <1>3 DEF ProxiesFollow, ListedExist
<1>6. /\ g.at = "proxies" /\ g.left = listed[f.api] /\ g.api = f.api /\ g.e = f.e
      /\ g.obj = f.obj
  BY <1>2 DEF Fires
<1> HIDE DEF g
<1>7. Placed(g)
  BY <1>1, <1>2, <1>5, <1>6 DEF Placed
<1> QED
  BY <1>1, <1>2, <1>4, <1>7, MoveKeeps DEF TypeOK

LEMMA ErasesProxyKeeps ==
  ASSUME IInv, NEW t \in Threads, NEW p \in Proxies, ErasesProxy(t, p)
  PROVE  IInv'
<1> USE EventsAssumption
<1> DEFINE f == fire[t]
           g == [f EXCEPT !.left = @ \ {p}]
<1>1. /\ f.at = "proxies" /\ Goes(t, g) /\ Still /\ ~Live(p) /\ p \in f.left
      /\ listed' = [listed EXCEPT ![f.api] = @ \ {p}]
      /\ UNCHANGED <<listeners, attribute, proxy, valid, page, overflow>>
  BY DEF ErasesProxy, At
<1>2. /\ Placed(f) /\ f \in Fires /\ f.api \in Apis /\ f.api \in Objects
      /\ TypeOK /\ ProxiesFollow /\ ListedExist
      /\ CallsHeld(queue) /\ CallsHeld(timers)
      /\ HeardWasAttached /\ \A d \in Events : d > fired => heard[d] = {}
  BY <1>1, AtPlace, ConsequencesOfIInv DEF IInv
<1> HIDE DEF f
<1>3. g \in Fires
  BY <1>2 DEF Fires
<1>4. g.at = f.at /\ g.left = f.left \ {p} /\ g.api = f.api /\ g.e = f.e /\ g.obj = f.obj
  BY <1>2 DEF Fires
<1> HIDE DEF g
<1>5. Placed(g)
  BY <1>1, <1>2, <1>4 DEF Placed
<1>6. listed' \in [Objects -> SUBSET Proxies]
  BY <1>1, <1>2 DEF TypeOK
<1>7. \A a \in Apis : listed'[a] \subseteq listed[a] /\ \A d \in listed[a] : d # p => d \in listed'[a]
  BY <1>1, <1>2 DEF TypeOK, Objects
<1>8. ProxiesFollow'
  BY <1>1, <1>2, <1>7 DEF ProxiesFollow, Live, Follows
<1>9. ListedExist'
  BY <1>1, <1>2, <1>7 DEF ListedExist
<1> QED
  BY <1>1, <1>2, <1>3, <1>5, <1>6, <1>8, <1>9, FireStepKeeps
     DEF TypeOK, Still, HeardWasAttached

\* The handlers that are copied are attached.
LEMMA CopiedPlaced ==
  ASSUME IInv, NEW t \in Threads, NEW f, f = fire[t], f.at = "proxies",
         NEW o \in Objects, o = f.api \/ (Follows(o, f.api) /\ o \in Proxies),
         o = f.api => f.left = {}
  PROVE  Copied(f, o) \in Fires /\ Placed(Copied(f, o))
<1> USE EventsAssumption
<1>1. /\ Placed(f) /\ f \in Fires /\ f.api \in Apis /\ TypeOK
      /\ Audience(f.api) \subseteq event[f.e].held
  BY AtPlace, ConsequencesOfIInv
<1>2. listeners[o] \subseteq Handlers
  BY <1>1 DEF TypeOK
<1> DEFINE g == Copied(f, o)
<1>5. {PageOf[h] : h \in listeners[o]} \subseteq Pages
  BY <1>2
<1>6. g = [at |-> "calls", api |-> f.api, obj |-> o, e |-> f.e, left |-> f.left \ {o},
           copy |-> listeners[o], pages |-> {PageOf[h] : h \in listeners[o]}, page |-> None]
  BY DEF Copied
<1> HIDE DEF g
<1>7. g \in Fires
  BY <1>1, <1>2, <1>5, <1>6 DEF Fires
<1>3. /\ g.at = "calls" /\ g.obj = o /\ g.copy = listeners[o] /\ g.left = f.left \ {o}
      /\ g.api = f.api /\ g.e = f.e
  BY <1>6
<1>4. ASSUME NEW h \in listeners[o] PROVE Listener(o, h) \in event[f.e].held
  <2>1. Listener(o, h) \in Registrations /\ Listener(o, h).at = o
        /\ Listener(o, h).how = "listener" /\ Listener(o, h).handler = h
    BY <1>2 DEF Listener, Registrations
  <2>2. Listener(o, h) \in Audience(f.api)
    BY <2>1 DEF Audience
  <2> QED
    BY <1>1, <2>2
<1>8. Placed(g)
  BY <1>1, <1>3, <1>4 DEF Placed
<1> QED
  BY <1>7, <1>8 DEF g

LEMMA TellsProxyKeeps ==
  ASSUME IInv, NEW t \in Threads, NEW p \in Proxies, TellsProxy(t, p)
  PROVE  IInv'
<1>1. /\ fire[t].at = "proxies" /\ p \in fire[t].left /\ Live(p)
      /\ Goes(t, Copied(fire[t], p)) /\ Still /\ UNCHANGED registry
      /\ overflow' \in BOOLEAN
  BY DEF TellsProxy, At
<1>2. Follows(p, fire[t].api) /\ p \in Objects /\ p # fire[t].api
  BY <1>1, AtPlace, EventsAssumption DEF Placed, Objects
<1>3. Copied(fire[t], p) \in Fires /\ Placed(Copied(fire[t], p))
  BY <1>1, <1>2, CopiedPlaced
<1> QED
  BY <1>1, <1>3, MoveKeeps

LEMMA OwnHandlersKeeps ==
  ASSUME IInv, NEW t \in Threads, OwnHandlers(t)
  PROVE  IInv'
<1>1. /\ fire[t].at = "proxies" /\ fire[t].left = {}
      /\ Goes(t, Copied(fire[t], fire[t].api)) /\ Still /\ UNCHANGED <<registry, overflow>>
  BY DEF OwnHandlers, At
<1>2. Copied(fire[t], fire[t].api) \in Fires /\ Placed(Copied(fire[t], fire[t].api))
  <2>1. fire[t].api \in Objects
    BY <1>1, AtPlace
  <2> QED
    BY <1>1, <2>1, CopiedPlaced
<1>3. overflow' \in BOOLEAN
  BY <1>1, ConsequencesOfIInv DEF TypeOK
<1> QED
  BY <1>1, <1>2, <1>3, MoveKeeps

LEMMA NotFiringPlaced == NotFiring \in Fires /\ Placed(NotFiring)
BY EventsAssumption DEF NotFiring, Fires, Placed

LEMMA ToldPlaced ==
  ASSUME IInv, NEW t \in Threads, NEW f, f = fire[t], f.at \in {"calls", "call", "post"}
  PROVE  Told(f) \in Fires /\ Placed(Told(f))
<1> USE EventsAssumption
<1>1. f \in Fires /\ Placed(f)
  BY AtPlace
<1>2. CASE f.obj = f.api
  BY <1>2, NotFiringPlaced DEF Told
<1>3. CASE f.obj # f.api
  <2> DEFINE g == [f EXCEPT !.at = "proxies", !.obj = None, !.copy = {}, !.pages = {},
                            !.page = None]
  <2>1. g \in Fires /\ g.at = "proxies" /\ g.obj = None /\ g.left = f.left
        /\ g.api = f.api /\ g.e = f.e
    BY <1>1 DEF Fires
  <2>2. Told(f) = g
    BY <1>3 DEF Told
  <2> HIDE DEF g
  <2>3. Placed(g)
    BY <1>1, <2>1 DEF Placed
  <2> QED
    BY <2>1, <2>2, <2>3
<1> QED
  BY <1>2, <1>3

LEMMA ReturnedPlaced ==
  ASSUME IInv, NEW t \in Threads, NEW f, f = fire[t], f.at \in {"call", "post"}
  PROVE  Returned(f) \in Fires /\ Placed(Returned(f))
<1>1. f \in Fires /\ Placed(f)
  BY AtPlace
<1> DEFINE g == Returned(f)
<1>2. g \in Fires /\ g.at = "calls" /\ g.obj = f.obj /\ g.left = f.left
      /\ g.api = f.api /\ g.e = f.e /\ g.copy = f.copy
  BY <1>1 DEF Fires, Returned
<1> HIDE DEF g
<1>3. Placed(g)
  BY <1>1, <1>2 DEF Placed
<1> QED
  BY <1>2, <1>3 DEF g

\* The handlers of a page that are called were attached.
LEMMA CalledHeld ==
  ASSUME IInv, NEW t \in Threads, NEW f, f = fire[t], f.at \in {"call", "post"}
  PROVE  /\ Called(f) \subseteq event[f.e].held
         /\ [e |-> f.e, to |-> Called(f)] \in Calls
         /\ f.page \in Pages
<1>1. /\ f \in Fires /\ Placed(f) /\ f.e \in 1..fired /\ f.e \in Events
      /\ event[f.e] \in History
  BY AtPlace
<1>2. Called(f) \subseteq event[f.e].held
  BY <1>1 DEF Called, Placed
<1>3. Called(f) \subseteq Registrations
  BY <1>1, <1>2 DEF History
<1> QED
  BY <1>1, <1>2, <1>3 DEF Calls, Placed

LEMMA NextPageKeeps ==
  ASSUME IInv, NEW t \in Threads, NEW q \in Pages, NextPage(t, q)
  PROVE  IInv'
<1> DEFINE f == fire[t]
           g == [f EXCEPT !.pages = @ \ {q}]
           h == [f EXCEPT !.at = "call", !.page = q, !.pages = @ \ {q}]
<1>1. f.at = "calls" /\ (Goes(t, g) \/ Goes(t, h)) /\ Still /\ UNCHANGED <<registry, overflow>>
  BY DEF NextPage, At
<1>2. f \in Fires /\ Placed(f)
  BY <1>1, AtPlace
<1>3. overflow' \in BOOLEAN
  BY <1>1, ConsequencesOfIInv DEF TypeOK
<1> HIDE DEF f
<1>4. /\ g \in Fires /\ g.at = f.at /\ g.obj = f.obj /\ g.left = f.left
      /\ g.api = f.api /\ g.e = f.e /\ g.copy = f.copy
  BY <1>2 DEF Fires
<1>5. /\ h \in Fires /\ h.at = "call" /\ h.obj = f.obj /\ h.left = f.left
      /\ h.api = f.api /\ h.e = f.e /\ h.copy = f.copy /\ h.page = q
  BY <1>2 DEF Fires
<1> HIDE DEF g, h
<1>6. Placed(g)
  BY <1>1, <1>2, <1>4 DEF Placed
<1>7. Placed(h)
  BY <1>1, <1>2, <1>5 DEF Placed
<1> QED
  BY <1>1, <1>3, <1>4, <1>5, <1>6, <1>7, MoveKeeps

\* Steps that may change calls, history and what is heard, with the registry left.
LEMMA CallKeeps ==
  ASSUME IInv, NEW t \in Threads, NEW f \in Fires, Placed(f), Goes(t, f),
         UNCHANGED <<registry, fired, changes, overflow>>,
         event' \in [Events -> History],
         \A e \in Events : event'[e].held = event[e].held /\ event'[e].api = event[e].api,
         queue' \in [Pages -> Seq(Calls)], timers' \in [Pages -> Seq(Calls)],
         CallsHeld(queue'), CallsHeld(timers'),
         heard' \in [Events -> SUBSET Registrations],
         \A e \in Events : heard'[e] \subseteq event[e].held /\ (e > fired => heard'[e] = {})
  PROVE  IInv'
<1>1. TypeOK /\ ProxiesFollow /\ ListedExist
  BY DEF IInv
<1>2. ProxiesFollow' /\ ListedExist'
  BY <1>1 DEF registry, ProxiesFollow, ListedExist, Live, Follows
<1> QED
  BY <1>1, <1>2, FireStepKeeps DEF TypeOK, registry

LEMMA CallFailsKeeps ==
  ASSUME IInv, NEW t \in Threads, CallFails(t)
  PROVE  IInv'
<1>1. /\ fire[t].at = "call" /\ (Goes(t, Told(fire[t])) \/ Goes(t, NotFiring))
      /\ event' = [event EXCEPT ![fire[t].e].aborted = TRUE]
      /\ UNCHANGED <<registry, queue, timers, fired, heard, changes, overflow>>
  BY DEF CallFails, At
<1>2. /\ Told(fire[t]) \in Fires /\ Placed(Told(fire[t]))
      /\ NotFiring \in Fires /\ Placed(NotFiring)
  BY <1>1, ToldPlaced, NotFiringPlaced
<1>3. /\ TypeOK /\ CallsHeld(queue) /\ CallsHeld(timers) /\ HeardWasAttached
      /\ \A d \in Events : d > fired => heard[d] = {}
  BY DEF IInv
<1>4. /\ event' \in [Events -> History]
      /\ \A e \in Events : event'[e].held = event[e].held /\ event'[e].api = event[e].api
  <2> DEFINE e == fire[t].e
             new == [event[e] EXCEPT !.aborted = TRUE]
  <2>1. e \in Events /\ event[e] \in History /\ event \in [Events -> History]
    BY <1>1, <1>3, AtPlace DEF TypeOK
  <2>2. event' = [event EXCEPT ![e] = new]
    BY <1>1
  <2> HIDE DEF e
  <2>3. new \in History /\ new.held = event[e].held /\ new.api = event[e].api
    BY <2>1 DEF History
  <2> HIDE DEF new
  <2> QED
    BY <2>1, <2>2, <2>3
<1> QED
  BY <1>1, <1>2, <1>3, <1>4, CallKeeps DEF TypeOK, HeardWasAttached

LEMMA PassTestKeeps ==
  ASSUME IInv, NEW t \in Threads, PassTest(t)
  PROVE  IInv'
<1> DEFINE f == fire[t]
           g == [f EXCEPT !.at = "post"]
<1>1. f.at = "call" /\ Goes(t, g) /\ Still /\ UNCHANGED <<registry, overflow>>
  BY DEF PassTest, At
<1>2. f \in Fires /\ Placed(f)
  BY <1>1, AtPlace
<1>3. overflow' \in BOOLEAN
  BY <1>1, ConsequencesOfIInv DEF TypeOK
<1> HIDE DEF f
<1>4. /\ g \in Fires /\ g.at = "post" /\ g.obj = f.obj /\ g.left = f.left
      /\ g.api = f.api /\ g.e = f.e /\ g.copy = f.copy /\ g.page = f.page
  BY <1>2 DEF Fires
<1> HIDE DEF g
<1>5. Placed(g)
  BY <1>1, <1>2, <1>4 DEF Placed
<1> QED
  BY <1>1, <1>3, <1>4, <1>5, MoveKeeps

LEMMA TurnedAwayKeeps ==
  ASSUME IInv, NEW t \in Threads, TurnedAway(t)
  PROVE  IInv'
<1>1. /\ fire[t].at = "call" /\ Goes(t, Returned(fire[t])) /\ Still
      /\ UNCHANGED <<registry, overflow>>
  BY DEF TurnedAway, At
<1>2. Returned(fire[t]) \in Fires /\ Placed(Returned(fire[t]))
  BY <1>1, ReturnedPlaced
<1>3. overflow' \in BOOLEAN
  BY <1>1, ConsequencesOfIInv DEF TypeOK
<1> QED
  BY <1>1, <1>2, <1>3, MoveKeeps

LEMMA ScheduleKeeps ==
  ASSUME IInv, NEW t \in Threads, Schedule(t)
  PROVE  IInv'
<1> DEFINE f == fire[t]
           c == [e |-> f.e, to |-> Called(f)]
<1>1. /\ f.at = "post" /\ Goes(t, Returned(f))
      /\ queue' = [queue EXCEPT ![f.page] = IF page[f.page] = "open" THEN Append(@, c) ELSE @]
      /\ UNCHANGED <<registry, timers, event, fired, heard, changes, overflow>>
  BY DEF Schedule, At
<1>2. Returned(f) \in Fires /\ Placed(Returned(f))
  BY <1>1, ReturnedPlaced
<1>3. /\ TypeOK /\ CallsHeld(queue) /\ CallsHeld(timers) /\ HeardWasAttached
      /\ \A d \in Events : d > fired => heard[d] = {}
  BY DEF IInv
<1>4. c \in Calls /\ c.e \in 1..fired /\ c.to \subseteq event[c.e].held /\ f.page \in Pages
  BY <1>1, CalledHeld, AtPlace
<1> HIDE DEF c
<1>5. queue' \in [Pages -> Seq(Calls)] /\ CallsHeld(queue')
  <2>1. queue \in [Pages -> Seq(Calls)]
    BY <1>3 DEF TypeOK
  <2>2. CASE page[f.page] = "open"
    <3>1. queue' = [queue EXCEPT ![f.page] = Append(@, c)]
      BY <1>1, <2>2
    <3> QED
      BY <1>3, <1>4, <2>1, <3>1, AppendedCall
  <2>3. CASE page[f.page] # "open"
    <3>1. queue' = queue
      BY <1>1, <2>1, <2>3
    <3> QED
      BY <1>3, <2>1, <3>1
  <2> QED
    BY <2>2, <2>3
<1> QED
  BY <1>1, <1>2, <1>3, <1>5, CallKeeps DEF TypeOK, HeardWasAttached

LEMMA CallNowKeeps ==
  ASSUME IInv, CallNow
  PROVE  IInv'
<1> USE EventsAssumption
<1> DEFINE f == fire[Main]
<1>1. /\ f.at = "call"
      /\ UNCHANGED <<registry, queue, fired, changes, overflow>>
  BY DEF CallNow, At
<1>2. PICK thrown \in BOOLEAN : \E some \in Reached(Called(f), thrown) :
          /\ Run(f.e, f.page, some)
          /\ Goes(Main, IF thrown THEN Told(f) ELSE Returned(f))
          /\ event' = [event EXCEPT ![f.e].aborted = @ \/ thrown]
  BY DEF CallNow
<1>3. PICK some \in Reached(Called(f), thrown) :
          /\ Run(f.e, f.page, some)
          /\ Goes(Main, IF thrown THEN Told(f) ELSE Returned(f))
          /\ event' = [event EXCEPT ![f.e].aborted = @ \/ thrown]
  BY <1>2
<1>4. /\ Called(f) \subseteq event[f.e].held /\ f.page \in Pages
      /\ f.e \in 1..fired /\ f.e \in Events /\ event[f.e] \in History
  BY <1>1, CalledHeld, AtPlace
<1>5. some \subseteq event[f.e].held
  BY <1>4, ReachedPart
<1>6. /\ timers' \in [Pages -> Seq(Calls)] /\ CallsHeld(timers')
      /\ heard' \in [Events -> SUBSET Registrations]
      /\ \A d \in Events : heard'[d] \subseteq event[d].held /\ (d > fired => heard'[d] = {})
  BY <1>3, <1>4, <1>5, RunKeeps
<1>7. TypeOK /\ CallsHeld(queue)
  BY DEF IInv
<1>8. /\ event' \in [Events -> History]
      /\ \A e \in Events : event'[e].held = event[e].held /\ event'[e].api = event[e].api
  BY <1>3, <1>4, <1>7 DEF TypeOK, History
<1>9. /\ Told(f) \in Fires /\ Placed(Told(f))
      /\ Returned(f) \in Fires /\ Placed(Returned(f))
  BY <1>1, ToldPlaced, ReturnedPlaced
<1> DEFINE g == IF thrown THEN Told(f) ELSE Returned(f)
<1>10. g \in Fires /\ Placed(g) /\ Goes(Main, g)
  BY <1>3, <1>9
<1> HIDE DEF g
<1> QED
  BY <1>1, <1>6, <1>7, <1>8, <1>10, CallKeeps DEF TypeOK

LEMMA ProxyToldKeeps ==
  ASSUME IInv, NEW t \in Threads, ProxyTold(t)
  PROVE  IInv'
<1>1. fire[t].at = "calls" /\ Goes(t, Told(fire[t])) /\ Still /\ UNCHANGED <<registry, overflow>>
  BY DEF ProxyTold, At
<1>2. Told(fire[t]) \in Fires /\ Placed(Told(fire[t]))
  BY <1>1, ToldPlaced
<1>3. overflow' \in BOOLEAN
  BY <1>1, ConsequencesOfIInv DEF TypeOK
<1> QED
  BY <1>1, <1>2, <1>3, MoveKeeps

LEMMA FireAttributeKeeps ==
  ASSUME IInv, NEW t \in Threads, FireAttribute(t)
  PROVE  IInv'
<1> USE EventsAssumption
<1> DEFINE f == fire[t]
           h == attribute[f.api]
           r == Attribute(f.api, h)
           c == [e |-> f.e, to |-> {r}]
<1>1. /\ f.at = "calls" /\ Goes(t, Told(f))
      /\ queue' = IF h # None /\ page[PageOf[h]] = "open"
                    THEN [queue EXCEPT ![PageOf[h]] = Append(@, c)] ELSE queue
      /\ UNCHANGED <<registry, timers, event, fired, heard, changes, overflow>>
  BY DEF FireAttribute, At
<1>2. Told(f) \in Fires /\ Placed(Told(f))
  BY <1>1, ToldPlaced
<1>3. /\ TypeOK /\ CallsHeld(queue) /\ CallsHeld(timers) /\ HeardWasAttached
      /\ \A d \in Events : d > fired => heard[d] = {}
  BY DEF IInv
<1>4. queue' \in [Pages -> Seq(Calls)] /\ CallsHeld(queue')
  <2>1. queue \in [Pages -> Seq(Calls)]
    BY <1>3 DEF TypeOK
  <2>2. CASE h # None /\ page[PageOf[h]] = "open"
    <3>1. /\ f.api \in Apis /\ f.e \in 1..fired /\ f.e \in Events
          /\ Audience(f.api) \subseteq event[f.e].held
      BY <1>1, AtPlace
    <3>2. h \in Handlers /\ PageOf[h] \in Pages
      BY <1>3, <2>2, <3>1 DEF TypeOK
    <3>3. r \in Registrations /\ r.at = f.api /\ r.how = "attribute" /\ r.handler = h
      BY <3>1, <3>2 DEF Attribute, Registrations, Objects
    <3>4. r \in Audience(f.api)
      BY <3>3 DEF Audience
    <3> HIDE DEF h, r
    <3>5. c \in Calls /\ c.e \in 1..fired /\ c.to \subseteq event[c.e].held
      BY <3>1, <3>3, <3>4 DEF Calls
    <3>6. queue' = [queue EXCEPT ![PageOf[h]] = Append(@, c)]
      BY <1>1, <2>2
    <3> HIDE DEF c
    <3> QED
      BY <1>3, <2>1, <3>2, <3>5, <3>6, AppendedCall
  <2>3. CASE ~(h # None /\ page[PageOf[h]] = "open")
    BY <1>1, <1>3, <2>1, <2>3
  <2> QED
    BY <2>2, <2>3
<1> QED
  BY <1>1, <1>2, <1>3, <1>4, CallKeeps DEF TypeOK, HeardWasAttached

-----------------------------------------------------------------------------
(* The theorems about who hears and who follows.                           *)

LEMMA InitKeeps == Init => IInv
<1> SUFFICES ASSUME Init PROVE IInv
  OBVIOUS
<1> USE EventsAssumption DEF Init
<1>1. NotFiring \in Fires /\ Placed(NotFiring)
  BY NotFiringPlaced
<1>2. TypeOK
  <2>1. fired \in 0..MaxEvents /\ changes \in 0..MaxChanges
    OBVIOUS
  <2>7. overflow \in BOOLEAN
    OBVIOUS
  <2>2. event \in [Events -> History]
    BY DEF History
  <2>3. queue \in [Pages -> Seq(Calls)] /\ timers \in [Pages -> Seq(Calls)]
    OBVIOUS
  <2>4. /\ listeners \in [Objects -> SUBSET Handlers]
        /\ attribute \in [Apis -> Handlers \cup {None}]
        /\ listed \in [Objects -> SUBSET Proxies]
        /\ valid \in [Apis -> BOOLEAN]
        /\ page \in [Pages -> {"open", "draining", "shut", "gone"}]
        /\ heard \in [Events -> SUBSET Registrations]
    OBVIOUS
  <2>5. proxy \in [Proxies -> [state : {"none", "live", "dead"}, inner : Apis \cup {None},
                               follows : BOOLEAN]]
    OBVIOUS
  <2>6. fire \in [Threads -> Fires]
    BY <1>1
  <2> QED
    BY <2>1, <2>2, <2>3, <2>4, <2>5, <2>6, <2>7 DEF TypeOK
<1>3. ProxiesFollow /\ ListedExist
  BY DEF ProxiesFollow, ListedExist, Live, Objects
<1>4. CallsHeld(queue) /\ CallsHeld(timers)
  BY DEF CallsHeld
<1>5. HeardWasAttached
  BY DEF HeardWasAttached
<1> QED
  BY <1>1, <1>2, <1>3, <1>4, <1>5 DEF IInv

LEMMA NextKeeps == IInv /\ [Next]_vars => IInv'
<1> SUFFICES ASSUME IInv, [Next]_vars PROVE IInv'
  OBVIOUS
<1>1. CASE Registering
  BY <1>1, RegisteringKeeps
<1>2. CASE Proxying
  BY <1>2, CreateKeeps, ChangeObjectKeeps, ResetKeeps, ReleaseKeeps DEF Proxying
<1>3. CASE Closing
  BY <1>3, ClosingKeeps
<1>4. ASSUME NEW q \in Pages, Deliver(q) \/ Timer(q) PROVE IInv'
  BY <1>4, DeliverKeeps, TimerKeeps
<1>5. ASSUME NEW t \in Threads, NEW a \in Apis, Begin(t, a) PROVE IInv'
  BY <1>5, BeginKeeps
<1>6. ASSUME NEW t \in Threads, FireStep(t) PROVE IInv'
  BY <1>6, LockProxiesKeeps, OwnHandlersKeeps, CallFailsKeeps, PassTestKeeps, TurnedAwayKeeps,
     ScheduleKeeps, ProxyToldKeeps,
     FireAttributeKeeps, CallNowKeeps, ErasesProxyKeeps, TellsProxyKeeps, NextPageKeeps
     DEF FireStep
<1>7. CASE UNCHANGED vars
  BY <1>7 DEF vars, registry, IInv, TypeOK, ProxiesFollow, ListedExist, Placed, Audience, Live,
              Follows, CallsHeld, HeardWasAttached
<1> QED
  BY <1>1, <1>2, <1>3, <1>4, <1>5, <1>6, <1>7 DEF Next

\* The invariant of ScriptEvents (FireEvent of JSAPIImpl and what is changed
\* while it runs).
THEOREM InvariantHolds == Spec => []IInv
BY InitKeeps, NextKeeps, PTL DEF Spec

\* An event of an object is heard by no handler that was attached at no time
\* while FireEvent was at it, whatever pages register and remove, and however
\* proxies are created, moved and reset (JSAPIImpl::FireEvent).
THEOREM OnlyTheAttachedHear == Spec => []HeardWasAttached
<1>1. IInv => HeardWasAttached
  BY DEF IInv
<1> QED
  BY <1>1, InvariantHolds, PTL

\* The list that FireEvent walks has the living proxies that follow the object
\* (registerProxy, unregisterProxy, changeObject, reset).
THEOREM ListIsWhoFollows == Spec => []ProxiesFollow
<1>1. IInv => ProxiesFollow
  BY DEF IInv
<1> QED
  BY <1>1, InvariantHolds, PTL

-----------------------------------------------------------------------------
(* Nobody is lost.                                                         *)

\* Who must hear an event can only become fewer, and stays attached.
LEMMA NotedMust ==
  ASSUME TypeOK, Noted, \A e \in Events : Firing(e) => event[e].api \in Apis,
         NEW e \in Events
  PROVE  /\ event'[e].must \subseteq event[e].must /\ event'[e].thread = event[e].thread
         /\ event'[e].cut = event[e].cut /\ event'[e].aborted = event[e].aborted
         /\ \A a \in Apis :
              Firing(e) /\ event[e].api = a => event'[e].must \subseteq Audience(a)'
<1> DEFINE now == [a \in Apis |-> Audience(a)']
           new == [event[e] EXCEPT !.must = @ \cap now[event[e].api],
                                   !.held = @ \cup now[event[e].api]]
<1>1. event[e] \in History
  BY DEF TypeOK
<1>2. event'[e] = IF Firing(e) THEN new ELSE event[e]
  BY DEF Noted
<1>3. \A a \in Apis : now[a] = Audience(a)'
  OBVIOUS
<1> HIDE DEF now
<1>4. /\ new.must = event[e].must \cap now[event[e].api] /\ new.thread = event[e].thread
      /\ new.cut = event[e].cut /\ new.aborted = event[e].aborted
  BY <1>1 DEF History
<1> HIDE DEF new
<1> QED
  BY <1>2, <1>3, <1>4

\* What the invariant says of a handler that must hear an event.
LEMMA MustBelongs ==
  ASSUME IInv, NEW e \in 1..fired, NEW r \in event[e].must
  PROVE  /\ e \in Events /\ r \in Registrations
         /\ r.handler \in Handlers /\ Home(r) \in Pages
<1>1. e \in Events /\ event[e] \in History
  BY ConsequencesOfIInv DEF TypeOK
<1>2. r \in Registrations
  BY <1>1 DEF History
<1> QED
  BY <1>1, <1>2, EventsAssumption DEF Registrations, Home

\* A change leaves nobody behind, but for those whose page it shuts.
LEMMA ChangeHears ==
  ASSUME HearingInv, Changed,
         \A q \in Pages : page'[q] = "open" =>
           page[q] = "open" /\ queue'[q] = queue[q] /\ timers'[q] = timers[q]
  PROVE  MustAreAttached' /\ NoneIsLost'
<1>1. IInv /\ TypeOK /\ MustAreAttached /\ NoneIsLost
  BY ConsequencesOfIInv DEF HearingInv
<1>2. fire' = fire /\ fired' = fired /\ heard' = heard /\ overflow' = overflow /\ Noted
  BY DEF Changed
<1>3. \A e \in Events : Firing(e) => event[e].api \in Apis
  BY <1>1, AtPlace DEF Placed, Firing
<1>4. MustAreAttached'
  <2> SUFFICES ASSUME NEW t \in Threads, fire[t].at # "idle"
               PROVE  event'[fire[t].e].must \subseteq Audience(fire[t].api)'
    BY <1>2 DEF MustAreAttached
  <2>1. /\ fire[t].e \in Events /\ fire[t].api \in Apis
        /\ event[fire[t].e].api = fire[t].api /\ Firing(fire[t].e)
    BY <1>1, AtPlace DEF Placed, Firing
  <2> QED
    BY <1>1, <1>2, <1>3, <2>1, NotedMust
<1>5. ASSUME ~overflow, NEW e \in 1..fired, NEW r \in event'[e].must
      PROVE  Accounted(e, r)'
  <2>1. e \in Events
    BY <1>1, ConsequencesOfIInv
  <2>2. r \in event[e].must /\ event'[e].cut = event[e].cut /\ event'[e].aborted = event[e].aborted
    BY <1>1, <1>2, <1>3, <1>5, <2>1, NotedMust
  <2>3. Accounted(e, r) /\ Home(r) \in Pages
    BY <1>1, <1>5, <2>2, MustBelongs DEF NoneIsLost
  <2>4. Excused(e, r) => Excused(e, r)'
    BY <2>2, <2>3 DEF Excused
  <2>5. StillComes(e, r) => StillComes(e, r)'
    BY <1>2 DEF StillComes, Ahead
  <2>6. CASE page'[Home(r)] = "open"
    <3>1. (Waits(queue, e, r) => Waits(queue, e, r)') /\ (Waits(timers, e, r) => Waits(timers, e, r)')
      BY <2>3, <2>6 DEF Waits
    <3> QED
      BY <1>2, <2>3, <2>4, <2>5, <3>1 DEF Accounted
  <2>7. CASE page'[Home(r)] # "open"
    BY <2>7 DEF Accounted, Excused
  <2> QED
    BY <2>6, <2>7
<1> QED
  BY <1>2, <1>4, <1>5 DEF NoneIsLost

\* What is behind the first call moves up.
LEMMA TailAt ==
  ASSUME NEW s \in Seq(Calls), s # <<>>
  PROVE  /\ Tail(s) \in Seq(Calls)
         /\ \A i \in 1..Len(s) : i # 1 => i - 1 \in 1..Len(Tail(s)) /\ Tail(s)[i - 1] = s[i]
         /\ \A i \in 1..Len(Tail(s)) : i + 1 \in 1..Len(s) /\ Tail(s)[i] = s[i + 1]
<1>1. Len(s) \in Nat /\ Len(s) >= 1 /\ Len(Tail(s)) = Len(s) - 1
  OBVIOUS
<1>2. Tail(s) \in Seq(Calls) /\ \A i \in 1..Len(Tail(s)) : Tail(s)[i] = s[i + 1]
  OBVIOUS
<1>3. ASSUME NEW i \in 1..Len(s), i # 1
      PROVE  i - 1 \in 1..Len(Tail(s)) /\ Tail(s)[i - 1] = s[i]
  <2>1. i - 1 \in 1..Len(Tail(s)) /\ (i - 1) + 1 = i
    BY <1>1, <1>3
  <2> QED
    BY <1>2, <2>1
<1> QED
  BY <1>1, <1>2, <1>3

\* The calls with one more for a page.
AppendedTo(calls, q, c) == [calls EXCEPT ![q] = Append(@, c)]

\* What is appended to a page's calls waits, and so does what waited before.
LEMMA AppendedWaits ==
  ASSUME NEW calls \in [Pages -> Seq(Calls)], NEW q \in Pages, NEW c \in Calls,
         NEW new, new = AppendedTo(calls, q, c)
  PROVE  /\ \A e \in Events, r \in Registrations :
              Home(r) \in Pages /\ Waits(calls, e, r) => Waits(new, e, r)
         /\ \A r \in c.to : Home(r) = q => Waits(new, c.e, r)
<1>1. \A p \in Pages : new[p] = IF p = q THEN Append(calls[p], c) ELSE calls[p]
  BY DEF AppendedTo
<1>2. ASSUME NEW p \in Pages, NEW i \in 1..Len(calls[p])
      PROVE  i \in 1..Len(new[p]) /\ new[p][i] = calls[p][i]
  <2>1. CASE p = q
    <3>1. new[p] = Append(calls[p], c) /\ calls[p] \in Seq(Calls)
      BY <1>1, <2>1
    <3> QED
      BY <3>1
  <2>2. CASE p # q
    BY <1>1, <2>2
  <2> QED
    BY <2>1, <2>2
<1>3. Len(calls[q]) + 1 \in 1..Len(new[q]) /\ new[q][Len(calls[q]) + 1] = c
  <2>1. new[q] = Append(calls[q], c) /\ calls[q] \in Seq(Calls)
    BY <1>1
  <2> QED
    BY <2>1
<1>4. ASSUME NEW e \in Events, NEW r \in Registrations, Home(r) \in Pages, Waits(calls, e, r)
      PROVE  Waits(new, e, r)
  <2>1. PICK i \in 1..Len(calls[Home(r)]) :
          calls[Home(r)][i].e = e /\ r \in calls[Home(r)][i].to
    BY <1>4 DEF Waits
  <2> QED
    BY <1>2, <1>4, <2>1 DEF Waits
<1>5. ASSUME NEW r \in c.to, Home(r) = q
      PROVE  Waits(new, c.e, r)
  BY <1>3, <1>5 DEF Waits
<1> QED
  BY <1>4, <1>5

\* Who is called on the main thread hears the event, or waits for a timer.
LEMMA RunHears ==
  ASSUME IInv, NEW e \in 1..fired, NEW q \in Pages, NEW some \in SUBSET Registrations,
         Run(e, q, some)
  PROVE  /\ \A d \in Events : heard[d] \subseteq heard'[d]
         /\ \A d \in Events, r \in Registrations :
              Home(r) \in Pages /\ Waits(timers, d, r) => Waits(timers', d, r)
         /\ \A r \in some : Home(r) = q => r \in heard'[e] \/ Waits(timers', e, r)
<1> DEFINE later == {r \in some : ~AtOnce(r)}
           now == {r \in some : AtOnce(r)}
<1>1. /\ TypeOK /\ e \in Events /\ timers \in [Pages -> Seq(Calls)]
      /\ heard \in [Events -> SUBSET Registrations]
  BY ConsequencesOfIInv DEF TypeOK
<1>2. heard' = [heard EXCEPT ![e] = @ \cup now]
  BY DEF Run
<1>3. \A d \in Events : heard[d] \subseteq heard'[d]
  BY <1>1, <1>2
<1>4. \A r \in some : r \notin later => r \in heard'[e]
  BY <1>1, <1>2
<1>5. CASE later = {}
  <2>1. timers' = timers
    BY <1>1, <1>5 DEF Run
  <2> QED
    BY <1>3, <1>4, <1>5, <2>1
<1>6. CASE later # {}
  <2>1. timers' = [timers EXCEPT ![q] = Append(@, [e |-> e, to |-> later])]
    BY <1>6 DEF Run
  <2>2. later \subseteq Registrations
    OBVIOUS
  <2> HIDE DEF later
  <2>3. [e |-> e, to |-> later] \in Calls
    BY <1>1, <2>2 DEF Calls
  <2> DEFINE c == [e |-> e, to |-> later]
  <2>4. c.e = e /\ c.to = later /\ c \in Calls
    BY <2>3
  <2>5. timers' = AppendedTo(timers, q, c)
    BY <2>1 DEF AppendedTo
  <2> HIDE DEF c
  <2>6. /\ \A d \in Events, r \in Registrations :
             Home(r) \in Pages /\ Waits(timers, d, r) => Waits(timers', d, r)
        /\ \A r \in c.to : Home(r) = q => Waits(timers', c.e, r)
    BY <1>1, <2>4, <2>5, AppendedWaits
  <2>7. \A r \in later : Home(r) = q => Waits(timers', e, r)
    BY <2>4, <2>6
  <2> QED
    BY <1>3, <1>4, <2>6, <2>7
<1> QED
  BY <1>5, <1>6

\* A step of FireEvent loses nobody, if those ahead of it stay ahead of it, have
\* heard the event, wait in a call, or are excused because it ends early.
LEMMA StepHears ==
  ASSUME HearingInv, ~overflow, NEW t \in Threads, NEW f, f = fire[t], f.at # "idle",
         NEW g, Goes(t, g), g.at # "idle" => g.api = f.api /\ g.e = f.e,
         UNCHANGED <<listeners, attribute, proxy, page, fired>>,
         \A e \in Events :
           /\ event'[e].must = event[e].must /\ event'[e].cut = event[e].cut
           /\ event[e].aborted => event'[e].aborted
           /\ heard[e] \subseteq heard'[e],
         \A e \in Events, r \in Registrations : Home(r) \in Pages =>
           /\ Waits(queue, e, r) => Waits(queue', e, r)
           /\ Waits(timers, e, r) => Waits(timers', e, r),
         \A r \in event[f.e].must :
           r \in Audience(f.api) /\ page[Home(r)] = "open" /\ Ahead(f, r) =>
             \/ g.at # "idle" /\ Ahead(g, r)
             \/ r \in heard'[f.e] \/ event'[f.e].aborted
             \/ Waits(queue', f.e, r) \/ Waits(timers', f.e, r)
  PROVE  MustAreAttached' /\ NoneIsLost'
<1>1. /\ IInv /\ MustAreAttached /\ NoneIsLost
      /\ f.e \in 1..fired /\ f.e \in Events
      /\ event[f.e].must \subseteq Audience(f.api)
  BY AtPlace DEF HearingInv, MustAreAttached
<1>2. /\ fire' = [fire EXCEPT ![t] = g] /\ fire'[t] = g
      /\ \A u \in Threads : u # t => fire'[u] = fire[u]
  BY <1>1 DEF Goes, IInv, TypeOK
<1>3. MustAreAttached'
  <2> SUFFICES ASSUME NEW u \in Threads, (fire[u].at # "idle")'
               PROVE  (event[fire[u].e].must \subseteq Audience(fire[u].api))'
    BY DEF MustAreAttached
  <2>1. fire[u].at # "idle" /\ fire'[u].api = fire[u].api /\ fire'[u].e = fire[u].e
    BY <1>2
  <2>2. fire[u].e \in Events /\ event[fire[u].e].must \subseteq Audience(fire[u].api)
    BY <1>1, <2>1, AtPlace DEF MustAreAttached
  <2>3. Audience(fire[u].api)' = Audience(fire[u].api)
    BY <2>1 DEF Audience, Follows, Live
  <2> QED
    BY <2>1, <2>2, <2>3
<1>4. ASSUME NEW e \in 1..fired, NEW r \in event'[e].must
      PROVE  Accounted(e, r)'
  <2>1. e \in Events /\ r \in event[e].must /\ r \in Registrations /\ Home(r) \in Pages
    BY <1>1, <1>4, ConsequencesOfIInv, MustBelongs
  <2>2. Accounted(e, r)
    BY <1>1, <2>1 DEF NoneIsLost
  <2>3. Excused(e, r) => Excused(e, r)'
    BY <2>1 DEF Excused
  <2>4. (Waits(queue, e, r) => Waits(queue, e, r)') /\ (Waits(timers, e, r) => Waits(timers, e, r)')
    BY <2>1 DEF Waits
  <2>5. r \in heard[e] => r \in heard'[e]
    BY <2>1
  <2>6. ASSUME StillComes(e, r) PROVE Accounted(e, r)'
    <3>1. PICK u \in Threads : fire[u].at # "idle" /\ fire[u].e = e /\ Ahead(fire[u], r)
      BY <2>6 DEF StillComes
    <3>2. CASE u # t
      <4>1. Ahead(fire'[u], r)
        BY <1>2, <3>1, <3>2
      <4>2. StillComes(e, r)'
        BY <1>2, <3>1, <3>2, <4>1 DEF StillComes, Ahead
      <4> QED
        BY <4>2 DEF Accounted
    <3>3. CASE u = t /\ page[Home(r)] = "open"
      <4>1. e = f.e /\ Ahead(f, r) /\ r \in Audience(f.api)
        BY <1>1, <2>1, <3>1, <3>3
      <4>2. \/ g.at # "idle" /\ Ahead(g, r)
            \/ r \in heard'[e] \/ event'[e].aborted
            \/ Waits(queue', e, r) \/ Waits(timers', e, r)
        BY <2>1, <3>3, <4>1
      <4>3. g.at # "idle" /\ Ahead(g, r) => StillComes(e, r)'
        BY <1>2, <4>1 DEF StillComes, Ahead
      <4>4. (Waits(queue', e, r) => Waits(queue, e, r)') /\ (Waits(timers', e, r) => Waits(timers, e, r)')
        BY DEF Waits
      <4>5. event'[e].aborted => Excused(e, r)'
        BY DEF Excused
      <4> QED
        BY <4>2, <4>3, <4>4, <4>5 DEF Accounted
    <3>4. CASE page[Home(r)] # "open"
      BY <3>4 DEF Accounted, Excused
    <3> QED
      BY <3>2, <3>3, <3>4
  <2> QED
    BY <2>2, <2>3, <2>4, <2>5, <2>6 DEF Accounted
<1> QED
  BY <1>3, <1>4 DEF NoneIsLost

\* A step that only moves FireEvent on.
LEMMA MoveHears ==
  ASSUME HearingInv, ~overflow, NEW t \in Threads, NEW f, f = fire[t], f.at # "idle",
         NEW g, Goes(t, g), g.at # "idle", g.api = f.api, g.e = f.e,
         Still, UNCHANGED <<listeners, attribute, proxy, page>>,
         \A r \in Audience(f.api) : page[Home(r)] = "open" /\ Ahead(f, r) => Ahead(g, r)
  PROVE  MustAreAttached' /\ NoneIsLost'
BY StepHears DEF Still

\* Who is in the audience of an object, and where.
LEMMA InAudience ==
  ASSUME IInv, NEW a \in Apis, NEW r \in Audience(a)
  PROVE  /\ r \in Registrations /\ r.handler \in Handlers /\ Home(r) \in Pages
         /\ Home(r) = PageOf[r.handler]
         /\ \/ /\ r.how = "listener" /\ r.handler \in listeners[r.at]
               /\ r.at # a => /\ r.at \in Proxies /\ r.at \in listed[a] /\ Live(r.at)
            \/ r.how = "attribute" /\ r.at = a /\ r.handler = attribute[a]
<1>1. r \in Registrations /\ r.handler \in Handlers /\ Home(r) \in Pages /\ Home(r) = PageOf[r.handler]
  BY EventsAssumption DEF Audience, Registrations, Home
<1>2. r.at \in Proxies /\ Follows(r.at, a) => r.at \in listed[a] /\ Live(r.at)
  BY DEF IInv, ProxiesFollow, Follows
<1> QED
  BY <1>1, <1>2 DEF Audience

LEMMA LockProxiesHears ==
  ASSUME HearingInv, NEW t \in Threads, LockProxies(t)
  PROVE  MustAreAttached' /\ NoneIsLost'
<1> DEFINE f == fire[t]
           g == [f EXCEPT !.at = "proxies", !.left = listed[f.api]]
<1>1. /\ f.at = "begun" /\ Goes(t, g) /\ Still /\ ~overflow
      /\ UNCHANGED <<listeners, attribute, proxy, page>>
  BY DEF LockProxies, At, registry
<1>2. IInv /\ Placed(f) /\ f \in Fires /\ f.api \in Apis
  BY <1>1, AtPlace DEF HearingInv
<1>3. /\ g.at = "proxies" /\ g.left = listed[f.api] /\ g.api = f.api /\ g.e = f.e
      /\ g.obj = None /\ f.api # None
  BY <1>1, <1>2, EventsAssumption DEF Fires, Placed
<1> HIDE DEF g
<1>4. ASSUME NEW r \in Audience(f.api) PROVE Ahead(g, r)
  BY <1>2, <1>3, <1>4, InAudience DEF Ahead
<1> QED
  BY <1>1, <1>3, <1>4, MoveHears

LEMMA ErasesProxyHears ==
  ASSUME HearingInv, NEW t \in Threads, NEW p \in Proxies, ErasesProxy(t, p)
  PROVE  MustAreAttached' /\ NoneIsLost'
<1> USE EventsAssumption
<1> DEFINE f == fire[t]
           g == [f EXCEPT !.left = @ \ {p}]
<1>1. /\ f.at = "proxies" /\ Goes(t, g) /\ Still /\ ~overflow /\ ~Live(p)
      /\ UNCHANGED <<listeners, attribute, proxy, page>>
  BY DEF ErasesProxy, At
<1>2. IInv /\ Placed(f) /\ f \in Fires /\ f.api \in Apis
  BY <1>1, AtPlace DEF HearingInv
<1>3. /\ g.at = f.at /\ g.left = f.left \ {p} /\ g.api = f.api /\ g.e = f.e
      /\ g.obj = f.obj /\ g.copy = f.copy /\ g.pages = f.pages /\ g.page = f.page
  BY <1>2 DEF Fires
<1> HIDE DEF g
<1>4. ASSUME NEW r \in Audience(f.api), Ahead(f, r) PROVE Ahead(g, r)
  <2>1. r.at # p
    BY <1>1, <1>2, <1>4, InAudience
  <2> QED
    BY <1>3, <1>4, <2>1 DEF Ahead
<1> QED
  BY <1>1, <1>3, <1>4, MoveHears

\* Of the handlers that are copied, all are still ahead.
LEMMA CopiedAhead ==
  ASSUME IInv, NEW t \in Threads, NEW f, f = fire[t], f.at = "proxies",
         NEW o \in Objects, o = f.api => f.left = {},
         NEW g, g = Copied(f, o), NEW r \in Audience(f.api), Ahead(f, r)
  PROVE  g.at = "calls" /\ g.api = f.api /\ g.e = f.e /\ Ahead(g, r)
<1>1. /\ g.at = "calls" /\ g.api = f.api /\ g.e = f.e /\ g.obj = o /\ g.left = f.left \ {o}
      /\ g.copy = listeners[o] /\ g.pages = {PageOf[h] : h \in listeners[o]}
  BY DEF Copied
<1>2. f.api \in Apis /\ Placed(f) /\ f.obj = None
  BY AtPlace DEF Placed
<1>3. /\ Home(r) = PageOf[r.handler]
      /\ \/ r.how = "listener" /\ r.handler \in listeners[r.at]
         \/ r.how = "attribute" /\ r.at = f.api
  BY <1>2, InAudience
<1>4. r.at = o \/ r.at = f.api \/ r.at \in f.left \ {o}
  <2>1. r.at # None
    BY <1>2, EventsAssumption, InAudience
  <2> QED
    BY <1>2, <2>1 DEF Ahead
<1>5. CASE r.at = o /\ r.how = "listener"
  <2>1. r.handler \in g.copy /\ Home(r) \in g.pages
    BY <1>1, <1>3, <1>5
  <2> QED
    BY <1>1, <1>5, <2>1 DEF Ahead
<1>6. CASE r.how = "attribute"
  BY <1>1, <1>3, <1>6 DEF Ahead
<1>7. CASE r.at # o
  BY <1>1, <1>4, <1>7 DEF Ahead
<1> QED
  BY <1>3, <1>5, <1>6, <1>7

LEMMA TellsProxyHears ==
  ASSUME HearingInv, NEW t \in Threads, NEW p \in Proxies, TellsProxy(t, p)
  PROVE  MustAreAttached' /\ NoneIsLost'
<1> USE EventsAssumption
<1> DEFINE f == fire[t]
           g == Copied(f, p)
<1>1. /\ f.at = "proxies" /\ Goes(t, g) /\ Still /\ ~overflow
      /\ UNCHANGED <<listeners, attribute, proxy, page>>
  BY DEF TellsProxy, At, registry
<1>2. IInv /\ f.api \in Apis /\ p \in Objects /\ p # f.api
  BY <1>1, AtPlace DEF HearingInv, Objects
<1>3. g.at = "calls" /\ g.api = f.api /\ g.e = f.e
  BY DEF Copied
<1>4. ASSUME NEW r \in Audience(f.api), Ahead(f, r) PROVE Ahead(g, r)
  BY <1>1, <1>2, <1>4, CopiedAhead
<1> HIDE DEF f, g
<1> QED
  BY <1>1, <1>3, <1>4, MoveHears DEF f

LEMMA OwnHandlersHears ==
  ASSUME HearingInv, NEW t \in Threads, OwnHandlers(t)
  PROVE  MustAreAttached' /\ NoneIsLost'
<1> DEFINE f == fire[t]
           g == Copied(f, f.api)
<1>1. /\ f.at = "proxies" /\ f.left = {} /\ Goes(t, g) /\ Still /\ ~overflow
      /\ UNCHANGED <<listeners, attribute, proxy, page>>
  BY DEF OwnHandlers, At, registry
<1>2. IInv /\ f.api \in Apis /\ f.api \in Objects
  BY <1>1, AtPlace DEF HearingInv
<1>3. g.at = "calls" /\ g.api = f.api /\ g.e = f.e
  BY DEF Copied
<1>4. ASSUME NEW r \in Audience(f.api), Ahead(f, r) PROVE Ahead(g, r)
  BY <1>1, <1>2, <1>4, CopiedAhead
<1> HIDE DEF f, g
<1> QED
  BY <1>1, <1>3, <1>4, MoveHears DEF f

LEMMA NextPageHears ==
  ASSUME HearingInv, NEW t \in Threads, NEW q \in Pages, NextPage(t, q)
  PROVE  MustAreAttached' /\ NoneIsLost'
<1> DEFINE f == fire[t]
           g == [f EXCEPT !.pages = @ \ {q}]
           h == [f EXCEPT !.at = "call", !.page = q, !.pages = @ \ {q}]
           new == IF page[q] = "gone" THEN g ELSE h
<1>1. /\ f.at = "calls" /\ Goes(t, new) /\ Still /\ ~overflow
      /\ UNCHANGED <<listeners, attribute, proxy, page>>
  BY DEF NextPage, At, registry
<1>2. IInv /\ f \in Fires
  BY <1>1, AtPlace DEF HearingInv
<1> HIDE DEF f
<1>3. /\ g.at = f.at /\ g.left = f.left /\ g.api = f.api /\ g.e = f.e
      /\ g.obj = f.obj /\ g.copy = f.copy /\ g.pages = f.pages \ {q}
  BY <1>2 DEF Fires
<1>4. /\ h.at = "call" /\ h.left = f.left /\ h.api = f.api /\ h.e = f.e
      /\ h.obj = f.obj /\ h.copy = f.copy /\ h.pages = f.pages \ {q} /\ h.page = q
  BY <1>2 DEF Fires
<1> HIDE DEF g, h
<1>5. new.at # "idle" /\ new.api = f.api /\ new.e = f.e
  BY <1>1, <1>3, <1>4
<1>6. ASSUME NEW r \in Audience(f.api), page[Home(r)] = "open", Ahead(f, r)
      PROVE  Ahead(new, r)
  <2>1. CASE page[q] = "gone"
    <3>1. new = g /\ Home(r) # q
      BY <1>6, <2>1
    <3> QED
      BY <1>1, <1>3, <1>6, <3>1 DEF Ahead
  <2>2. CASE page[q] # "gone"
    <3>1. new = h
      BY <2>2
    <3> QED
      BY <1>1, <1>4, <1>6, <3>1 DEF Ahead
  <2> QED
    BY <2>1, <2>2
<1> HIDE DEF new
<1> QED
  BY <1>1, <1>5, <1>6, MoveHears DEF f

LEMMA ProxyToldHears ==
  ASSUME HearingInv, NEW t \in Threads, ProxyTold(t)
  PROVE  MustAreAttached' /\ NoneIsLost'
<1> USE EventsAssumption
<1> DEFINE f == fire[t]
           g == [f EXCEPT !.at = "proxies", !.obj = None, !.copy = {}, !.pages = {},
                          !.page = None]
<1>1. /\ f.at = "calls" /\ f.pages = {} /\ f.obj \in Proxies /\ Goes(t, Told(f)) /\ Still
      /\ ~overflow /\ UNCHANGED <<listeners, attribute, proxy, page>>
  BY DEF ProxyTold, At, registry
<1>2. IInv /\ f \in Fires /\ f.api \in Apis /\ f.obj # f.api
  BY <1>1, AtPlace DEF HearingInv
<1>3. Goes(t, g)
  BY <1>1, <1>2 DEF Told
<1> HIDE DEF f
<1>4. /\ g.at = "proxies" /\ g.left = f.left /\ g.api = f.api /\ g.e = f.e /\ g.obj = None
  BY <1>2 DEF Fires
<1> HIDE DEF g
<1>5. ASSUME NEW r \in Audience(f.api), Ahead(f, r) PROVE Ahead(g, r)
  BY <1>1, <1>2, <1>4, <1>5 DEF Ahead
<1> QED
  BY <1>1, <1>3, <1>4, <1>5, MoveHears DEF f

LEMMA CallFailsHears ==
  ASSUME HearingInv, NEW t \in Threads, CallFails(t)
  PROVE  MustAreAttached' /\ NoneIsLost'
<1> DEFINE f == fire[t]
<1>1. /\ f.at = "call" /\ ~overflow
      /\ event' = [event EXCEPT ![f.e].aborted = TRUE]
      /\ UNCHANGED <<listeners, attribute, proxy, page, queue, timers, fired, heard>>
  BY DEF CallFails, At, registry
<1>2. IInv /\ event \in [Events -> History] /\ f.e \in Events /\ event[f.e] \in History
  BY <1>1, AtPlace, ConsequencesOfIInv DEF HearingInv, TypeOK
<1>3. PICK g : Goes(t, g) /\ (g = Told(f) \/ g = NotFiring)
  BY DEF CallFails
<1>4. g.at # "idle" => g.api = f.api /\ g.e = f.e
  <2>1. f \in Fires
    BY <1>1, <1>2, AtPlace
  <2>2. NotFiring.at = "idle"
    BY DEF NotFiring
  <2> HIDE DEF f
  <2>3. CASE g = Told(f)
    <3>1. CASE f.obj = f.api
      BY <2>2, <2>3, <3>1 DEF Told
    <3>2. CASE f.obj # f.api
      BY <2>1, <2>3, <3>2 DEF Told, Fires
    <3> QED
      BY <3>1, <3>2
  <2> QED
    BY <1>3, <2>2, <2>3
<1>5. /\ event'[f.e].aborted
      /\ \A e \in Events : /\ event'[e].must = event[e].must /\ event'[e].cut = event[e].cut
                           /\ event[e].aborted => event'[e].aborted
  <2> DEFINE d == f.e
             new == [event[d] EXCEPT !.aborted = TRUE]
  <2>1. event' = [event EXCEPT ![d] = new] /\ d \in Events /\ event[d] \in History
    BY <1>1, <1>2
  <2> HIDE DEF d
  <2>2. new.must = event[d].must /\ new.cut = event[d].cut /\ new.aborted
    BY <2>1 DEF History
  <2> HIDE DEF new
  <2>3. \A e \in Events : event'[e] = IF e = d THEN new ELSE event[e]
    BY <1>2, <2>1
  <2>4. event'[d].aborted
    BY <2>1, <2>2, <2>3
  <2> QED
    BY <2>2, <2>3, <2>4 DEF d
<1> HIDE DEF f
<1> QED
  BY <1>1, <1>3, <1>4, <1>5, StepHears DEF f

\* The call of a page's handlers has all that are ahead of FireEvent there.
LEMMA CalledAhead ==
  ASSUME IInv, NEW t \in Threads, NEW f, f = fire[t], f.at \in {"call", "post"},
         NEW r \in Audience(f.api), Ahead(f, r)
  PROVE  \/ /\ Returned(f).at = "calls" /\ Returned(f).api = f.api /\ Returned(f).e = f.e
            /\ Ahead(Returned(f), r)
         \/ r \in Called(f) /\ Home(r) = f.page
<1> DEFINE g == Returned(f)
<1>1. f \in Fires /\ f.api \in Apis
  BY AtPlace
<1>2. /\ g.at = "calls" /\ g.obj = f.obj /\ g.left = f.left
      /\ g.api = f.api /\ g.e = f.e /\ g.copy = f.copy /\ g.pages = f.pages
  BY <1>1 DEF Fires, Returned
<1> HIDE DEF g
<1>3. CASE r.how = "listener" /\ r.at = f.obj /\ r.handler \in f.copy /\ f.page = Home(r)
  <2>1. r = Listener(f.obj, r.handler)
    <3>1. r \in Registrations
      BY <1>1, InAudience
    <3> QED
      BY <1>3, <3>1 DEF Listener, Registrations
  <2>2. Home(r) = PageOf[r.handler]
    BY DEF Home
  <2> QED
    BY <1>3, <2>1, <2>2 DEF Called
<1>4. CASE ~(r.how = "listener" /\ r.at = f.obj /\ r.handler \in f.copy /\ f.page = Home(r))
  BY <1>2, <1>4 DEF Ahead, g
<1> QED
  BY <1>3, <1>4

LEMMA PassTestHears ==
  ASSUME HearingInv, NEW t \in Threads, PassTest(t)
  PROVE  MustAreAttached' /\ NoneIsLost'
<1> DEFINE f == fire[t]
           g == [f EXCEPT !.at = "post"]
<1>1. /\ f.at = "call" /\ Goes(t, g) /\ Still /\ ~overflow
      /\ UNCHANGED <<listeners, attribute, proxy, page>>
  BY DEF PassTest, At, registry
<1>2. IInv /\ f \in Fires
  BY <1>1, AtPlace DEF HearingInv
<1> HIDE DEF f
<1>3. /\ g.at = "post" /\ g.left = f.left /\ g.api = f.api /\ g.e = f.e
      /\ g.obj = f.obj /\ g.copy = f.copy /\ g.pages = f.pages /\ g.page = f.page
  BY <1>2 DEF Fires
<1> HIDE DEF g
<1>4. ASSUME NEW r \in Audience(f.api), Ahead(f, r) PROVE Ahead(g, r)
  BY <1>1, <1>3, <1>4 DEF Ahead
<1> QED
  BY <1>1, <1>3, <1>4, MoveHears DEF f

\* A page that turns a call away is closed, which excuses what it misses.
LEMMA TurnedAwayHears ==
  ASSUME HearingInv, NEW t \in Threads, TurnedAway(t)
  PROVE  MustAreAttached' /\ NoneIsLost'
<1> DEFINE f == fire[t]
           g == Returned(f)
<1>1. /\ f.at = "call" /\ Goes(t, g) /\ Still /\ ~overflow /\ page[f.page] # "open"
      /\ UNCHANGED <<listeners, attribute, proxy, page>>
  BY DEF TurnedAway, At, registry
<1>2. IInv /\ f \in Fires
  BY <1>1, AtPlace DEF HearingInv
<1>3. /\ g.at = "calls" /\ g.api = f.api /\ g.e = f.e
  BY <1>2 DEF Returned, Fires
<1> HIDE DEF g
<1>4. ASSUME NEW r \in Audience(f.api), page[Home(r)] = "open", Ahead(f, r)
      PROVE  Ahead(g, r)
  BY <1>1, <1>2, <1>4, CalledAhead DEF g
<1> HIDE DEF f
<1> QED
  BY <1>1, <1>3, <1>4, MoveHears DEF f

LEMMA ScheduleHears ==
  ASSUME HearingInv, NEW t \in Threads, Schedule(t)
  PROVE  MustAreAttached' /\ NoneIsLost'
<1> DEFINE f == fire[t]
           g == Returned(f)
           c == [e |-> f.e, to |-> Called(f)]
<1>1. /\ f.at = "post" /\ ~overflow /\ Goes(t, g)
      /\ queue' = [queue EXCEPT ![f.page] = IF page[f.page] = "open" THEN Append(@, c) ELSE @]
      /\ UNCHANGED <<listeners, attribute, proxy, page, timers, event, fired, heard>>
  BY DEF Schedule, At, registry
<1>2. /\ IInv /\ c \in Calls /\ c.e = f.e /\ c.to = Called(f) /\ f.page \in Pages
      /\ queue \in [Pages -> Seq(Calls)]
  BY <1>1, CalledHeld, ConsequencesOfIInv DEF HearingInv, TypeOK
<1>3. g.at # "idle" => g.api = f.api /\ g.e = f.e
  BY <1>1, <1>2, AtPlace DEF Returned, Fires
<1> HIDE DEF f, g, c
<1>4. /\ \A e \in Events, r \in Registrations :
           Home(r) \in Pages /\ Waits(queue, e, r) => Waits(queue', e, r)
      /\ page[f.page] = "open" => \A r \in c.to : Home(r) = f.page => Waits(queue', c.e, r)
  <2>1. CASE page[f.page] = "open"
    <3>1. queue' = AppendedTo(queue, f.page, c)
      BY <1>1, <2>1 DEF AppendedTo
    <3> QED
      BY <1>2, <3>1, AppendedWaits
  <2>2. CASE page[f.page] # "open"
    <3>1. queue' = queue
      BY <1>1, <1>2, <2>2
    <3> QED
      BY <2>2, <3>1
  <2> QED
    BY <2>1, <2>2
<1>5. ASSUME NEW r \in Audience(f.api), page[Home(r)] = "open", Ahead(f, r)
      PROVE  (g.at # "idle" /\ Ahead(g, r)) \/ Waits(queue', f.e, r)
  <2>1. (g.at = "calls" /\ Ahead(g, r)) \/ (r \in Called(f) /\ Home(r) = f.page)
    BY <1>1, <1>2, <1>5, CalledAhead DEF f, g
  <2> QED
    BY <1>2, <1>4, <1>5, <2>1
<1> QED
  BY <1>1, <1>3, <1>4, <1>5, StepHears DEF f

LEMMA CallNowHears ==
  ASSUME HearingInv, CallNow
  PROVE  MustAreAttached' /\ NoneIsLost'
<1> USE EventsAssumption
<1> DEFINE f == fire[Main]
<1>1. /\ f.at = "call" /\ ~overflow
      /\ UNCHANGED <<listeners, attribute, proxy, page, queue, fired>>
  BY DEF CallNow, At, registry
<1>2. PICK thrown \in BOOLEAN : \E some \in Reached(Called(f), thrown) :
          /\ Run(f.e, f.page, some)
          /\ Goes(Main, IF thrown THEN Told(f) ELSE Returned(f))
          /\ event' = [event EXCEPT ![f.e].aborted = @ \/ thrown]
  BY DEF CallNow
<1>3. PICK some \in Reached(Called(f), thrown) :
          /\ Run(f.e, f.page, some)
          /\ Goes(Main, IF thrown THEN Told(f) ELSE Returned(f))
          /\ event' = [event EXCEPT ![f.e].aborted = @ \/ thrown]
  BY <1>2
<1>4. /\ IInv /\ f.e \in 1..fired /\ f.e \in Events /\ f \in Fires /\ f.page \in Pages
      /\ event[f.e] \in History /\ event \in [Events -> History]
      /\ Called(f) \subseteq Registrations
  BY <1>1, AtPlace, CalledHeld, ConsequencesOfIInv DEF HearingInv, TypeOK, History
<1>5. some \in SUBSET Registrations
  BY <1>4, ReachedPart
<1>6. /\ \A d \in Events : heard[d] \subseteq heard'[d]
      /\ \A d \in Events, r \in Registrations :
           Home(r) \in Pages /\ Waits(timers, d, r) => Waits(timers', d, r)
      /\ \A r \in some : Home(r) = f.page => r \in heard'[f.e] \/ Waits(timers', f.e, r)
  BY <1>3, <1>4, <1>5, RunHears
<1>7. /\ \A e \in Events : /\ event'[e].must = event[e].must /\ event'[e].cut = event[e].cut
                           /\ event[e].aborted => event'[e].aborted
      /\ thrown => event'[f.e].aborted
  <2> DEFINE d == f.e
             new == [event[d] EXCEPT !.aborted = @ \/ thrown]
  <2>1. event' = [event EXCEPT ![d] = new] /\ d \in Events /\ event[d] \in History
    BY <1>3, <1>4
  <2> HIDE DEF d
  <2>2. /\ new.must = event[d].must /\ new.cut = event[d].cut
        /\ new.aborted = (event[d].aborted \/ thrown)
    BY <2>1 DEF History
  <2> HIDE DEF new
  <2>3. \A e \in Events : event'[e] = IF e = d THEN new ELSE event[e]
    BY <1>4, <2>1
  <2>4. thrown => event'[d].aborted
    BY <2>1, <2>2, <2>3
  <2>5. event[d].aborted => new.aborted
    BY <2>2
  <2> QED
    BY <2>2, <2>3, <2>4, <2>5 DEF d
<1> DEFINE g == IF thrown THEN Told(f) ELSE Returned(f)
<1>8. Goes(Main, g) /\ (g.at # "idle" => g.api = f.api /\ g.e = f.e)
  BY <1>3, <1>4 DEF Told, Returned, NotFiring, Fires
<1>9. ASSUME ~thrown PROVE g = Returned(f) /\ some = Called(f)
  BY <1>9 DEF Reached
<1> HIDE DEF f, g
<1>10. ASSUME NEW r \in Audience(f.api), Ahead(f, r)
       PROVE  \/ g.at # "idle" /\ Ahead(g, r)
              \/ r \in heard'[f.e] \/ event'[f.e].aborted \/ Waits(timers', f.e, r)
  <2>1. CASE thrown
    BY <1>7, <2>1
  <2>2. CASE ~thrown
    <3>1. (g.at = "calls" /\ Ahead(g, r)) \/ (r \in some /\ Home(r) = f.page)
      BY <1>1, <1>4, <1>9, <1>10, <2>2, CalledAhead DEF f
    <3> QED
      BY <1>6, <3>1
  <2> QED
    BY <2>1, <2>2
<1> QED
  BY <1>1, <1>6, <1>7, <1>8, <1>10, StepHears DEF f

LEMMA FireAttributeHears ==
  ASSUME HearingInv, NEW t \in Threads, FireAttribute(t)
  PROVE  MustAreAttached' /\ NoneIsLost'
<1> USE EventsAssumption
<1> DEFINE f == fire[t]
           h == attribute[f.api]
           r0 == Attribute(f.api, h)
           c == [e |-> f.e, to |-> {r0}]
<1>1. /\ f.at = "calls" /\ f.pages = {} /\ f.obj = f.api /\ Goes(t, Told(f)) /\ ~overflow
      /\ queue' = IF h # None /\ page[PageOf[h]] = "open"
                    THEN [queue EXCEPT ![PageOf[h]] = Append(@, c)] ELSE queue
      /\ UNCHANGED <<listeners, attribute, proxy, page, timers, event, fired, heard>>
  BY DEF FireAttribute, At, registry
<1>2. /\ IInv /\ Placed(f) /\ f.api \in Apis /\ f.api \in Objects /\ f.e \in Events /\ f.left = {}
      /\ queue \in [Pages -> Seq(Calls)]
  BY <1>1, AtPlace, ConsequencesOfIInv DEF HearingInv, Placed, TypeOK
<1>3. Told(f).at = "idle"
  BY <1>1 DEF Told, NotFiring
<1>4. ASSUME h \in Handlers, page[PageOf[h]] = "open"
      PROVE  /\ queue' = AppendedTo(queue, PageOf[h], c) /\ c \in Calls /\ PageOf[h] \in Pages
             /\ c.e = f.e /\ c.to = {r0}
  <2>1. h # None
    BY <1>4
  <2>2. queue' = AppendedTo(queue, PageOf[h], c)
    BY <1>1, <1>4, <2>1 DEF AppendedTo
  <2>3. r0 \in Registrations
    BY <1>2, <1>4 DEF Attribute, Registrations
  <2> HIDE DEF r0
  <2>4. c \in Calls
    BY <1>2, <2>3 DEF Calls
  <2> QED
    BY <1>4, <2>2, <2>4
<1> HIDE DEF c, f, h
<1>5. \A e \in Events, r \in Registrations :
        Home(r) \in Pages /\ Waits(queue, e, r) => Waits(queue', e, r)
  <2>1. CASE h \in Handlers /\ page[PageOf[h]] = "open"
    BY <1>2, <1>4, <2>1, AppendedWaits
  <2>2. CASE ~(h \in Handlers /\ page[PageOf[h]] = "open")
    <3>1. h \in Handlers \cup {None}
      BY <1>2, ConsequencesOfIInv DEF RegistryOK, h
    <3>2. queue' = queue
      BY <1>1, <2>2, <3>1
    <3> QED
      BY <3>2
  <2> QED
    BY <2>1, <2>2
<1>6. ASSUME NEW r \in Audience(f.api), page[Home(r)] = "open", Ahead(f, r)
      PROVE  Waits(queue', f.e, r)
  <2>1. r.how = "attribute"
    BY <1>1, <1>2, <1>6 DEF Ahead
  <2>2. /\ r.at = f.api /\ r.handler = h /\ r \in Registrations /\ h \in Handlers
        /\ Home(r) = PageOf[h]
    BY <1>2, <2>1, InAudience DEF h
  <2>3. r = r0
    BY <2>1, <2>2 DEF Registrations, Attribute
  <2>4. r \in c.to /\ c.e = f.e /\ Home(r) = PageOf[h]
    BY <1>4, <1>6, <2>2, <2>3
  <2> HIDE DEF r0
  <2> QED
    BY <1>2, <1>4, <1>6, <2>2, <2>4, AppendedWaits
<1> HIDE DEF r0
<1> QED
  BY <1>1, <1>3, <1>5, <1>6, StepHears DEF f

LEMMA BeginHears ==
  ASSUME HearingInv, NEW t \in Threads, NEW a \in Apis, Begin(t, a)
  PROVE  MustAreAttached' /\ NoneIsLost'
<1> DEFINE e == fired + 1
           new == [thread |-> t, api |-> a, must |-> Audience(a), held |-> Audience(a),
                   cut |-> {}, aborted |-> FALSE]
           f == Begun(a, e)
<1>1. /\ fired' = e /\ fire' = [fire EXCEPT ![t] = f] /\ event' = [event EXCEPT ![e] = new]
      /\ UNCHANGED <<listeners, attribute, proxy, page, queue, timers, heard>>
      /\ fire[t].at = "idle" /\ ~overflow /\ fired < MaxEvents
  BY DEF Begin, Goes, At, registry
<1>2. /\ IInv /\ MustAreAttached /\ NoneIsLost /\ fired \in Nat /\ fire \in [Threads -> Fires]
      /\ event \in [Events -> History] /\ 1..fired \subseteq Events
  BY ConsequencesOfIInv DEF HearingInv, TypeOK
<1>3. e \in Events /\ e > fired
  BY <1>1, <1>2, EventsAssumption DEF Events
<1>4. f.at = "begun" /\ f.api = a /\ f.e = e
  BY DEF Begun
<1>5. new.must = Audience(a)
  OBVIOUS
<1>6. \A d \in 1..fired' : d = e \/ d \in 1..fired
  BY <1>1, <1>2
<1> HIDE DEF e, f, new
<1>7. event'[e].must = Audience(a) /\ \A d \in 1..fired : event'[d] = event[d]
  BY <1>1, <1>2, <1>3, <1>5
<1>8. fire'[t] = f /\ \A u \in Threads : u # t => fire'[u] = fire[u]
  BY <1>1, <1>2
<1>9. MustAreAttached'
  <2> SUFFICES ASSUME NEW u \in Threads, (fire[u].at # "idle")'
               PROVE  (event[fire[u].e].must \subseteq Audience(fire[u].api))'
    BY DEF MustAreAttached
  <2>1. CASE u = t
    <3>1. Audience(fire[u].api)' = Audience(a)
      BY <1>1, <1>4, <1>8, <2>1 DEF Audience, Follows, Live
    <3> QED
      BY <1>4, <1>7, <1>8, <2>1, <3>1
  <2>2. CASE u # t
    <3>1. fire'[u] = fire[u] /\ fire[u].at # "idle"
      BY <1>8, <2>2
    <3>2. /\ fire[u].e \in 1..fired /\ event[fire[u].e].must \subseteq Audience(fire[u].api)
      BY <1>2, <3>1, AtPlace DEF MustAreAttached
    <3>3. Audience(fire[u].api)' = Audience(fire[u].api)
      BY <1>1, <3>1 DEF Audience, Follows, Live
    <3> QED
      BY <1>7, <3>1, <3>2, <3>3
  <2> QED
    BY <2>1, <2>2
<1>10. ASSUME NEW d \in 1..fired', NEW r \in event'[d].must
       PROVE  Accounted(d, r)'
  <2>1. CASE d = e
    <3>1. StillComes(d, r)'
      BY <1>4, <1>8, <2>1 DEF StillComes, Ahead
    <3> QED
      BY <3>1 DEF Accounted
  <2>2. CASE d # e
    <3>1. d \in 1..fired /\ event'[d] = event[d]
      BY <1>6, <1>7, <2>2
    <3>2. Accounted(d, r)
      BY <1>1, <1>2, <1>10, <3>1 DEF NoneIsLost
    <3>3. ASSUME StillComes(d, r) PROVE StillComes(d, r)'
      <4>1. PICK u \in Threads : fire[u].at # "idle" /\ fire[u].e = d /\ Ahead(fire[u], r)
        BY <3>3 DEF StillComes
      <4>2. fire'[u] = fire[u]
        BY <1>1, <1>8, <4>1
      <4> QED
        BY <4>1, <4>2 DEF StillComes, Ahead
    <3> QED
      BY <1>1, <3>1, <3>2, <3>3 DEF Accounted, Excused, Waits
  <2> QED
    BY <2>1, <2>2
<1> QED
  BY <1>9, <1>10 DEF NoneIsLost

\* What the browser delivers is heard, or waits for a timer, or the call of
\* the page is cut short.
LEMMA DeliverHears ==
  ASSUME HearingInv, NEW q \in Pages, Deliver(q)
  PROVE  MustAreAttached' /\ NoneIsLost'
<1> USE EventsAssumption
<1> DEFINE c == Head(queue[q])
<1>1. /\ queue[q] # <<>> /\ queue' = [queue EXCEPT ![q] = Tail(@)]
      /\ UNCHANGED <<listeners, attribute, proxy, page, fire, fired, overflow>>
  BY DEF Deliver, registry
<1>2. /\ IInv /\ MustAreAttached /\ NoneIsLost /\ queue \in [Pages -> Seq(Calls)]
      /\ CallsHeld(queue) /\ event \in [Events -> History] /\ 1..fired \subseteq Events
  BY ConsequencesOfIInv DEF HearingInv, TypeOK, IInv
<1>3. c \in Calls /\ c.e \in 1..fired /\ c = queue[q][1] /\ c.e \in Events /\ c.to \subseteq Registrations
  BY <1>1, <1>2, FirstCall DEF Calls
<1>4. PICK thrown \in BOOLEAN : \E some \in Reached(c.to, thrown) :
        /\ Run(c.e, q, some)
        /\ event' = [event EXCEPT ![c.e].cut = IF thrown THEN @ \cup {q} ELSE @]
  BY DEF Deliver
<1>5. PICK some \in Reached(c.to, thrown) :
        /\ Run(c.e, q, some)
        /\ event' = [event EXCEPT ![c.e].cut = IF thrown THEN @ \cup {q} ELSE @]
  BY <1>4
<1>6. some \in SUBSET Registrations
  BY <1>3, ReachedPart
<1>7. /\ \A d \in Events : heard[d] \subseteq heard'[d]
      /\ \A d \in Events, r \in Registrations :
           Home(r) \in Pages /\ Waits(timers, d, r) => Waits(timers', d, r)
      /\ \A r \in some : Home(r) = q => r \in heard'[c.e] \/ Waits(timers', c.e, r)
  BY <1>2, <1>3, <1>5, <1>6, RunHears
<1>8. ~thrown => some = c.to
  BY DEF Reached
<1>9. /\ \A e \in Events : /\ event'[e].must = event[e].must /\ event[e].cut \subseteq event'[e].cut
                           /\ event'[e].aborted = event[e].aborted
      /\ thrown => q \in event'[c.e].cut
  <2> DEFINE d == c.e
             new == [event[d] EXCEPT !.cut = IF thrown THEN @ \cup {q} ELSE @]
  <2>1. event' = [event EXCEPT ![d] = new] /\ d \in Events /\ event[d] \in History
    BY <1>2, <1>3, <1>5
  <2> HIDE DEF d
  <2>2. /\ new.must = event[d].must /\ new.aborted = event[d].aborted
        /\ new.cut = IF thrown THEN event[d].cut \cup {q} ELSE event[d].cut
    BY <2>1 DEF History
  <2> HIDE DEF new
  <2>3. \A e \in Events : event'[e] = IF e = d THEN new ELSE event[e]
    BY <1>2, <2>1
  <2>4. thrown => q \in event'[d].cut
    BY <2>1, <2>2, <2>3
  <2> QED
    BY <2>2, <2>3, <2>4 DEF d
<1> HIDE DEF c
<1>10. MustAreAttached'
  <2> SUFFICES ASSUME NEW t \in Threads, (fire[t].at # "idle")'
               PROVE  (event[fire[t].e].must \subseteq Audience(fire[t].api))'
    BY DEF MustAreAttached
  <2>1. fire[t].e \in Events /\ event[fire[t].e].must \subseteq Audience(fire[t].api)
    BY <1>1, <1>2, AtPlace DEF MustAreAttached
  <2>2. Audience(fire[t].api)' = Audience(fire[t].api)
    BY <1>1 DEF Audience, Follows, Live
  <2> QED
    BY <1>1, <1>9, <2>1, <2>2
<1>11. ASSUME ~overflow, NEW e \in 1..fired, NEW r \in event'[e].must
       PROVE  Accounted(e, r)'
  <2>1. e \in Events /\ r \in event[e].must /\ r \in Registrations /\ Home(r) \in Pages
    BY <1>2, <1>9, <1>11, MustBelongs
  <2>2. Accounted(e, r)
    BY <1>2, <1>11, <2>1 DEF NoneIsLost
  <2>3. Excused(e, r) => Excused(e, r)'
    BY <1>1, <1>9, <2>1 DEF Excused
  <2>4. Waits(timers, e, r) => Waits(timers, e, r)'
    BY <1>7, <2>1 DEF Waits
  <2>5. StillComes(e, r) => StillComes(e, r)'
    BY <1>1 DEF StillComes, Ahead
  <2>6. ASSUME Waits(queue, e, r) PROVE Accounted(e, r)'
    <3>1. PICK i \in 1..Len(queue[Home(r)]) :
            queue[Home(r)][i].e = e /\ r \in queue[Home(r)][i].to
      BY <2>6 DEF Waits
    <3>2. CASE Home(r) # q
      <4>1. queue'[Home(r)] = queue[Home(r)]
        BY <1>1, <1>2, <2>1, <3>2
      <4>2. Waits(queue, e, r)'
        BY <3>1, <4>1 DEF Waits
      <4> QED
        BY <4>2 DEF Accounted
    <3>3. CASE Home(r) = q /\ i = 1
      <4>1. c.e = e /\ r \in c.to
        BY <1>3, <3>1, <3>3
      <4>2. CASE thrown
        BY <1>9, <3>3, <4>1, <4>2 DEF Accounted, Excused
      <4>3. CASE ~thrown
        <5>1. r \in heard'[e] \/ Waits(timers', e, r)
          BY <1>7, <1>8, <3>3, <4>1, <4>3
        <5>2. Waits(timers', e, r) => Waits(timers, e, r)'
          BY DEF Waits
        <5> QED
          BY <5>1, <5>2 DEF Accounted
      <4> QED
        BY <4>2, <4>3
    <3>4. CASE Home(r) = q /\ i # 1
      <4>1. queue'[q] = Tail(queue[q]) /\ queue[q] \in Seq(Calls)
        BY <1>1, <1>2
      <4>2. i \in 1..Len(queue[q]) /\ i # 1
        BY <3>1, <3>4
      <4>3. \A k \in 1..Len(queue[q]) : k # 1 =>
              k - 1 \in 1..Len(Tail(queue[q])) /\ Tail(queue[q])[k - 1] = queue[q][k]
        BY <1>1, <4>1, TailAt
      <4>4. i - 1 \in 1..Len(queue'[q]) /\ queue'[q][i - 1] = queue[q][i]
        BY <4>1, <4>2, <4>3
      <4>5. Waits(queue, e, r)'
        BY <3>1, <3>4, <4>4 DEF Waits
      <4> QED
        BY <4>5 DEF Accounted
    <3> QED
      BY <3>2, <3>3, <3>4
  <2>7. r \in heard[e] => r \in heard'[e]
    BY <1>7, <2>1
  <2> QED
    BY <2>2, <2>3, <2>4, <2>5, <2>6, <2>7 DEF Accounted
<1> QED
  BY <1>1, <1>10, <1>11 DEF NoneIsLost

\* What a timer calls is heard, and the rest of its call waits on.
LEMMA TimerHears ==
  ASSUME HearingInv, NEW q \in Pages, Timer(q)
  PROVE  MustAreAttached' /\ NoneIsLost'
<1> USE EventsAssumption
<1> DEFINE c == Head(timers[q])
<1>1. /\ timers[q] # <<>>
      /\ UNCHANGED <<listeners, attribute, proxy, page, fire, queue, event, fired, overflow>>
  BY DEF Timer, registry
<1>2. /\ IInv /\ MustAreAttached /\ NoneIsLost /\ timers \in [Pages -> Seq(Calls)]
      /\ CallsHeld(timers) /\ heard \in [Events -> SUBSET Registrations]
  BY ConsequencesOfIInv DEF HearingInv, TypeOK, IInv
<1>3. /\ c \in Calls /\ c.e \in 1..fired /\ c = timers[q][1] /\ c.e \in Events
      /\ timers[q] \in Seq(Calls) /\ 1 \in 1..Len(timers[q])
  <2>1. timers[q] \in Seq(Calls) /\ 1 \in 1..Len(timers[q])
    BY <1>1, <1>2
  <2>2. c \in Calls /\ c.e \in 1..fired /\ c = timers[q][1]
    BY <1>1, <1>2, FirstCall
  <2> QED
    BY <1>2, <2>1, <2>2, ConsequencesOfIInv
<1>4. PICK x \in c.to :
        /\ heard' = [heard EXCEPT ![c.e] = @ \cup {x}]
        /\ timers' = [timers EXCEPT ![q] =
             IF c.to = {x} THEN Tail(@) ELSE [@ EXCEPT ![1] = [c EXCEPT !.to = @ \ {x}]]]
  BY DEF Timer
<1> DEFINE rest == [c EXCEPT !.to = @ \ {x}]
<1>5. rest.e = c.e /\ rest.to = c.to \ {x} /\ rest \in Calls
  BY <1>3 DEF Calls
<1> HIDE DEF c, rest
<1>6. x \in heard'[c.e] /\ \A d \in Events : heard[d] \subseteq heard'[d]
  BY <1>2, <1>3, <1>4
<1>7. /\ \A p \in Pages : p # q => timers'[p] = timers[p]
      /\ timers'[q] = IF c.to = {x} THEN Tail(timers[q]) ELSE [timers[q] EXCEPT ![1] = rest]
  BY <1>2, <1>4 DEF rest
<1>8. MustAreAttached'
  <2> SUFFICES ASSUME NEW t \in Threads, (fire[t].at # "idle")'
               PROVE  (event[fire[t].e].must \subseteq Audience(fire[t].api))'
    BY DEF MustAreAttached
  <2>1. event[fire[t].e].must \subseteq Audience(fire[t].api)
    BY <1>1, <1>2 DEF MustAreAttached
  <2>2. Audience(fire[t].api)' = Audience(fire[t].api)
    BY <1>1 DEF Audience, Follows, Live
  <2> QED
    BY <1>1, <2>1, <2>2
<1>9. ASSUME ~overflow, NEW e \in 1..fired, NEW r \in event[e].must
      PROVE  Accounted(e, r)'
  <2>1. e \in Events /\ r \in Registrations /\ Home(r) \in Pages /\ Accounted(e, r)
    BY <1>2, <1>9, MustBelongs DEF NoneIsLost
  <2>2. (Excused(e, r) => Excused(e, r)') /\ (StillComes(e, r) => StillComes(e, r)')
    BY <1>1 DEF Excused, StillComes, Ahead
  <2>3. Waits(queue, e, r) => Waits(queue, e, r)'
    BY <1>1 DEF Waits
  <2>4. ASSUME Waits(timers, e, r) PROVE Accounted(e, r)'
    <3>1. PICK i \in 1..Len(timers[Home(r)]) :
            timers[Home(r)][i].e = e /\ r \in timers[Home(r)][i].to
      BY <2>4 DEF Waits
    <3>2. CASE Home(r) # q
      <4>1. Waits(timers, e, r)'
        BY <1>7, <2>1, <3>1, <3>2 DEF Waits
      <4> QED
        BY <4>1 DEF Accounted
    <3>3. CASE Home(r) = q /\ i = 1
      <4>1. c.e = e /\ r \in c.to
        BY <1>3, <3>1, <3>3
      <4>2. CASE r = x
        BY <1>6, <4>1, <4>2 DEF Accounted
      <4>3. CASE r # x
        <5>1. timers'[q] = [timers[q] EXCEPT ![1] = rest]
          BY <1>7, <4>1, <4>3
        <5>2. 1 \in 1..Len(timers'[q]) /\ timers'[q][1] = rest
          BY <1>3, <1>5, <5>1
        <5>3. Waits(timers, e, r)'
          BY <1>5, <3>3, <4>1, <4>3, <5>2 DEF Waits
        <5> QED
          BY <5>3 DEF Accounted
      <4> QED
        BY <4>2, <4>3
    <3>4. CASE Home(r) = q /\ i # 1
      <4>1. i \in 1..Len(timers[q]) /\ i # 1
        BY <3>1, <3>4
      <4>2. PICK j \in 1..Len(timers'[q]) : timers'[q][j] = timers[q][i]
        <5>1. CASE c.to = {x}
          <6>1. i - 1 \in 1..Len(timers'[q]) /\ timers'[q][i - 1] = timers[q][i]
            BY <1>1, <1>3, <1>7, <4>1, <5>1, TailAt
          <6> QED
            BY <6>1
        <5>2. CASE c.to # {x}
          <6>1. timers'[q] = [timers[q] EXCEPT ![1] = rest]
            BY <1>7, <5>2
          <6>2. i \in 1..Len(timers'[q]) /\ timers'[q][i] = timers[q][i]
            BY <1>3, <1>5, <4>1, <6>1
          <6> QED
            BY <6>2
        <5> QED
          BY <5>1, <5>2
      <4>3. Waits(timers, e, r)'
        BY <3>1, <3>4, <4>2 DEF Waits
      <4> QED
        BY <4>3 DEF Accounted
    <3> QED
      BY <3>2, <3>3, <3>4
  <2>5. r \in heard[e] => r \in heard'[e]
    BY <1>6, <2>1
  <2> QED
    BY <2>1, <2>2, <2>3, <2>4, <2>5 DEF Accounted
<1> QED
  BY <1>1, <1>8, <1>9 DEF NoneIsLost

\* What pages and plugin change loses nobody.
LEMMA ChangesHear ==
  ASSUME HearingInv, Registering \/ Proxying \/ Closing
  PROVE  MustAreAttached' /\ NoneIsLost'
<1>1. /\ TypeOK /\ queue \in [Pages -> Seq(Calls)] /\ timers \in [Pages -> Seq(Calls)]
      /\ page \in [Pages -> {"open", "draining", "shut", "gone"}]
  BY ConsequencesOfIInv DEF HearingInv, TypeOK
<1>2. ASSUME Quiet, UNCHANGED page PROVE MustAreAttached' /\ NoneIsLost'
  BY <1>2, ChangeHears DEF Quiet
<1>3. CASE Registering
  BY <1>2, <1>3 DEF Registering, AddListener, RemoveListener, SetAttribute
<1>4. CASE Proxying
  BY <1>2, <1>4 DEF Proxying, CreateWeak, CreateShared, ChangeObject, Reset, Release
<1>5. ASSUME NEW o \in Objects, Invalidate(o) PROVE MustAreAttached' /\ NoneIsLost'
  BY <1>2, <1>5 DEF Invalidate
<1>6. ASSUME NEW q \in Pages, ShutPage(q) PROVE MustAreAttached' /\ NoneIsLost'
  <2>1. Changed
    BY <1>6 DEF ShutPage
  <2>2. \A p \in Pages : page'[p] = "open" =>
           page[p] = "open" /\ queue'[p] = queue[p] /\ timers'[p] = timers[p]
    BY <1>1, <1>6 DEF ShutPage
  <2> QED
    BY <2>1, <2>2, ChangeHears
<1>7. ASSUME NEW q \in Pages, DrainEnds(q) \/ HostGone(q)
      PROVE  MustAreAttached' /\ NoneIsLost'
  <2>1. /\ UNCHANGED <<listeners, attribute, proxy, fire, queue, timers, event, fired, heard, overflow>>
        /\ \A p \in Pages : page'[p] = "open" => page[p] = "open"
        /\ \A p \in Pages : page[p] # "open" => page'[p] # "open"
    BY <1>1, <1>7 DEF DrainEnds, HostGone
  <2>2. MustAreAttached /\ NoneIsLost /\ IInv
    BY DEF HearingInv
  <2>3. MustAreAttached'
    BY <2>1, <2>2 DEF MustAreAttached, Audience, Follows, Live
  <2>4. ASSUME ~overflow, NEW e \in 1..fired, NEW r \in event[e].must
        PROVE  Accounted(e, r)'
    <3>1. Accounted(e, r) /\ Home(r) \in Pages
      BY <2>2, <2>4, MustBelongs DEF NoneIsLost
    <3>2. Excused(e, r) => Excused(e, r)'
      BY <2>1, <3>1 DEF Excused
    <3> QED
      BY <2>1, <3>1, <3>2 DEF Accounted, Waits, StillComes, Ahead
  <2> QED
    BY <2>1, <2>3, <2>4 DEF NoneIsLost
<1> QED
  BY <1>3, <1>4, <1>5, <1>6, <1>7 DEF Closing

\* The invariant behind AttachedHear.
THEOREM HearingHolds == Spec => []HearingInv
<1>1. Init => HearingInv
  BY InitKeeps, EventsAssumption DEF Init, HearingInv, MustAreAttached, NoneIsLost, NotFiring
<1>2. ASSUME HearingInv, [Next]_vars PROVE HearingInv'
  <2>1. IInv'
    BY <1>2, NextKeeps DEF HearingInv
  <2>2. CASE Registering \/ Proxying \/ Closing
    BY <1>2, <2>1, <2>2, ChangesHear DEF HearingInv
  <2>3. ASSUME NEW q \in Pages, Deliver(q) \/ Timer(q) PROVE HearingInv'
    BY <1>2, <2>1, <2>3, DeliverHears, TimerHears DEF HearingInv
  <2>4. ASSUME NEW t \in Threads, NEW a \in Apis, Begin(t, a) PROVE HearingInv'
    BY <1>2, <2>1, <2>4, BeginHears DEF HearingInv
  <2>5. ASSUME NEW t \in Threads, FireStep(t) PROVE HearingInv'
    <3>1. MustAreAttached' /\ NoneIsLost'
      BY <1>2, <2>5, LockProxiesHears, OwnHandlersHears, CallFailsHears, PassTestHears,
         TurnedAwayHears, ScheduleHears, ProxyToldHears, FireAttributeHears, CallNowHears, ErasesProxyHears, TellsProxyHears,
         NextPageHears DEF FireStep
    <3> QED
      BY <2>1, <3>1 DEF HearingInv
  <2>6. CASE UNCHANGED vars
    <3>1. MustAreAttached' /\ NoneIsLost'
      BY <1>2, <2>6 DEF HearingInv, vars, registry, MustAreAttached, NoneIsLost, Audience,
                        Follows, Live, Accounted, Excused, Waits, StillComes, Ahead
    <3> QED
      BY <2>1, <3>1 DEF HearingInv
  <2> QED
    BY <1>2, <2>2, <2>3, <2>4, <2>5, <2>6 DEF Next
<1> QED
  BY <1>1, <1>2, PTL DEF Spec

\* When all is over, whoever was attached all the while has heard the event, or
\* there is a reason that he has not ("This fires an event to all handlers
\* attached", JSAPIImpl.h:101).
THEOREM TheAttachedHear == Spec => []AttachedHear
<1>1. ASSUME HearingInv PROVE AttachedHear
  <2> SUFFICES ASSUME ~overflow, NEW e \in Events, Over(e), NEW r \in event[e].must
               PROVE  r \in heard[e] \/ Excused(e, r)
    BY DEF AttachedHear, Excused
  <2>1. IInv /\ NoneIsLost /\ fired \in Nat
    BY <1>1, ConsequencesOfIInv DEF HearingInv
  <2>2. e \in 1..fired
    BY <2>1 DEF Over, Events
  <2>3. Accounted(e, r) /\ Home(r) \in Pages
    BY <2>1, <2>2, MustBelongs DEF NoneIsLost
  <2>4. ~StillComes(e, r)
    BY DEF Over, Firing, StillComes
  <2>5. ~Waits(queue, e, r) /\ ~Waits(timers, e, r)
    BY <2>3 DEF Over, Waits
  <2> QED
    BY <2>3, <2>4, <2>5 DEF Accounted
<1> QED
  BY <1>1, HearingHolds, PTL

-----------------------------------------------------------------------------
(* Events come in order.                                                   *)

\* A call with some of the handlers of another one.
Part(c, d) == c.e = d.e /\ c.to \subseteq d.to

\* The calls with some taken out, and handlers out of others.
Thinned(new, calls) ==
  \A q \in Pages :
    /\ \A i \in 1..Len(new[q]) : \E k \in 1..Len(calls[q]) : Part(new[q][i], calls[q][k])
    /\ \A i, j \in 1..Len(new[q]) : i < j =>
         \E k, l \in 1..Len(calls[q]) :
           k < l /\ Part(new[q][i], calls[q][k]) /\ Part(new[q][j], calls[q][l])

LEMMA PartNotAfter ==
  ASSUME NEW c, NEW d, NEW c0, NEW d0, NotAfter(c0, d0), Part(c, c0), Part(d, d0)
  PROVE  NotAfter(c, d)
BY DEF NotAfter, Part

\* Nothing is out of order for what is taken out.
LEMMA ThinnedOrderly ==
  ASSUME NEW past, NEW calls, NEW later, Orderly(past, calls, later),
         NEW calls2, Thinned(calls2, calls), NEW later2, Thinned(later2, later)
  PROVE  Orderly(past, calls2, later2)
<1> USE DEF Orderly
<1>1. AtHome(calls2) /\ AtHome(later2)
  BY DEF AtHome, Thinned, Part
<1>2. NoneAtOnce(later2) /\ MainQueuesAttributes(calls2)
  <2>1. ASSUME NEW q \in Pages, NEW i \in 1..Len(later2[q]), NEW r \in later2[q][i].to
        PROVE  ~AtOnce(r)
    BY DEF NoneAtOnce, Thinned, Part
  <2>2. ASSUME NEW q \in Pages, NEW i \in 1..Len(calls2[q]), NEW r \in calls2[q][i].to,
               event[calls2[q][i].e].thread = Main
        PROVE  r.how = "attribute"
    <3>1. PICK k \in 1..Len(calls[q]) : Part(calls2[q][i], calls[q][k])
      BY DEF Thinned
    <3> QED
      BY <2>2, <3>1 DEF MainQueuesAttributes, Part
  <2> QED
    BY <2>1, <2>2 DEF NoneAtOnce, MainQueuesAttributes
<1>3. InOrder(calls2)
  <2> SUFFICES ASSUME NEW q \in Pages, NEW i \in 1..Len(calls2[q]), NEW j \in 1..Len(calls2[q]), i < j
               PROVE  NotAfter(calls2[q][i], calls2[q][j])
    BY DEF InOrder
  <2>1. PICK k, l \in 1..Len(calls[q]) :
          k < l /\ Part(calls2[q][i], calls[q][k]) /\ Part(calls2[q][j], calls[q][l])
    BY DEF Thinned
  <2>2. NotAfter(calls[q][k], calls[q][l])
    BY <2>1 DEF InOrder
  <2> QED
    BY <2>1, <2>2, PartNotAfter
<1>4. InOrder(later2)
  <2> SUFFICES ASSUME NEW q \in Pages, NEW i \in 1..Len(later2[q]), NEW j \in 1..Len(later2[q]), i < j
               PROVE  NotAfter(later2[q][i], later2[q][j])
    BY DEF InOrder
  <2>1. PICK k, l \in 1..Len(later[q]) :
          k < l /\ Part(later2[q][i], later[q][k]) /\ Part(later2[q][j], later[q][l])
    BY DEF Thinned
  <2>2. NotAfter(later[q][k], later[q][l])
    BY <2>1 DEF InOrder
  <2> QED
    BY <2>1, <2>2, PartNotAfter
<1>5. TimersFirst(later2, calls2)
  <2> SUFFICES ASSUME NEW q \in Pages, NEW i \in 1..Len(later2[q]), NEW j \in 1..Len(calls2[q])
               PROVE  NotAfter(later2[q][i], calls2[q][j])
    BY DEF TimersFirst
  <2>1. PICK k \in 1..Len(later[q]) : Part(later2[q][i], later[q][k])
    BY DEF Thinned
  <2>2. PICK l \in 1..Len(calls[q]) : Part(calls2[q][j], calls[q][l])
    BY DEF Thinned
  <2>3. NotAfter(later[q][k], calls[q][l])
    BY DEF TimersFirst
  <2> QED
    BY <2>1, <2>2, <2>3, PartNotAfter
<1>6. ASSUME NEW some, NEW some2, Thinned(some2, some), HeardFirst(past, some)
      PROVE  HeardFirst(past, some2)
  <2> SUFFICES ASSUME NEW q \in Pages, NEW i \in 1..Len(some2[q]), NEW d \in 1..fired
               PROVE  NotAfter([e |-> d, to |-> past[d]], some2[q][i])
    BY DEF HeardFirst
  <2>1. PICK k \in 1..Len(some[q]) : Part(some2[q][i], some[q][k])
    BY <1>6 DEF Thinned
  <2>2. NotAfter([e |-> d, to |-> past[d]], some[q][k])
    BY <1>6 DEF HeardFirst
  <2>3. Part([e |-> d, to |-> past[d]], [e |-> d, to |-> past[d]])
    BY DEF Part
  <2> QED
    BY <2>1, <2>2, <2>3, PartNotAfter
<1> QED
  BY <1>1, <1>2, <1>3, <1>4, <1>5, <1>6

\* The calls before a new one, and the new one.
OneMore(new, calls, q, c) ==
  /\ \A p \in Pages : \A i \in 1..Len(new[p]) :
       \/ p = q /\ new[p][i] = c
       \/ i \in 1..Len(calls[p]) /\ new[p][i] = calls[p][i]
  /\ \A p \in Pages : \A i, j \in 1..Len(new[p]) :
       i < j => i \in 1..Len(calls[p]) /\ new[p][i] = calls[p][i]

LEMMA AppendedCalls ==
  ASSUME NEW calls \in [Pages -> Seq(Calls)], NEW q \in Pages, NEW c \in Calls
  PROVE  OneMore(AppendedTo(calls, q, c), calls, q, c)
<1> DEFINE new == AppendedTo(calls, q, c)
<1>1. \A p \in Pages : new[p] = IF p = q THEN Append(calls[p], c) ELSE calls[p]
  BY DEF AppendedTo
<1>2. new \in [Pages -> Seq(Calls)]
  BY DEF AppendedTo
<1> HIDE DEF new
<1>3. ASSUME NEW p \in Pages, NEW i \in 1..Len(new[p])
      PROVE  \/ p = q /\ i = Len(calls[p]) + 1 /\ i = Len(new[p]) /\ new[p][i] = c
             \/ i \in 1..Len(calls[p]) /\ new[p][i] = calls[p][i]
  <2>1. CASE p = q
    <3>1. new[p] = Append(calls[p], c) /\ calls[p] \in Seq(Calls)
      BY <1>1, <2>1
    <3>2. Len(new[p]) = Len(calls[p]) + 1 /\ Len(calls[p]) \in Nat
      BY <3>1
    <3>3. CASE i = Len(calls[p]) + 1
      BY <2>1, <3>1, <3>2, <3>3
    <3>4. CASE i # Len(calls[p]) + 1
      <4>1. i \in 1..Len(calls[p])
        BY <3>2, <3>4
      <4> QED
        BY <3>1, <4>1
    <3> QED
      BY <3>3, <3>4
  <2>2. CASE p # q
    BY <1>1, <2>2
  <2> QED
    BY <2>1, <2>2
<1>4. ASSUME NEW p \in Pages, NEW i \in 1..Len(new[p]), NEW j \in 1..Len(new[p]), i < j
      PROVE  i \in 1..Len(calls[p]) /\ new[p][i] = calls[p][i]
  BY <1>2, <1>3, <1>4
<1> QED
  BY <1>3, <1>4 DEF OneMore, new

LEMMA AppendedInOrder ==
  ASSUME NEW calls \in [Pages -> Seq(Calls)], NEW q \in Pages, NEW c \in Calls,
         InOrder(calls), \A i \in 1..Len(calls[q]) : NotAfter(calls[q][i], c)
  PROVE  InOrder(AppendedTo(calls, q, c))
<1> DEFINE new == AppendedTo(calls, q, c)
<1>1. OneMore(new, calls, q, c)
  BY AppendedCalls
<1> HIDE DEF new
<1>2. ASSUME NEW p \in Pages, NEW i \in 1..Len(new[p]), NEW j \in 1..Len(new[p]), i < j
      PROVE  NotAfter(new[p][i], new[p][j])
  <2>1. i \in 1..Len(calls[p]) /\ new[p][i] = calls[p][i]
    BY <1>1, <1>2 DEF OneMore
  <2>2. \/ p = q /\ new[p][j] = c
        \/ j \in 1..Len(calls[p]) /\ new[p][j] = calls[p][j]
    BY <1>1 DEF OneMore
  <2> QED
    BY <1>2, <2>1, <2>2 DEF InOrder
<1> QED
  BY <1>2 DEF InOrder, new

\* A call for the last event of its thread goes to the end of the queue.
LEMMA QueuedOrderly ==
  ASSUME NEW past, NEW calls \in [Pages -> Seq(Calls)], NEW later, Orderly(past, calls, later),
         NEW q \in Pages, NEW c \in Calls,
         \A r \in c.to : Home(r) = q /\ (event[c.e].thread = Main => r.how = "attribute"),
         \A d \in 1..fired : event[d].thread = event[c.e].thread => d <= c.e,
         \A i \in 1..Len(calls[q]) : calls[q][i].e \in 1..fired,
         \A i \in 1..Len(later[q]) : later[q][i].e \in 1..fired
  PROVE  Orderly(past, AppendedTo(calls, q, c), later)
<1> USE DEF Orderly
<1> DEFINE new == AppendedTo(calls, q, c)
<1>0. OneMore(new, calls, q, c)
  BY AppendedCalls
<1>1. \A p \in Pages : \A i \in 1..Len(new[p]) :
        \/ p = q /\ new[p][i] = c
        \/ i \in 1..Len(calls[p]) /\ new[p][i] = calls[p][i]
  BY <1>0 DEF OneMore
<1>2. ASSUME NEW d, d.e \in 1..fired
      PROVE  NotAfter(d, c)
  BY <1>2 DEF NotAfter
<1>4. InOrder(new)
  BY <1>2, AppendedInOrder
<1> HIDE DEF new
<1>3. AtHome(new) /\ MainQueuesAttributes(new)
  <2>1. ASSUME NEW p \in Pages, NEW i \in 1..Len(new[p]), NEW r \in new[p][i].to
        PROVE  Home(r) = p /\ (event[new[p][i].e].thread = Main => r.how = "attribute")
    <3>1. CASE p = q /\ new[p][i] = c
      BY <2>1, <3>1
    <3>2. CASE i \in 1..Len(calls[p]) /\ new[p][i] = calls[p][i]
      BY <2>1, <3>2 DEF AtHome, MainQueuesAttributes
    <3> QED
      BY <1>1, <3>1, <3>2
  <2> QED
    BY <2>1 DEF AtHome, MainQueuesAttributes
<1>5. TimersFirst(later, new)
  BY <1>1, <1>2 DEF TimersFirst
<1>6. HeardFirst(past, new)
  <2> SUFFICES ASSUME NEW p \in Pages, NEW i \in 1..Len(new[p]), NEW d \in 1..fired
               PROVE  NotAfter([e |-> d, to |-> past[d]], new[p][i])
    BY DEF HeardFirst
  <2>1. NotAfter([e |-> d, to |-> past[d]], c)
    BY <1>2
  <2> QED
    BY <1>1, <2>1 DEF HeardFirst
<1> QED
  BY <1>3, <1>4, <1>5, <1>6 DEF new

\* A call goes to the end of a page's timers.
LEMMA TimedOrderly ==
  ASSUME NEW past, NEW calls, NEW later \in [Pages -> Seq(Calls)], Orderly(past, calls, later),
         NEW q \in Pages, NEW c \in Calls,
         \A r \in c.to : Home(r) = q /\ ~AtOnce(r),
         \A i \in 1..Len(later[q]) : NotAfter(later[q][i], c),
         \A i \in 1..Len(calls[q]) : NotAfter(c, calls[q][i]),
         \A d \in 1..fired : NotAfter([e |-> d, to |-> past[d]], c)
  PROVE  Orderly(past, calls, AppendedTo(later, q, c))
<1> USE DEF Orderly
<1> DEFINE new == AppendedTo(later, q, c)
<1>0. OneMore(new, later, q, c)
  BY AppendedCalls
<1>3. InOrder(new)
  BY AppendedInOrder
<1> HIDE DEF new
<1>1. \A p \in Pages : \A i \in 1..Len(new[p]) :
        \/ p = q /\ new[p][i] = c
        \/ i \in 1..Len(later[p]) /\ new[p][i] = later[p][i]
  BY <1>0 DEF OneMore
<1>2. ASSUME NEW p \in Pages, NEW i \in 1..Len(new[p]), NEW r \in new[p][i].to
      PROVE  Home(r) = p /\ ~AtOnce(r)
  <2>1. CASE p = q /\ new[p][i] = c
    BY <1>2, <2>1
  <2>2. CASE i \in 1..Len(later[p]) /\ new[p][i] = later[p][i]
    BY <1>2, <2>2 DEF AtHome, NoneAtOnce
  <2> QED
    BY <1>1, <2>1, <2>2
<1>6. AtHome(new) /\ NoneAtOnce(new)
  BY <1>2 DEF AtHome, NoneAtOnce
<1>4. ASSUME NEW p \in Pages, NEW i \in 1..Len(new[p]), NEW j \in 1..Len(calls[p])
      PROVE  NotAfter(new[p][i], calls[p][j])
  <2>1. CASE p = q /\ new[p][i] = c
    BY <2>1
  <2>2. CASE i \in 1..Len(later[p]) /\ new[p][i] = later[p][i]
    BY <2>2 DEF TimersFirst
  <2> QED
    BY <1>1, <2>1, <2>2
<1>5. ASSUME NEW p \in Pages, NEW i \in 1..Len(new[p]), NEW d \in 1..fired
      PROVE  NotAfter([e |-> d, to |-> past[d]], new[p][i])
  <2>1. CASE p = q /\ new[p][i] = c
    BY <2>1
  <2>2. CASE i \in 1..Len(later[p]) /\ new[p][i] = later[p][i]
    BY <2>2 DEF HeardFirst
  <2> QED
    BY <1>1, <2>1, <2>2
<1>7. TimersFirst(new, calls) /\ HeardFirst(past, new)
  BY <1>4, <1>5 DEF TimersFirst, HeardFirst
<1> QED
  BY <1>3, <1>6, <1>7 DEF new

\* Handlers hear an event before those of the same thread that wait for them.
LEMMA HeardOrderly ==
  ASSUME NEW past, NEW calls, NEW later, Orderly(past, calls, later),
         NEW e \in 1..fired, NEW now, NEW new,
         \A d \in 1..fired : new[d] = IF d = e THEN past[e] \cup now ELSE past[d],
         \A q \in Pages : \A i \in 1..Len(calls[q]) :
           NotAfter([e |-> e, to |-> now], calls[q][i]),
         \A q \in Pages : \A i \in 1..Len(later[q]) :
           NotAfter([e |-> e, to |-> now], later[q][i])
  PROVE  Orderly(new, calls, later)
<1>1. ASSUME NEW some, HeardFirst(past, some),
             \A q \in Pages : \A i \in 1..Len(some[q]) :
               NotAfter([e |-> e, to |-> now], some[q][i])
      PROVE  HeardFirst(new, some)
  <2> SUFFICES ASSUME NEW q \in Pages, NEW i \in 1..Len(some[q]), NEW d \in 1..fired
               PROVE  NotAfter([e |-> d, to |-> new[d]], some[q][i])
    BY DEF HeardFirst
  <2> DEFINE c == some[q][i]
  <2>1. NotAfter([e |-> d, to |-> past[d]], c) /\ NotAfter([e |-> e, to |-> now], c)
    BY <1>1 DEF HeardFirst
  <2> HIDE DEF c
  <2>2. CASE d = e
    <3>1. new[d] = past[d] \cup now
      BY <2>2
    <3> QED
      BY <2>1, <2>2, <3>1 DEF NotAfter, c
  <2>3. CASE d # e
    <3>1. new[d] = past[d]
      BY <2>3
    <3> QED
      BY <2>1, <3>1 DEF c
  <2> QED
    BY <2>2, <2>3
<1> QED
  BY <1>1 DEF Orderly

-----------------------------------------------------------------------------
(* The steps keep the order.                                               *)

\* An event stays the event of its thread.
ThreadsKept == \A e \in 1..fired : event'[e].thread = event[e].thread

\* What an event is heard by comes in its order: the formula of HeardInOrder.
InItsOrder ==
  \A e \in 1..fired : \A r \in heard'[e] \ heard[e] :
    \A later \in (e + 1)..fired :
      event[later].thread = event[e].thread => r \notin heard[later]

\* The order of calls that are left does not depend on what else changes.
LEMMA OrderlyPrimed ==
  ASSUME ThreadsKept, fired \in Nat, fired' \in Nat, fired' >= fired,
         \A d \in 1..fired' : d > fired => heard'[d] = {},
         \A q \in Pages : \A i \in 1..Len(queue'[q]) : queue'[q][i].e \in 1..fired,
         \A q \in Pages : \A i \in 1..Len(timers'[q]) : timers'[q][i].e \in 1..fired,
         Orderly(heard', queue', timers')
  PROVE  Orderly(heard, queue, timers)'
<1> USE DEF ThreadsKept
<1>1. /\ AtHome(queue') /\ AtHome(timers') /\ NoneAtOnce(timers') /\ MainQueuesAttributes(queue')
      /\ InOrder(queue') /\ InOrder(timers') /\ TimersFirst(timers', queue')
      /\ HeardFirst(heard', queue') /\ HeardFirst(heard', timers')
  BY DEF Orderly
<1>2. AtHome(queue)' /\ AtHome(timers)' /\ NoneAtOnce(timers)'
  BY <1>1 DEF AtHome, NoneAtOnce, Home, AtOnce
<1>3. MainQueuesAttributes(queue)'
  BY <1>1 DEF MainQueuesAttributes
<1>4. InOrder(queue)'
  <2>1. ASSUME NEW q \in Pages, NEW i \in 1..Len(queue'[q]), NEW j \in 1..Len(queue'[q]), i < j,
               NEW r \in queue'[q][i].to \cap queue'[q][j].to,
               event'[queue'[q][i].e].thread = event'[queue'[q][j].e].thread
        PROVE  queue'[q][i].e <= queue'[q][j].e
    <3>1. NotAfter(queue'[q][i], queue'[q][j])
      BY <1>1, <2>1 DEF InOrder
    <3>2. event[queue'[q][i].e].thread = event[queue'[q][j].e].thread
      BY <2>1
    <3> QED
      BY <3>1, <3>2 DEF NotAfter
  <2> QED
    BY <2>1 DEF InOrder, NotAfter
<1>5. InOrder(timers)'
  <2>1. ASSUME NEW q \in Pages, NEW i \in 1..Len(timers'[q]), NEW j \in 1..Len(timers'[q]), i < j,
               NEW r \in timers'[q][i].to \cap timers'[q][j].to,
               event'[timers'[q][i].e].thread = event'[timers'[q][j].e].thread
        PROVE  timers'[q][i].e <= timers'[q][j].e
    <3>1. NotAfter(timers'[q][i], timers'[q][j])
      BY <1>1, <2>1 DEF InOrder
    <3>2. event[timers'[q][i].e].thread = event[timers'[q][j].e].thread
      BY <2>1
    <3> QED
      BY <3>1, <3>2 DEF NotAfter
  <2> QED
    BY <2>1 DEF InOrder, NotAfter
<1>6. TimersFirst(timers, queue)'
  <2>1. ASSUME NEW q \in Pages, NEW i \in 1..Len(timers'[q]), NEW j \in 1..Len(queue'[q]),
               NEW r \in timers'[q][i].to \cap queue'[q][j].to,
               event'[timers'[q][i].e].thread = event'[queue'[q][j].e].thread
        PROVE  timers'[q][i].e <= queue'[q][j].e
    <3>1. NotAfter(timers'[q][i], queue'[q][j])
      BY <1>1 DEF TimersFirst
    <3>2. event[timers'[q][i].e].thread = event[queue'[q][j].e].thread
      BY <2>1
    <3> QED
      BY <3>1, <3>2 DEF NotAfter
  <2> QED
    BY <2>1 DEF TimersFirst, NotAfter
<1>7. HeardFirst(heard, queue)'
  <2>1. ASSUME NEW q \in Pages, NEW i \in 1..Len(queue'[q]), NEW d \in 1..fired',
               NEW r \in heard'[d] \cap queue'[q][i].to,
               event'[d].thread = event'[queue'[q][i].e].thread
        PROVE  d <= queue'[q][i].e
    <3>1. d \in 1..fired
      OBVIOUS
    <3>2. NotAfter([e |-> d, to |-> heard'[d]], queue'[q][i])
      BY <1>1, <3>1 DEF HeardFirst
    <3>3. event[d].thread = event[queue'[q][i].e].thread
      BY <2>1, <3>1
    <3> QED
      BY <3>2, <3>3 DEF NotAfter
  <2> QED
    BY <2>1 DEF HeardFirst, NotAfter
<1>8. HeardFirst(heard, timers)'
  <2>1. ASSUME NEW q \in Pages, NEW i \in 1..Len(timers'[q]), NEW d \in 1..fired',
               NEW r \in heard'[d] \cap timers'[q][i].to,
               event'[d].thread = event'[timers'[q][i].e].thread
        PROVE  d <= timers'[q][i].e
    <3>1. d \in 1..fired
      OBVIOUS
    <3>2. NotAfter([e |-> d, to |-> heard'[d]], timers'[q][i])
      BY <1>1, <3>1 DEF HeardFirst
    <3>3. event[d].thread = event[timers'[q][i].e].thread
      BY <2>1, <3>1
    <3> QED
      BY <3>2, <3>3 DEF NotAfter
  <2> QED
    BY <2>1 DEF HeardFirst, NotAfter
<1> QED
  BY <1>2, <1>3, <1>4, <1>5, <1>6, <1>7, <1>8 DEF Orderly

\* When no event is fired only the calls that are left are to be looked at.
LEMMA OrderlyNext ==
  ASSUME IInv, IInv', ThreadsKept, fired' = fired, Orderly(heard', queue', timers')
  PROVE  Orderly(heard, queue, timers)'
<1>1. fired \in Nat
  BY ConsequencesOfIInv
<1>2. /\ \A q \in Pages : \A i \in 1..Len(queue'[q]) : queue'[q][i].e \in 1..fired
      /\ \A q \in Pages : \A i \in 1..Len(timers'[q]) : timers'[q][i].e \in 1..fired
  BY DEF IInv, CallsHeld
<1> QED
  BY <1>1, <1>2, OrderlyPrimed

\* Threads that go on go on with the same event.
LEMMA LastKept ==
  ASSUME IInv, LastOfThread, ThreadsKept, fired' = fired,
         \A t \in Threads : fire'[t].at # "idle" => fire[t].at # "idle" /\ fire'[t].e = fire[t].e
  PROVE  LastOfThread'
<1> SUFFICES ASSUME NEW t \in Threads, (fire[t].at # "idle")'
             PROVE  (/\ event[fire[t].e].thread = t
                     /\ \A e \in 1..fired : event[e].thread = t => e <= fire[t].e)'
  BY DEF LastOfThread
<1>1. fire[t].at # "idle" /\ fire'[t].e = fire[t].e
  OBVIOUS
<1>2. fire[t].e \in 1..fired
  BY <1>1, AtPlace
<1> QED
  BY <1>1, <1>2 DEF LastOfThread, ThreadsKept

LEMMA SameThinned ==
  ASSUME NEW calls
  PROVE  Thinned(calls, calls)
BY DEF Thinned, Part

\* The first of a page's calls is taken out.
LEMMA TailThinned ==
  ASSUME NEW calls \in [Pages -> Seq(Calls)], NEW q \in Pages, calls[q] # <<>>
  PROVE  Thinned([calls EXCEPT ![q] = Tail(@)], calls)
<1> DEFINE new == [calls EXCEPT ![q] = Tail(@)]
<1>1. \A p \in Pages : new[p] = IF p = q THEN Tail(calls[p]) ELSE calls[p]
  OBVIOUS
<1>2. /\ \A i \in 1..Len(Tail(calls[q])) : i + 1 \in 1..Len(calls[q]) /\ Tail(calls[q])[i] = calls[q][i + 1]
  BY TailAt
<1> HIDE DEF new
<1>3. ASSUME NEW p \in Pages, NEW i \in 1..Len(new[p])
      PROVE  \/ p # q /\ i \in 1..Len(calls[p]) /\ new[p][i] = calls[p][i]
             \/ p = q /\ i + 1 \in 1..Len(calls[p]) /\ new[p][i] = calls[p][i + 1]
  BY <1>1, <1>2
<1>4. ASSUME NEW p \in Pages, NEW i \in 1..Len(new[p])
      PROVE  \E k \in 1..Len(calls[p]) : Part(new[p][i], calls[p][k])
  BY <1>3 DEF Part
<1>5. ASSUME NEW p \in Pages, NEW i \in 1..Len(new[p]), NEW j \in 1..Len(new[p]), i < j
      PROVE  \E k, l \in 1..Len(calls[p]) :
               k < l /\ Part(new[p][i], calls[p][k]) /\ Part(new[p][j], calls[p][l])
  <2>1. CASE p # q
    BY <1>3, <1>5, <2>1 DEF Part
  <2>2. CASE p = q
    <3>1. i + 1 \in 1..Len(calls[p]) /\ j + 1 \in 1..Len(calls[p]) /\ i + 1 < j + 1
      BY <1>3, <1>5, <2>2
    <3>2. Part(new[p][i], calls[p][i + 1]) /\ Part(new[p][j], calls[p][j + 1])
      BY <1>3, <2>2 DEF Part
    <3> QED
      BY <3>1, <3>2
  <2> QED
    BY <2>1, <2>2
<1> QED
  BY <1>4, <1>5 DEF Thinned, new

\* A page's calls are dropped.
LEMMA EmptiedThinned ==
  ASSUME NEW new, NEW calls, \A q \in Pages : new[q] = calls[q] \/ new[q] = <<>>
  PROVE  Thinned(new, calls)
<1>1. Len(<<>>) = 0
  OBVIOUS
<1>2. ASSUME NEW q \in Pages, NEW i \in 1..Len(new[q])
      PROVE  new[q] = calls[q]
  BY <1>1
<1> QED
  BY <1>2 DEF Thinned, Part

\* Who is called is not ahead of what is heard later of the thread.
LEMMA HeardLast ==
  ASSUME IInv, NEW e \in 1..fired, NEW now, heard' = [heard EXCEPT ![e] = @ \cup now],
         \A d \in 1..fired : NotAfter([e |-> d, to |-> heard[d]], [e |-> e, to |-> now])
  PROVE  /\ InItsOrder
         /\ \A d \in 1..fired : heard'[d] = IF d = e THEN heard[e] \cup now ELSE heard[d]
<1>1. heard \in [Events -> SUBSET Registrations] /\ 1..fired \subseteq Events /\ fired \in Nat
  BY ConsequencesOfIInv DEF TypeOK
<1>2. \A d \in 1..fired : heard'[d] = IF d = e THEN heard[e] \cup now ELSE heard[d]
  BY <1>1
<1>3. ASSUME NEW d \in 1..fired, NEW r \in heard'[d] \ heard[d], NEW later \in (d + 1)..fired,
             event[later].thread = event[d].thread, r \in heard[later]
      PROVE  FALSE
  <2>1. d = e /\ r \in now
    BY <1>2, <1>3
  <2>2. later \in 1..fired /\ later > d
    BY <1>1
  <2>3. NotAfter([e |-> later, to |-> heard[later]], [e |-> e, to |-> now])
    BY <2>2
  <2>4. later <= e
    BY <1>3, <2>1, <2>3 DEF NotAfter
  <2> QED
    BY <2>1, <2>2, <2>4
<1> QED
  BY <1>2, <1>3 DEF InItsOrder

\* A call on the main thread that is not after what waits for the handlers, nor
\* before what they have heard.
LEMMA RunOrders ==
  ASSUME IInv, Orderly(heard, queue, timers), NEW e \in 1..fired, NEW q \in Pages,
         NEW some \in SUBSET Registrations, Run(e, q, some),
         \A r \in some : Home(r) = q,
         \A i \in 1..Len(timers[q]) : NotAfter(timers[q][i], [e |-> e, to |-> some]),
         \A i \in 1..Len(queue[q]) : NotAfter([e |-> e, to |-> some], queue[q][i]),
         \A d \in 1..fired : NotAfter([e |-> d, to |-> heard[d]], [e |-> e, to |-> some])
  PROVE  InItsOrder /\ Orderly(heard', queue, timers')
<1> DEFINE later == {r \in some : ~AtOnce(r)}
           now == {r \in some : AtOnce(r)}
<1>1. /\ e \in Events /\ timers \in [Pages -> Seq(Calls)]
      /\ \A r \in now : r \in some /\ AtOnce(r) /\ Home(r) = q
      /\ \A r \in later : r \in some /\ ~AtOnce(r) /\ Home(r) = q
      /\ now \subseteq some /\ later \subseteq some
  BY ConsequencesOfIInv DEF TypeOK
<1>2. /\ heard' = [heard EXCEPT ![e] = @ \cup now]
      /\ timers' = IF later = {} THEN timers ELSE AppendedTo(timers, q, [e |-> e, to |-> later])
  BY <1>1 DEF Run, AppendedTo
<1> HIDE DEF now, later
<1>3. /\ \A d \in 1..fired : NotAfter([e |-> d, to |-> heard[d]], [e |-> e, to |-> now])
      /\ \A d \in 1..fired : NotAfter([e |-> d, to |-> heard[d]], [e |-> e, to |-> later])
  BY <1>1 DEF NotAfter
<1>4. /\ InItsOrder
      /\ \A d \in 1..fired : heard'[d] = IF d = e THEN heard[e] \cup now ELSE heard[d]
  BY <1>2, <1>3, HeardLast
<1>5. \A p \in Pages : \A i \in 1..Len(queue[p]) : NotAfter([e |-> e, to |-> now], queue[p][i])
  <2> SUFFICES ASSUME NEW p \in Pages, NEW i \in 1..Len(queue[p])
               PROVE  NotAfter([e |-> e, to |-> now], queue[p][i])
    OBVIOUS
  <2>1. CASE p = q
    <3>1. NotAfter([e |-> e, to |-> some], queue[p][i])
      BY <2>1
    <3> QED
      BY <1>1, <3>1 DEF NotAfter
  <2>2. CASE p # q
    <3>1. now \cap queue[p][i].to = {}
      BY <1>1, <2>2 DEF Orderly, AtHome
    <3> QED
      BY <3>1 DEF NotAfter
  <2> QED
    BY <2>1, <2>2
<1>6. \A p \in Pages : \A i \in 1..Len(timers[p]) : NotAfter([e |-> e, to |-> now], timers[p][i])
  BY <1>1 DEF Orderly, NoneAtOnce, NotAfter
<1>7. Orderly(heard', queue, timers)
  BY <1>4, <1>5, <1>6, HeardOrderly
<1>8. CASE later = {}
  BY <1>2, <1>4, <1>7, <1>8
<1>9. CASE later # {}
  <2> DEFINE c == [e |-> e, to |-> later]
  <2>1. c \in Calls /\ c.e = e /\ c.to = later
    BY <1>1 DEF Calls
  <2>2. \A i \in 1..Len(timers[q]) : NotAfter(timers[q][i], c)
    BY <1>1 DEF NotAfter
  <2>3. \A i \in 1..Len(queue[q]) : NotAfter(c, queue[q][i])
    <3> SUFFICES ASSUME NEW i \in 1..Len(queue[q])
                 PROVE  NotAfter(c, queue[q][i])
      OBVIOUS
    <3>1. NotAfter([e |-> e, to |-> some], queue[q][i])
      OBVIOUS
    <3> QED
      BY <1>1, <3>1 DEF NotAfter
  <2>4. \A d \in 1..fired : NotAfter([e |-> d, to |-> heard'[d]], c)
    <3> SUFFICES ASSUME NEW d \in 1..fired
                 PROVE  NotAfter([e |-> d, to |-> heard'[d]], c)
      OBVIOUS
    <3>1. CASE d = e
      BY <3>1 DEF NotAfter
    <3>2. CASE d # e
      <4>1. heard'[d] = heard[d]
        BY <1>4, <3>2
      <4> QED
        BY <1>3, <4>1
    <3> QED
      BY <3>1, <3>2
  <2>5. timers' = AppendedTo(timers, q, c)
    BY <1>2, <1>9
  <2>6. \A r \in c.to : Home(r) = q /\ ~AtOnce(r)
    BY <1>1
  <2> HIDE DEF c
  <2>7. Orderly(heard', queue, AppendedTo(timers, q, c))
    BY <1>1, <1>7, <2>1, <2>2, <2>3, <2>4, <2>6, TimedOrderly
  <2> QED
    BY <1>4, <2>5, <2>7
<1> QED
  BY <1>8, <1>9

\* The first call in a page's queue is in order.
LEMMA DeliverOrders ==
  ASSUME OrderInv, IInv', NEW q \in Pages, Deliver(q)
  PROVE  OrderInv' /\ InItsOrder
<1> DEFINE c == Head(queue[q])
<1>1. /\ queue[q] # <<>> /\ queue' = [queue EXCEPT ![q] = Tail(@)]
      /\ UNCHANGED <<fire, fired, overflow>>
  BY DEF Deliver
<1>2. /\ IInv /\ LastOfThread /\ Orderly(heard, queue, timers) /\ queue \in [Pages -> Seq(Calls)]
      /\ CallsHeld(queue) /\ event \in [Events -> History] /\ 1..fired \subseteq Events
  BY ConsequencesOfIInv DEF OrderInv, TypeOK, IInv
<1>3. /\ c \in Calls /\ c.e \in 1..fired /\ c = queue[q][1] /\ c.e \in Events
      /\ c.to \subseteq Registrations /\ queue[q] \in Seq(Calls) /\ 1 \in 1..Len(queue[q])
  <2>1. queue[q] \in Seq(Calls) /\ 1 \in 1..Len(queue[q])
    BY <1>1, <1>2
  <2> QED
    BY <1>1, <1>2, <2>1, FirstCall DEF Calls
<1>4. PICK thrown \in BOOLEAN : \E some \in Reached(c.to, thrown) :
        /\ Run(c.e, q, some)
        /\ event' = [event EXCEPT ![c.e].cut = IF thrown THEN @ \cup {q} ELSE @]
  BY DEF Deliver
<1>5. PICK some \in Reached(c.to, thrown) :
        /\ Run(c.e, q, some)
        /\ event' = [event EXCEPT ![c.e].cut = IF thrown THEN @ \cup {q} ELSE @]
  BY <1>4
<1>6. some \subseteq c.to
  BY ReachedPart
<1>7. ThreadsKept
  BY <1>2, <1>5 DEF ThreadsKept, History
<1> HIDE DEF c
<1>8. some \in SUBSET Registrations /\ \A r \in some : Home(r) = q
  BY <1>2, <1>3, <1>6 DEF Orderly, AtHome
<1>9. \A i \in 1..Len(timers[q]) : NotAfter(timers[q][i], [e |-> c.e, to |-> some])
  <2>1. \A i \in 1..Len(timers[q]) : NotAfter(timers[q][i], c)
    BY <1>2, <1>3 DEF Orderly, TimersFirst
  <2> QED
    BY <1>6, <2>1 DEF NotAfter
<1>10. \A i \in 1..Len(queue[q]) : NotAfter([e |-> c.e, to |-> some], queue[q][i])
  <2> SUFFICES ASSUME NEW i \in 1..Len(queue[q])
               PROVE  NotAfter([e |-> c.e, to |-> some], queue[q][i])
    OBVIOUS
  <2>1. CASE i = 1
    BY <1>3, <2>1 DEF NotAfter
  <2>2. CASE i # 1
    <3>1. 1 < i
      BY <2>2
    <3>2. NotAfter(c, queue[q][i])
      BY <1>2, <1>3, <3>1 DEF Orderly, InOrder
    <3> QED
      BY <1>6, <3>2 DEF NotAfter
  <2> QED
    BY <2>1, <2>2
<1>11. \A d \in 1..fired : NotAfter([e |-> d, to |-> heard[d]], [e |-> c.e, to |-> some])
  <2> SUFFICES ASSUME NEW d \in 1..fired
               PROVE  NotAfter([e |-> d, to |-> heard[d]], [e |-> c.e, to |-> some])
    OBVIOUS
  <2>1. NotAfter([e |-> d, to |-> heard[d]], c)
    BY <1>2, <1>3 DEF Orderly, HeardFirst
  <2> QED
    BY <1>6, <2>1 DEF NotAfter
<1>12. InItsOrder /\ Orderly(heard', queue, timers')
  BY <1>2, <1>3, <1>5, <1>8, <1>9, <1>10, <1>11, RunOrders
<1>13. Thinned(queue', queue) /\ Thinned(timers', timers')
  BY <1>1, <1>2, TailThinned, SameThinned
<1>14. Orderly(heard', queue', timers')
  BY <1>12, <1>13, ThinnedOrderly
<1>15. Orderly(heard, queue, timers)' /\ LastOfThread'
  BY <1>1, <1>2, <1>7, <1>14, OrderlyNext, LastKept
<1> QED
  BY <1>12, <1>15 DEF OrderInv

\* The first of a page's timers is in order.
LEMMA TimerOrders ==
  ASSUME OrderInv, IInv', NEW q \in Pages, Timer(q)
  PROVE  OrderInv' /\ InItsOrder
<1> DEFINE c == Head(timers[q])
<1>1. timers[q] # <<>> /\ UNCHANGED <<fire, queue, event, fired, overflow>>
  BY DEF Timer
<1>2. /\ IInv /\ LastOfThread /\ Orderly(heard, queue, timers) /\ timers \in [Pages -> Seq(Calls)]
      /\ CallsHeld(timers) /\ 1..fired \subseteq Events
  BY ConsequencesOfIInv DEF OrderInv, TypeOK, IInv
<1>3. /\ c \in Calls /\ c.e \in 1..fired /\ c = timers[q][1] /\ c.e \in Events
      /\ timers[q] \in Seq(Calls) /\ 1 \in 1..Len(timers[q])
  <2>1. timers[q] \in Seq(Calls) /\ 1 \in 1..Len(timers[q])
    BY <1>1, <1>2
  <2> QED
    BY <1>1, <1>2, <2>1, FirstCall
<1>4. PICK x \in c.to :
        /\ heard' = [heard EXCEPT ![c.e] = @ \cup {x}]
        /\ timers' = [timers EXCEPT ![q] =
             IF c.to = {x} THEN Tail(@) ELSE [@ EXCEPT ![1] = [c EXCEPT !.to = @ \ {x}]]]
  BY DEF Timer
<1> DEFINE rest == [c EXCEPT !.to = @ \ {x}]
<1>5. rest.e = c.e /\ rest.to = c.to \ {x}
  BY <1>3 DEF Calls
<1> HIDE DEF c, rest
<1>6. ThreadsKept
  BY <1>1 DEF ThreadsKept
<1>7. Home(x) = q
  BY <1>2, <1>3, <1>4 DEF Orderly, AtHome
<1>8. \A d \in 1..fired : NotAfter([e |-> d, to |-> heard[d]], [e |-> c.e, to |-> {x}])
  <2> SUFFICES ASSUME NEW d \in 1..fired
               PROVE  NotAfter([e |-> d, to |-> heard[d]], [e |-> c.e, to |-> {x}])
    OBVIOUS
  <2>1. NotAfter([e |-> d, to |-> heard[d]], c)
    BY <1>2, <1>3 DEF Orderly, HeardFirst
  <2> QED
    BY <1>4, <2>1 DEF NotAfter
<1>9. /\ InItsOrder
      /\ \A d \in 1..fired : heard'[d] = IF d = c.e THEN heard[c.e] \cup {x} ELSE heard[d]
  BY <1>2, <1>3, <1>4, <1>8, HeardLast
<1>10. ASSUME NEW p \in Pages, NEW i \in 1..Len(queue[p])
       PROVE  NotAfter([e |-> c.e, to |-> {x}], queue[p][i])
  <2>1. CASE p = q
    <3>1. NotAfter(c, queue[p][i])
      BY <1>2, <1>3, <2>1 DEF Orderly, TimersFirst
    <3> QED
      BY <1>4, <3>1 DEF NotAfter
  <2>2. CASE p # q
    <3>1. x \notin queue[p][i].to
      BY <1>2, <1>7, <2>2 DEF Orderly, AtHome
    <3> QED
      BY <3>1 DEF NotAfter
  <2> QED
    BY <2>1, <2>2
<1>11. ASSUME NEW p \in Pages, NEW i \in 1..Len(timers[p])
       PROVE  NotAfter([e |-> c.e, to |-> {x}], timers[p][i])
  <2>1. CASE p = q /\ i = 1
    BY <1>3, <2>1 DEF NotAfter
  <2>2. CASE p = q /\ i # 1
    <3>1. 1 < i
      BY <2>2
    <3>2. NotAfter(c, timers[p][i])
      BY <1>2, <1>3, <2>2, <3>1 DEF Orderly, InOrder
    <3> QED
      BY <1>4, <3>2 DEF NotAfter
  <2>3. CASE p # q
    <3>1. x \notin timers[p][i].to
      BY <1>2, <1>7, <2>3 DEF Orderly, AtHome
    <3> QED
      BY <3>1 DEF NotAfter
  <2> QED
    BY <2>1, <2>2, <2>3
<1>12. Orderly(heard', queue, timers)
  BY <1>2, <1>3, <1>9, <1>10, <1>11, HeardOrderly
<1>13. Thinned(timers', timers)
  <2>1. CASE c.to = {x}
    <3>1. timers' = [timers EXCEPT ![q] = Tail(@)]
      BY <1>4, <2>1
    <3> QED
      BY <1>1, <1>2, <3>1, TailThinned
  <2>2. CASE c.to # {x}
    <3>1. /\ \A p \in Pages : p # q => timers'[p] = timers[p]
          /\ timers'[q] = [timers[q] EXCEPT ![1] = rest]
      BY <1>2, <1>4, <2>2 DEF rest
    <3>2. /\ Len(timers'[q]) = Len(timers[q]) /\ timers'[q][1] = rest
          /\ \A i \in 1..Len(timers[q]) : i # 1 => timers'[q][i] = timers[q][i]
      BY <1>3, <3>1
    <3>3. ASSUME NEW p \in Pages, NEW i \in 1..Len(timers'[p])
          PROVE  i \in 1..Len(timers[p]) /\ Part(timers'[p][i], timers[p][i])
      <4>1. CASE p # q
        BY <3>1, <4>1 DEF Part
      <4>2. CASE p = q /\ i = 1
        BY <1>3, <1>5, <3>2, <4>2 DEF Part
      <4>3. CASE p = q /\ i # 1
        BY <3>2, <4>3 DEF Part
      <4> QED
        BY <4>1, <4>2, <4>3
    <3> QED
      BY <3>3 DEF Thinned
  <2> QED
    BY <2>1, <2>2
<1>14. Orderly(heard', queue', timers')
  BY <1>1, <1>12, <1>13, SameThinned, ThinnedOrderly
<1>15. Orderly(heard, queue, timers)' /\ LastOfThread'
  BY <1>1, <1>2, <1>6, <1>14, OrderlyNext, LastKept
<1> QED
  BY <1>9, <1>15 DEF OrderInv

\* Steps that call nobody leave what was heard.
LEMMA NothingHeard ==
  ASSUME UNCHANGED heard
  PROVE  InItsOrder
BY DEF InItsOrder

\* The handlers of an object are called for its thread's last event, which none
\* of the main thread's calls in the queue is for.
LEMMA CallNowOrders ==
  ASSUME OrderInv, IInv', CallNow
  PROVE  OrderInv' /\ InItsOrder
<1> USE EventsAssumption
<1> DEFINE f == fire[Main]
<1>1. /\ f.at = "call" /\ UNCHANGED <<queue, fired>>
  BY DEF CallNow, At
<1>2. PICK thrown \in BOOLEAN : \E some \in Reached(Called(f), thrown) :
          /\ Run(f.e, f.page, some)
          /\ Goes(Main, IF thrown THEN Told(f) ELSE Returned(f))
          /\ event' = [event EXCEPT ![f.e].aborted = @ \/ thrown]
  BY DEF CallNow
<1>3. PICK some \in Reached(Called(f), thrown) :
          /\ Run(f.e, f.page, some)
          /\ Goes(Main, IF thrown THEN Told(f) ELSE Returned(f))
          /\ event' = [event EXCEPT ![f.e].aborted = @ \/ thrown]
  BY <1>2
<1>4. /\ IInv /\ LastOfThread /\ Orderly(heard, queue, timers)
      /\ f.e \in 1..fired /\ f.e \in Events /\ f \in Fires /\ f.page \in Pages
      /\ event[f.e] \in History /\ event \in [Events -> History] /\ 1..fired \subseteq Events
      /\ Called(f) \subseteq Registrations /\ CallsHeld(timers) /\ CallsHeld(queue)
      /\ fire \in [Threads -> Fires]
  BY <1>1, AtPlace, CalledHeld, ConsequencesOfIInv DEF OrderInv, IInv, TypeOK, History
<1>5. some \subseteq Called(f)
  BY ReachedPart
<1>6. \A r \in some : r \in Registrations /\ Home(r) = f.page /\ r.how = "listener"
  <2>1. \A r \in Called(f) : Home(r) = f.page /\ r.how = "listener"
    BY DEF Called, Listener, Home
  <2> QED
    BY <1>4, <1>5, <2>1
<1>7. event[f.e].thread = Main /\ \A d \in 1..fired : event[d].thread = Main => d <= f.e
  BY <1>1, <1>4 DEF LastOfThread
<1>8. ThreadsKept
  BY <1>3, <1>4 DEF ThreadsKept, History
<1>9. \A u \in Threads : fire'[u].at # "idle" => fire[u].at # "idle" /\ fire'[u].e = fire[u].e
  <2> DEFINE g == IF thrown THEN Told(f) ELSE Returned(f)
  <2>1. fire' = [fire EXCEPT ![Main] = g]
    BY <1>3 DEF Goes
  <2>2. g.at # "idle" => g.e = f.e
    BY <1>4 DEF Told, Returned, NotFiring, Fires
  <2> HIDE DEF g
  <2> QED
    BY <1>1, <1>4, <2>1, <2>2
<1> HIDE DEF f
<1>10. \A i \in 1..Len(timers[f.page]) :
         NotAfter(timers[f.page][i], [e |-> f.e, to |-> some])
  BY <1>4, <1>7 DEF NotAfter, CallsHeld
<1>11. \A i \in 1..Len(queue[f.page]) :
         NotAfter([e |-> f.e, to |-> some], queue[f.page][i])
  BY <1>4, <1>6, <1>7 DEF NotAfter, Orderly, MainQueuesAttributes
<1>12. \A d \in 1..fired : NotAfter([e |-> d, to |-> heard[d]], [e |-> f.e, to |-> some])
  BY <1>7 DEF NotAfter
<1>13. some \in SUBSET Registrations
  BY <1>6
<1>14. InItsOrder /\ Orderly(heard', queue, timers')
  BY <1>3, <1>4, <1>6, <1>10, <1>11, <1>12, <1>13, RunOrders
<1>15. Orderly(heard, queue, timers)' /\ LastOfThread'
  BY <1>1, <1>4, <1>8, <1>9, <1>14, OrderlyNext, LastKept
<1> QED
  BY <1>14, <1>15 DEF OrderInv

\* A thread's call for its last event is behind all others of the thread's.
LEMMA QueuedLast ==
  ASSUME OrderInv, NEW t \in Threads, NEW f, f = fire[t], f.at # "idle",
         NEW q \in Pages, NEW c \in Calls, c.e = f.e,
         \A r \in c.to : Home(r) = q /\ (t = Main => r.how = "attribute")
  PROVE  Orderly(heard, AppendedTo(queue, q, c), timers)
<1>1. /\ IInv /\ LastOfThread /\ Orderly(heard, queue, timers)
      /\ CallsHeld(timers) /\ CallsHeld(queue) /\ queue \in [Pages -> Seq(Calls)]
  BY ConsequencesOfIInv DEF OrderInv, IInv, TypeOK
<1>2. event[c.e].thread = t /\ \A d \in 1..fired : event[d].thread = t => d <= c.e
  BY <1>1 DEF LastOfThread
<1>3. /\ \A i \in 1..Len(queue[q]) : queue[q][i].e \in 1..fired
      /\ \A i \in 1..Len(timers[q]) : timers[q][i].e \in 1..fired
  BY <1>1 DEF CallsHeld
<1>4. \A r \in c.to : Home(r) = q /\ (event[c.e].thread = Main => r.how = "attribute")
  BY <1>2
<1>5. \A d \in 1..fired : event[d].thread = event[c.e].thread => d <= c.e
  BY <1>2
<1> QED
  BY <1>1, <1>3, <1>4, <1>5, QueuedOrderly

\* A step of a thread in FireEvent that leaves the calls in order.
LEMMA StepOrders ==
  ASSUME OrderInv, IInv', NEW t \in Threads, NEW f, f = fire[t], f.at # "idle",
         NEW g, Goes(t, g), g.at # "idle" => g.e = f.e,
         ThreadsKept, UNCHANGED <<fired, heard>>, Orderly(heard, queue', timers')
  PROVE  OrderInv' /\ InItsOrder
<1>1. IInv /\ LastOfThread /\ fire \in [Threads -> Fires]
  BY ConsequencesOfIInv DEF OrderInv, TypeOK, IInv
<1>2. \A u \in Threads : fire'[u].at # "idle" => fire[u].at # "idle" /\ fire'[u].e = fire[u].e
  BY <1>1 DEF Goes
<1>3. Orderly(heard', queue', timers')
  OBVIOUS
<1>4. Orderly(heard, queue, timers)' /\ LastOfThread'
  BY <1>1, <1>2, <1>3, OrderlyNext, LastKept
<1> QED
  BY <1>4, NothingHeard DEF OrderInv

LEMMA ScheduleOrders ==
  ASSUME OrderInv, IInv', NEW t \in Threads, Schedule(t)
  PROVE  OrderInv' /\ InItsOrder
<1> DEFINE f == fire[t]
           g == Returned(f)
           c == [e |-> f.e, to |-> Called(f)]
<1>1. /\ f.at = "post" /\ t # Main /\ Goes(t, g)
      /\ queue' = [queue EXCEPT ![f.page] = IF page[f.page] = "open" THEN Append(@, c) ELSE @]
      /\ UNCHANGED <<timers, event, fired, heard>>
  BY DEF Schedule, At
<1>2. /\ IInv /\ c \in Calls /\ c.e = f.e /\ c.to = Called(f) /\ f.page \in Pages
      /\ queue \in [Pages -> Seq(Calls)] /\ Orderly(heard, queue, timers)
  BY <1>1, CalledHeld, ConsequencesOfIInv DEF OrderInv, TypeOK
<1>3. g.e = f.e
  BY <1>1, <1>2, AtPlace DEF Returned, Fires
<1>4. \A r \in c.to : Home(r) = f.page
  BY DEF Called, Listener, Home
<1>5. ThreadsKept
  BY <1>1 DEF ThreadsKept
<1> HIDE DEF f, g, c
<1>6. Orderly(heard, queue', timers')
  <2>1. CASE page[f.page] = "open"
    <3>1. queue' = AppendedTo(queue, f.page, c)
      BY <1>1, <2>1 DEF AppendedTo
    <3>2. Orderly(heard, AppendedTo(queue, f.page, c), timers)
      BY <1>1, <1>2, <1>4, QueuedLast DEF f
    <3> QED
      BY <1>1, <3>1, <3>2
  <2>2. CASE page[f.page] # "open"
    <3>1. queue' = queue
      BY <1>1, <1>2, <2>2
    <3> QED
      BY <1>1, <1>2, <3>1
  <2> QED
    BY <2>1, <2>2
<1> QED
  BY <1>1, <1>3, <1>5, <1>6, StepOrders DEF f

LEMMA FireAttributeOrders ==
  ASSUME OrderInv, IInv', NEW t \in Threads, FireAttribute(t)
  PROVE  OrderInv' /\ InItsOrder
<1> USE EventsAssumption
<1> DEFINE f == fire[t]
           h == attribute[f.api]
           r0 == Attribute(f.api, h)
           c == [e |-> f.e, to |-> {r0}]
<1>1. /\ f.at = "calls" /\ f.obj = f.api /\ Goes(t, Told(f))
      /\ queue' = IF h # None /\ page[PageOf[h]] = "open"
                    THEN [queue EXCEPT ![PageOf[h]] = Append(@, c)] ELSE queue
      /\ UNCHANGED <<timers, event, fired, heard>>
  BY DEF FireAttribute, At
<1>2. /\ IInv /\ f.api \in Apis /\ f.api \in Objects /\ f.e \in Events
      /\ queue \in [Pages -> Seq(Calls)] /\ Orderly(heard, queue, timers)
      /\ attribute \in [Apis -> Handlers \cup {None}]
  BY <1>1, AtPlace, ConsequencesOfIInv DEF OrderInv, TypeOK
<1>3. Told(f).at = "idle"
  BY <1>1 DEF Told, NotFiring
<1>4. ThreadsKept
  BY <1>1 DEF ThreadsKept
<1>5. Orderly(heard, queue', timers')
  <2>1. CASE h # None /\ page[PageOf[h]] = "open"
    <3>1. h \in Handlers /\ PageOf[h] \in Pages
      BY <1>2, <2>1
    <3>2. queue' = AppendedTo(queue, PageOf[h], c)
      BY <1>1, <2>1 DEF AppendedTo
    <3>3. r0 \in Registrations /\ r0.how = "attribute" /\ Home(r0) = PageOf[h]
      BY <1>2, <3>1 DEF Attribute, Registrations, Home
    <3> HIDE DEF r0
    <3>4. c \in Calls /\ c.e = f.e /\ c.to = {r0}
      BY <1>2, <3>3 DEF Calls
    <3> HIDE DEF c, h
    <3>5. \A r \in c.to : Home(r) = PageOf[h] /\ (t = Main => r.how = "attribute")
      BY <3>3, <3>4
    <3>6. f.at # "idle"
      BY <1>1
    <3> HIDE DEF f
    <3>7. Orderly(heard, AppendedTo(queue, PageOf[h], c), timers)
      BY <3>1, <3>4, <3>5, <3>6, QueuedLast DEF f
    <3> QED
      BY <1>1, <3>2, <3>7
  <2>2. CASE ~(h # None /\ page[PageOf[h]] = "open")
    BY <1>1, <1>2, <2>2
  <2> QED
    BY <2>1, <2>2
<1> HIDE DEF f, h, r0, c
<1> QED
  BY <1>1, <1>3, <1>4, <1>5, StepOrders DEF f

\* The other steps of FireEvent make no calls.
LEMMA MoveOrders ==
  ASSUME OrderInv, IInv', NEW t \in Threads, NEW f, f = fire[t], f.at # "idle",
         NEW g, Goes(t, g), g.at # "idle" => g.e = f.e,
         ThreadsKept, UNCHANGED <<fired, heard, queue, timers>>
  PROVE  OrderInv' /\ InItsOrder
<1>1. Orderly(heard, queue', timers')
  BY DEF OrderInv
<1> QED
  BY <1>1, StepOrders

LEMMA MovesOrder ==
  ASSUME OrderInv, IInv', NEW t \in Threads,
         \/ LockProxies(t) \/ OwnHandlers(t) \/ CallFails(t) \/ ProxyTold(t)
         \/ PassTest(t) \/ TurnedAway(t)
         \/ \E p \in Proxies : ErasesProxy(t, p) \/ TellsProxy(t, p)
         \/ \E q \in Pages : NextPage(t, q)
  PROVE  OrderInv' /\ InItsOrder
<1> DEFINE f == fire[t]
<1>1. IInv /\ f \in Fires /\ event \in [Events -> History] /\ 1..fired \subseteq Events
  BY ConsequencesOfIInv DEF OrderInv, TypeOK
<1>2. Still => ThreadsKept /\ UNCHANGED <<fired, heard, queue, timers>>
  BY DEF Still, ThreadsKept
<1>3. Told(f).at # "idle" => Told(f).e = f.e
  BY <1>1 DEF Told, NotFiring, Fires
<1>4. \A o : Copied(f, o).e = f.e
  BY DEF Copied
<1>5. CASE LockProxies(t)
  <2>1. f.at # "idle" /\ Goes(t, [f EXCEPT !.at = "proxies", !.left = listed[f.api]]) /\ Still
    BY <1>5 DEF LockProxies, At
  <2>2. [f EXCEPT !.at = "proxies", !.left = listed[f.api]].e = f.e
    BY <1>1 DEF Fires
  <2> HIDE DEF f
  <2> QED
    BY <1>2, <2>1, <2>2, MoveOrders DEF f
<1>6. CASE OwnHandlers(t)
  <2>1. f.at # "idle" /\ Goes(t, Copied(f, f.api)) /\ Still
    BY <1>6 DEF OwnHandlers, At
  <2> HIDE DEF f
  <2> QED
    BY <1>2, <1>4, <2>1, MoveOrders DEF f
<1>7. CASE CallFails(t)
  <2>1. /\ f.at # "idle"
        /\ Goes(t, Told(f)) \/ Goes(t, NotFiring)
        /\ event' = [event EXCEPT ![f.e].aborted = TRUE]
        /\ UNCHANGED <<queue, timers, fired, heard>>
    BY <1>7 DEF CallFails, At
  <2>2. ThreadsKept
    BY <1>1, <2>1 DEF ThreadsKept, History
  <2>3. NotFiring.at = "idle"
    BY DEF NotFiring
  <2> HIDE DEF f
  <2> QED
    BY <1>3, <2>1, <2>2, <2>3, MoveOrders DEF f
<1>8. CASE ProxyTold(t)
  <2>1. f.at # "idle" /\ Goes(t, Told(f)) /\ Still
    BY <1>8 DEF ProxyTold, At
  <2> HIDE DEF f
  <2> QED
    BY <1>2, <1>3, <2>1, MoveOrders DEF f
<1>9. ASSUME NEW p \in Proxies, ErasesProxy(t, p)
      PROVE  OrderInv' /\ InItsOrder
  <2>1. f.at # "idle" /\ Goes(t, [f EXCEPT !.left = @ \ {p}]) /\ Still
    BY <1>9 DEF ErasesProxy, At
  <2>2. [f EXCEPT !.left = @ \ {p}].e = f.e
    BY <1>1 DEF Fires
  <2> HIDE DEF f
  <2> QED
    BY <1>2, <2>1, <2>2, MoveOrders DEF f
<1>10. ASSUME NEW p \in Proxies, TellsProxy(t, p)
       PROVE  OrderInv' /\ InItsOrder
  <2>1. f.at # "idle" /\ Goes(t, Copied(f, p)) /\ Still
    BY <1>10 DEF TellsProxy, At
  <2> HIDE DEF f
  <2> QED
    BY <1>2, <1>4, <2>1, MoveOrders DEF f
<1>11. ASSUME NEW q \in Pages, NextPage(t, q)
       PROVE  OrderInv' /\ InItsOrder
  <2> DEFINE g == IF page[q] = "gone"
                    THEN [f EXCEPT !.pages = @ \ {q}]
                    ELSE [f EXCEPT !.at = "call", !.page = q, !.pages = @ \ {q}]
  <2>1. f.at # "idle" /\ Goes(t, g) /\ Still
    BY <1>11 DEF NextPage, At
  <2>2. g.e = f.e
    BY <1>1 DEF Fires
  <2> HIDE DEF f, g
  <2> QED
    BY <1>2, <2>1, <2>2, MoveOrders DEF f
<1>12. CASE PassTest(t)
  <2>1. f.at # "idle" /\ Goes(t, [f EXCEPT !.at = "post"]) /\ Still
    BY <1>12 DEF PassTest, At
  <2>2. [f EXCEPT !.at = "post"].e = f.e
    BY <1>1 DEF Fires
  <2> HIDE DEF f
  <2> QED
    BY <1>2, <2>1, <2>2, MoveOrders DEF f
<1>13. CASE TurnedAway(t)
  <2>1. f.at # "idle" /\ Goes(t, Returned(f)) /\ Still
    BY <1>13 DEF TurnedAway, At
  <2>2. Returned(f).e = f.e
    BY <1>1 DEF Returned, Fires
  <2> HIDE DEF f
  <2> QED
    BY <1>2, <2>1, <2>2, MoveOrders DEF f
<1> QED
  BY <1>5, <1>6, <1>7, <1>8, <1>9, <1>10, <1>11, <1>12, <1>13

\* An event that is fired is the last of its thread.
LEMMA BeginOrders ==
  ASSUME OrderInv, IInv', NEW t \in Threads, NEW a \in Apis, Begin(t, a)
  PROVE  OrderInv' /\ InItsOrder
<1> DEFINE e == fired + 1
           new == [thread |-> t, api |-> a, must |-> Audience(a), held |-> Audience(a),
                   cut |-> {}, aborted |-> FALSE]
           f == Begun(a, e)
<1>1. /\ fired' = e /\ fire' = [fire EXCEPT ![t] = f] /\ event' = [event EXCEPT ![e] = new]
      /\ UNCHANGED <<queue, timers, heard>> /\ fired < MaxEvents
  BY DEF Begin, Goes
<1>2. /\ IInv /\ LastOfThread /\ Orderly(heard, queue, timers)
      /\ fired \in Nat /\ fire \in [Threads -> Fires]
      /\ event \in [Events -> History] /\ 1..fired \subseteq Events
      /\ CallsHeld(queue) /\ CallsHeld(timers) /\ \A d \in Events : d > fired => heard[d] = {}
  BY ConsequencesOfIInv DEF OrderInv, TypeOK, IInv
<1>3. e \in Events /\ e > fired /\ e \in Nat
  BY <1>1, <1>2, EventsAssumption DEF Events
<1>4. f.at = "begun" /\ f.e = e
  BY DEF Begun
<1>5. new.thread = t
  OBVIOUS
<1>6. \A d \in 1..fired' : d = e \/ d \in 1..fired
  BY <1>1, <1>2
<1>13. \A d \in 1..fired : d <= e
  BY <1>2
<1> HIDE DEF e, f, new
<1>7. event'[e].thread = t /\ \A d \in 1..fired : event'[d] = event[d]
  BY <1>1, <1>2, <1>3, <1>5
<1>8. fire'[t] = f /\ \A u \in Threads : u # t => fire'[u] = fire[u]
  BY <1>1, <1>2
<1>9. LastOfThread'
  <2> SUFFICES ASSUME NEW u \in Threads, (fire[u].at # "idle")'
               PROVE  (/\ event[fire[u].e].thread = u
                       /\ \A d \in 1..fired : event[d].thread = u => d <= fire[u].e)'
    BY DEF LastOfThread
  <2>1. CASE u = t
    BY <1>3, <1>4, <1>6, <1>7, <1>8, <1>13, <2>1
  <2>2. CASE u # t
    <3>1. fire'[u] = fire[u] /\ fire[u].at # "idle"
      BY <1>8, <2>2
    <3>2. /\ fire[u].e \in 1..fired /\ event[fire[u].e].thread = u
          /\ \A d \in 1..fired : event[d].thread = u => d <= fire[u].e
      BY <1>2, <3>1, AtPlace DEF LastOfThread
    <3> QED
      BY <1>6, <1>7, <2>2, <3>1, <3>2
  <2> QED
    BY <2>1, <2>2
<1>10. ThreadsKept
  BY <1>7 DEF ThreadsKept
<1>11. \A d \in 1..fired' : d > fired => heard'[d] = {}
  BY <1>1, <1>2, <1>3, <1>6
<1>12. Orderly(heard, queue, timers)'
  <2>1. /\ \A q \in Pages : \A i \in 1..Len(queue'[q]) : queue'[q][i].e \in 1..fired
        /\ \A q \in Pages : \A i \in 1..Len(timers'[q]) : timers'[q][i].e \in 1..fired
    BY <1>1, <1>2 DEF CallsHeld
  <2>2. fired' \in Nat /\ fired' >= fired /\ Orderly(heard', queue', timers')
    BY <1>1, <1>2, <1>3
  <2> QED
    BY <1>2, <1>10, <1>11, <2>1, <2>2, OrderlyPrimed
<1> QED
  BY <1>1, <1>9, <1>12, NothingHeard DEF OrderInv

\* What pages and plugin change leaves the order of calls, or drops them.
LEMMA ChangesOrder ==
  ASSUME OrderInv, IInv', Registering \/ Proxying \/ Closing
  PROVE  OrderInv' /\ InItsOrder
<1>1. /\ IInv /\ LastOfThread /\ Orderly(heard, queue, timers) /\ TypeOK
      /\ queue \in [Pages -> Seq(Calls)] /\ timers \in [Pages -> Seq(Calls)]
      /\ 1..fired \subseteq Events
  BY ConsequencesOfIInv DEF OrderInv, TypeOK
<1>2. ASSUME ThreadsKept, UNCHANGED <<fire, fired, heard>>,
             \A q \in Pages : queue'[q] = queue[q] \/ queue'[q] = <<>>,
             \A q \in Pages : timers'[q] = timers[q] \/ timers'[q] = <<>>
      PROVE  OrderInv' /\ InItsOrder
  <2>1. Thinned(queue', queue) /\ Thinned(timers', timers)
    BY <1>2, EmptiedThinned
  <2>2. Orderly(heard', queue', timers')
    BY <1>1, <1>2, <2>1, ThinnedOrderly
  <2>3. Orderly(heard, queue, timers)' /\ LastOfThread'
    BY <1>1, <1>2, <2>2, OrderlyNext, LastKept
  <2> QED
    BY <1>2, <2>3, NothingHeard DEF OrderInv
<1>3. ASSUME Changed PROVE ThreadsKept /\ UNCHANGED <<fire, fired, heard>>
  <2>1. \A e \in Events : Firing(e) => event[e].api \in Apis
    BY <1>1, AtPlace DEF Placed, Firing
  <2> QED
    BY <1>1, <1>3, <2>1, NotedMust DEF Changed, ThreadsKept
<1>4. ASSUME Quiet PROVE OrderInv' /\ InItsOrder
  BY <1>2, <1>3, <1>4 DEF Quiet
<1>5. CASE Registering
  BY <1>4, <1>5 DEF Registering, AddListener, RemoveListener, SetAttribute
<1>6. CASE Proxying
  BY <1>4, <1>6 DEF Proxying, CreateWeak, CreateShared, ChangeObject, Reset, Release
<1>7. ASSUME NEW o \in Objects, Invalidate(o) PROVE OrderInv' /\ InItsOrder
  BY <1>4, <1>7 DEF Invalidate
<1>8. ASSUME NEW q \in Pages, ShutPage(q) PROVE OrderInv' /\ InItsOrder
  <2>1. Changed
    BY <1>8 DEF ShutPage
  <2>2. /\ \A p \in Pages : queue'[p] = queue[p] \/ queue'[p] = <<>>
        /\ \A p \in Pages : timers'[p] = timers[p] \/ timers'[p] = <<>>
    BY <1>1, <1>8 DEF ShutPage
  <2> QED
    BY <1>2, <1>3, <2>1, <2>2
<1>9. ASSUME NEW q \in Pages, DrainEnds(q) \/ HostGone(q) PROVE OrderInv' /\ InItsOrder
  <2>1. UNCHANGED <<fire, queue, timers, event, fired, heard>>
    BY <1>9 DEF DrainEnds, HostGone
  <2> QED
    BY <1>2, <2>1 DEF ThreadsKept
<1> QED
  BY <1>5, <1>6, <1>7, <1>8, <1>9 DEF Closing

LEMMA NextOrders ==
  ASSUME OrderInv, [Next]_vars
  PROVE  OrderInv' /\ [InItsOrder]_vars
<1>1. IInv'
  BY NextKeeps DEF OrderInv
<1>2. CASE Registering \/ Proxying \/ Closing
  BY <1>1, <1>2, ChangesOrder
<1>3. ASSUME NEW q \in Pages, Deliver(q) \/ Timer(q) PROVE OrderInv' /\ InItsOrder
  BY <1>1, <1>3, DeliverOrders, TimerOrders
<1>4. ASSUME NEW t \in Threads, NEW a \in Apis, Begin(t, a) PROVE OrderInv' /\ InItsOrder
  BY <1>1, <1>4, BeginOrders
<1>5. ASSUME NEW t \in Threads, FireStep(t) PROVE OrderInv' /\ InItsOrder
  BY <1>1, <1>5, MovesOrder, ScheduleOrders, FireAttributeOrders, CallNowOrders DEF FireStep
<1>6. CASE UNCHANGED vars
  <2>1. /\ IInv /\ LastOfThread /\ Orderly(heard', queue', timers') /\ ThreadsKept
        /\ UNCHANGED <<fire, fired>>
    BY <1>6 DEF OrderInv, vars, ThreadsKept
  <2>2. Orderly(heard, queue, timers)' /\ LastOfThread'
    BY <1>1, <2>1, OrderlyNext, LastKept
  <2> QED
    BY <1>1, <1>6, <2>2 DEF OrderInv
<1> QED
  BY <1>2, <1>3, <1>4, <1>5, <1>6 DEF Next

\* The invariant behind HeardInOrder.
THEOREM OrderHolds == Spec => []OrderInv
<1>1. Init => OrderInv
  <2> SUFFICES ASSUME Init PROVE OrderInv
    OBVIOUS
  <2>1. IInv
    BY InitKeeps
  <2>2. LastOfThread
    BY EventsAssumption DEF Init, LastOfThread, NotFiring
  <2>3. Len(<<>>) = 0 /\ \A q \in Pages : queue[q] = <<>> /\ timers[q] = <<>>
    BY DEF Init
  <2>4. Orderly(heard, queue, timers)
    BY <2>3 DEF Orderly, AtHome, NoneAtOnce, MainQueuesAttributes, InOrder, TimersFirst, HeardFirst
  <2> QED
    BY <2>1, <2>2, <2>4 DEF OrderInv
<1>2. OrderInv /\ [Next]_vars => OrderInv'
  BY NextOrders
<1> QED
  BY <1>1, <1>2, PTL DEF Spec

\* The events that a thread fires come to each handler in that order, be it
\* called at once, by the page's queue or by one of its timers (FireEvent,
\* NPJavascriptObject::InvokeAsync, the browser's setTimeout).
THEOREM EventsComeInOrder == Spec => HeardInOrder
<1>1. OrderInv /\ [Next]_vars => [InItsOrder]_vars
  BY NextOrders
<1> QED
  BY <1>1, OrderHolds, PTL DEF Spec, HeardInOrder, InItsOrder

=============================================================================
