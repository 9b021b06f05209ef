---------------------------- MODULE ScriptEvents ----------------------------
(***************************************************************************)
(* The events of script objects: the handlers of one event in JSAPIImpl    *)
(* and JSAPIAuto, the JSAPIProxy objects that pass an object's events on,  *)
(* and the way of a call from FireEvent to the page's handler.             *)
(*                                                                         *)
(* FireEvent may be called on any thread.  It works on copies of the       *)
(* handlers, one page (event context) after the other, so that handlers    *)
(* come and go and pages are closed between its steps.  A call for a page  *)
(* goes through the browser's queue to the main thread, and through the    *)
(* page's timers to its functions; an object of the plugin's that was      *)
(* registered as a handler is called on the way, and may throw (that it    *)
(* changes nothing here is taken for granted).                             *)
(***************************************************************************)
EXTENDS Naturals, Sequences

CONSTANTS
  Apis,        \* the plugin's script objects (JSAPIAuto)
  Proxies,     \* JSAPIProxy objects
  Pages,       \* pages, each with its host: the event contexts
  Handlers,    \* what pages register as handlers
  Methods,     \* the handlers that are objects of the plugin's
  PageOf,      \* the page of a handler
  Shown,       \* the objects that a page's scripts have
  Threads,     \* the threads that call FireEvent,
  Main,        \* one of which is the main thread
  None,        \* no object, no handler
  MaxEvents,   \* bound on the events fired
  MaxChanges   \* bound on what pages and plugin change

ASSUME EventsAssumption ==
  /\ Apis \cap Proxies = {} /\ None \notin Apis \cup Proxies \cup Handlers
  /\ Methods \subseteq Handlers /\ PageOf \in [Handlers -> Pages]
  /\ Main \in Threads /\ MaxEvents \in Nat /\ MaxChanges \in Nat

VARIABLES
  listeners,   \* m_eventMap of each object: the handlers of the event
  attribute,   \* the attribute named as the event, of each api
  proxy,       \* each proxy: whether it lives, its object, whether it follows it
  listed,      \* m_proxies of each object
  valid,       \* m_valid of each api
  page,        \* each page: open, its host draining, shut down, gone
  fire,        \* where each thread is in FireEvent
  queue,       \* the calls scheduled with each page's host
  timers,      \* the timers of each page, in the order in which they fire
  event,       \* history: each event, and the handlers it is and may be for
  fired,       \* history: events fired
  heard,       \* history: the handlers that were called for each event
  changes,     \* changes made so far
  overflow     \* has FireEvent called itself for ever?

registry == <<listeners, attribute, proxy, listed, valid, page>>
vars == <<registry, fire, queue, timers, event, fired, heard, changes, overflow>>

Objects == Apis \cup Proxies
Events == 1..MaxEvents

\* A handler as it is registered: with which object, and how.
Registrations == [at : Objects, how : {"listener", "attribute"}, handler : Handlers]

Listener(o, h) == [at |-> o, how |-> "listener", handler |-> h]
Attribute(a, h) == [at |-> a, how |-> "attribute", handler |-> h]

Home(r) == PageOf[r.handler]

\* begun: m_valid was true; proxies: m_proxyMutex is held, left are the proxies
\* to come; calls: copy is what obj has registered, pages the contexts to come;
\* call: isValid has said yes to the handlers of page; post: and its host, that
\* it is not shut down.
Fires ==
  [at : {"idle", "begun", "proxies", "calls", "call", "post"},
   api : Apis \cup {None}, obj : Objects \cup {None}, e : 0..MaxEvents,
   left : SUBSET Proxies, copy : SUBSET Handlers,
   pages : SUBSET Pages, page : Pages \cup {None}]

NotFiring == [at |-> "idle", api |-> None, obj |-> None, e |-> 0,
              left |-> {}, copy |-> {}, pages |-> {}, page |-> None]

Calls == [e : Events, to : SUBSET Registrations]

\* must and held: who was attached all the while, and at some time, while the
\* event was fired; cut: the pages of which a call has ended early; aborted:
\* an exception has ended the FireEvent of an object early.
History == [thread : Threads, api : Apis \cup {None}, must : SUBSET Registrations,
            held : SUBSET Registrations, cut : SUBSET Pages, aborted : BOOLEAN]

TypeOK ==
  /\ listeners \in [Objects -> SUBSET Handlers]
  /\ attribute \in [Apis -> Handlers \cup {None}]
  /\ proxy \in [Proxies -> [state : {"none", "live", "dead"}, inner : Apis \cup {None},
                            follows : BOOLEAN]]
  /\ listed \in [Objects -> SUBSET Proxies]
  /\ valid \in [Apis -> BOOLEAN]
  /\ page \in [Pages -> {"open", "draining", "shut", "gone"}]
  /\ fire \in [Threads -> Fires]
  /\ queue \in [Pages -> Seq(Calls)] /\ timers \in [Pages -> Seq(Calls)]
  /\ event \in [Events -> History]
  /\ fired \in 0..MaxEvents /\ changes \in 0..MaxChanges /\ overflow \in BOOLEAN
  /\ heard \in [Events -> SUBSET Registrations]

Init ==
  /\ listeners = [o \in Objects |-> {}]
  /\ attribute = [a \in Apis |-> None]
  /\ proxy = [p \in Proxies |-> [state |-> "none", inner |-> None, follows |-> FALSE]]
  /\ listed = [o \in Objects |-> {}]
  /\ valid = [a \in Apis |-> TRUE]
  /\ page = [q \in Pages |-> "open"]
  /\ fire = [t \in Threads |-> NotFiring]
  /\ queue = [q \in Pages |-> <<>>]
  /\ timers = [q \in Pages |-> <<>>]
  /\ event = [e \in Events |-> [thread |-> Main, api |-> None, must |-> {}, held |-> {},
                                cut |-> {}, aborted |-> FALSE]]
  /\ fired = 0
  /\ heard = [e \in Events |-> {}]
  /\ changes = 0
  /\ overflow = FALSE

-----------------------------------------------------------------------------
(* Whom an event is for.                                                   *)

Live(p) == proxy[p].state = "live"

\* A proxy that passes on the events of a.
Follows(p, a) == Live(p) /\ proxy[p].inner = a /\ proxy[p].follows

\* The handlers attached to an api, at itself and at the proxies that follow it.
Audience(a) ==
  {r \in Registrations :
     \/ r.how = "listener" /\ r.handler \in listeners[r.at]
        /\ (r.at = a \/ (r.at \in Proxies /\ Follows(r.at, a)))
     \/ r.how = "attribute" /\ r.at = a /\ r.handler = attribute[a]}

Firing(e) == \E t \in Threads : fire[t].at # "idle" /\ fire[t].e = e

\* History: an event that is being fired must reach those who are attached all
\* the while, and may reach those who are at some time.
Noted ==
  LET now == [a \in Apis |-> Audience(a)']
  IN event' = [e \in Events |->
       IF Firing(e)
         THEN [event[e] EXCEPT !.must = @ \cap now[event[e].api],
                               !.held = @ \cup now[event[e].api]]
         ELSE event[e]]

-----------------------------------------------------------------------------
(* What pages and plugin do, on the main thread.                           *)

MainFree == fire[Main].at = "idle" /\ ~overflow

\* NPP_Destroy of a page runs what was scheduled with its host; what these
\* functions do, the plugin does: it fires events and changes its proxies.
Draining == \E q \in Pages : page[q] = "draining"

\* m_proxyMutex is held from the first proxy of a FireEvent to the last.
Locked(o) ==
  \E t \in Threads : fire[t].at \notin {"idle", "begun"} /\ fire[t].api = o /\ fire[t].obj # o

MayChange == MainFree /\ changes < MaxChanges

Changed ==
  /\ changes' = changes + 1 /\ Noted
  /\ UNCHANGED <<fire, fired, heard, overflow>>

Quiet == Changed /\ UNCHANGED <<queue, timers>>

\* A page's script has the object and a handler of its own.
MayRegister(o, h) ==
  /\ MayChange /\ ~Draining /\ page[PageOf[h]] = "open" /\ o \in Shown[PageOf[h]]
  /\ o \in Proxies => Live(o)

\* registerEventMethod.
AddListener(o, h) ==
  /\ MayRegister(o, h) /\ h \notin listeners[o]
  /\ listeners' = [listeners EXCEPT ![o] = @ \cup {h}]
  /\ UNCHANGED <<attribute, proxy, listed, valid, page>> /\ Quiet

\* unregisterEventMethod.
RemoveListener(o, h) ==
  /\ MayRegister(o, h) /\ h \in listeners[o]
  /\ listeners' = [listeners EXCEPT ![o] = @ \ {h}]
  /\ UNCHANGED <<attribute, proxy, listed, valid, page>> /\ Quiet

\* SetProperty of the event's name, with a handler or without; a proxy hands it
\* to its object.
SetAttribute(q, a, h) ==
  /\ MayChange /\ ~Draining
  /\ page[q] = "open" /\ valid[a] /\ (h # None => PageOf[h] = q)
  /\ a \in Shown[q] \/ \E p \in Proxies \cap Shown[q] : Live(p) /\ proxy[p].inner = a
  /\ attribute[a] # h
  /\ attribute' = [attribute EXCEPT ![a] = h]
  /\ UNCHANGED <<listeners, proxy, listed, valid, page>> /\ Quiet

\* create of a weak pointer registers the proxy with the object ...
CreateWeak(p, a) ==
  /\ MayChange /\ proxy[p].state = "none" /\ ~Locked(a)
  /\ proxy' = [proxy EXCEPT ![p] = [state |-> "live", inner |-> a, follows |-> TRUE]]
  /\ listed' = [listed EXCEPT ![a] = @ \cup {p}]
  /\ UNCHANGED <<listeners, attribute, valid, page>> /\ Quiet

\* ... and of a shared one with itself.
CreateShared(p, a) ==
  /\ MayChange /\ proxy[p].state = "none"
  /\ proxy' = [proxy EXCEPT ![p] = [state |-> "live", inner |-> a, follows |-> FALSE]]
  /\ listed' = [listed EXCEPT ![p] = {p}]
  /\ UNCHANGED <<listeners, attribute, valid, page>> /\ Quiet

\* unregisterProxy also drops the proxies that are gone.
Unlisted(o, p) == {d \in listed[o] : Live(d) /\ d # p}

\* Mutant: the proxy is not unregistered from the object it had.
ChangeObjectKept(p, b) ==
  /\ MayChange /\ Live(p) /\ ~Locked(b) /\ ~Locked(proxy[p].inner)
  /\ proxy' = [proxy EXCEPT ![p].inner = b, ![p].follows = b # None]
  /\ listed' = [o \in Objects |-> listed[o] \cup (IF o = b THEN {p} ELSE {})]
  /\ UNCHANGED <<listeners, attribute, valid, page>> /\ Quiet

\* changeObject to another object, or to none.
ChangeObject(p, b) ==
  /\ MayChange /\ Live(p) /\ ~Locked(b) /\ ~Locked(proxy[p].inner)
  /\ proxy' = [proxy EXCEPT ![p].inner = b, ![p].follows = b # None]
  /\ listed' = [o \in Objects |->
       (IF o = proxy[p].inner THEN Unlisted(o, p) ELSE listed[o])
         \cup (IF o = b THEN {p} ELSE {})]
  /\ UNCHANGED <<listeners, attribute, valid, page>> /\ Quiet

\* Mutant: reset leaves the proxy in the object's list.
ResetKept(p) ==
  /\ MayChange /\ Live(p) /\ proxy[p].inner # None /\ ~Locked(proxy[p].inner)
  /\ proxy' = [proxy EXCEPT ![p].follows = FALSE]
  /\ UNCHANGED <<listeners, attribute, listed, valid, page>> /\ Quiet

\* reset: no events any more, but it keeps its object.
Reset(p) ==
  /\ MayChange /\ Live(p) /\ proxy[p].inner # None /\ ~Locked(proxy[p].inner)
  /\ proxy' = [proxy EXCEPT ![p].follows = FALSE]
  /\ listed' = [listed EXCEPT ![proxy[p].inner] = Unlisted(proxy[p].inner, p)]
  /\ UNCHANGED <<listeners, attribute, valid, page>> /\ Quiet

\* The last reference to a proxy goes: its entry stays and is found empty.
Release(p) ==
  /\ MayChange /\ Live(p)
  /\ proxy' = [proxy EXCEPT ![p].state = "dead"]
  /\ UNCHANGED <<listeners, attribute, listed, valid, page>> /\ Quiet

\* The browser invalidates a wrapper; a proxy invalidates its object.
Invalidate(o) ==
  /\ MayChange /\ ~Draining
  /\ LET a == IF o \in Proxies THEN proxy[o].inner ELSE o
     IN /\ o \in Proxies => Live(o)
        /\ a \in Apis /\ valid[a]
        /\ valid' = [valid EXCEPT ![a] = FALSE]
  /\ UNCHANGED <<listeners, attribute, proxy, listed, page>> /\ Quiet

\* NPP_Destroy shuts the host down, which takes the list of its calls and runs
\* them: those that are here have no effect, for the browser's functions are
\* zeroed; the page's timers are gone with it.
ShutPage(q) ==
  /\ MayChange /\ ~Draining /\ page[q] = "open"
  /\ page' = [page EXCEPT ![q] = "draining"]
  /\ queue' = [queue EXCEPT ![q] = <<>>]
  /\ timers' = [timers EXCEPT ![q] = <<>>]
  /\ UNCHANGED <<listeners, attribute, proxy, listed, valid>> /\ Changed

\* The functions have run, and the list is free again.
DrainEnds(q) ==
  /\ MainFree /\ page[q] = "draining" /\ page' = [page EXCEPT ![q] = "shut"]
  /\ UNCHANGED <<listeners, attribute, proxy, listed, valid, fire, queue, timers,
                 event, fired, heard, changes, overflow>>

\* The last reference to the host goes, on any thread; who schedules with it
\* has one.
HostGone(q) ==
  /\ page[q] = "shut" /\ \A t \in Threads : fire[t].at = "post" => fire[t].page # q
  /\ page' = [page EXCEPT ![q] = "gone"]
  /\ UNCHANGED <<listeners, attribute, proxy, listed, valid, fire, queue, timers,
                 event, fired, heard, changes, overflow>>

-----------------------------------------------------------------------------
(* Calls on the main thread.                                               *)

\* What callMultipleFunctions may reach of a page's handlers: all, none if the
\* delegate is missing, or those up to an object of the plugin's that throws.
Reached(to, thrown) ==
  IF ~thrown THEN {to}
  ELSE {{}} \cup {some \in SUBSET to : \E r \in some : r.handler \in Methods}

\* Objects of the plugin's are called at once, functions by a timer.
AtOnce(r) == r.how = "listener" /\ r.handler \in Methods

\* Mutant: a later call gets ahead of those whose timers are pending.
RunFirst(e, q, some) ==
  LET later == {r \in some : ~AtOnce(r)}
  IN /\ heard' = [heard EXCEPT ![e] = @ \cup {r \in some : AtOnce(r)}]
     /\ timers' = [timers EXCEPT ![q] =
                    IF later = {} THEN @ ELSE <<[e |-> e, to |-> later]>> \o @]

Run(e, q, some) ==
  LET later == {r \in some : ~AtOnce(r)}
  IN /\ heard' = [heard EXCEPT ![e] = @ \cup {r \in some : AtOnce(r)}]
     /\ timers' = [timers EXCEPT ![q] =
                    IF later = {} THEN @ ELSE Append(@, [e |-> e, to |-> later])]

\* The browser delivers a call that was scheduled.
Deliver(q) ==
  /\ MainFree /\ ~Draining /\ queue[q] # <<>>
  /\ queue' = [queue EXCEPT ![q] = Tail(@)]
  /\ LET c == Head(queue[q])
     IN \E thrown \in BOOLEAN : \E some \in Reached(c.to, thrown) :
          /\ Run(c.e, q, some)
          /\ event' = [event EXCEPT ![c.e].cut = IF thrown THEN @ \cup {q} ELSE @]
  /\ UNCHANGED <<registry, fire, fired, changes, overflow>>

\* A timer of the page's calls a function.
Timer(q) ==
  /\ MainFree /\ ~Draining /\ timers[q] # <<>>
  /\ LET c == Head(timers[q])
     IN \E r \in c.to :
          /\ heard' = [heard EXCEPT ![c.e] = @ \cup {r}]
          /\ timers' = [timers EXCEPT ![q] =
               IF c.to = {r} THEN Tail(@) ELSE [@ EXCEPT ![1] = [c EXCEPT !.to = @ \ {r}]]]
  /\ UNCHANGED <<registry, fire, queue, event, fired, changes, overflow>>

-----------------------------------------------------------------------------
(* FireEvent.                                                              *)

At(t, place) == ~overflow /\ fire[t].at = place

Goes(t, f) == fire' = [fire EXCEPT ![t] = f]

Still == UNCHANGED <<queue, timers, event, fired, heard, changes>>

Begun(a, e) == [at |-> "begun", api |-> a, obj |-> None, e |-> e,
                left |-> {}, copy |-> {}, pages |-> {}, page |-> None]

\* It looks at m_valid.
Begin(t, a) ==
  /\ At(t, "idle") /\ valid[a] /\ fired < MaxEvents
  /\ fired' = fired + 1
  /\ Goes(t, Begun(a, fired + 1))
  /\ event' = [event EXCEPT ![fired + 1] =
                 [thread |-> t, api |-> a, must |-> Audience(a), held |-> Audience(a),
                  cut |-> {}, aborted |-> FALSE]]
  /\ UNCHANGED <<registry, queue, timers, heard, changes, overflow>>

\* It locks the list of proxies.
LockProxies(t) ==
  /\ At(t, "begun") /\ ~Locked(fire[t].api)
  /\ Goes(t, [fire[t] EXCEPT !.at = "proxies", !.left = listed[fire[t].api]])
  /\ Still /\ UNCHANGED <<registry, overflow>>

\* fireAsyncEvent copies the handlers of o.
Copied(f, o) ==
  [at |-> "calls", api |-> f.api, obj |-> o, e |-> f.e, left |-> f.left \ {o},
   copy |-> listeners[o], pages |-> {PageOf[h] : h \in listeners[o]}, page |-> None]

\* Mutant: the loop goes on without erasing the entry or passing it.
ErasesProxyNot(t, p) ==
  /\ At(t, "proxies") /\ p \in fire[t].left /\ ~Live(p)
  /\ Goes(t, fire[t])
  /\ Still /\ UNCHANGED <<registry, overflow>>

\* The next proxy is gone: its entry is erased.
ErasesProxy(t, p) ==
  /\ At(t, "proxies") /\ p \in fire[t].left /\ ~Live(p)
  /\ listed' = [listed EXCEPT ![fire[t].api] = @ \ {p}]
  /\ Goes(t, [fire[t] EXCEPT !.left = @ \ {p}])
  /\ Still /\ UNCHANGED <<listeners, attribute, proxy, valid, page, overflow>>

\* The next proxy is told; one that is registered with itself tells itself, and
\* so on until the stack is full.
TellsProxy(t, p) ==
  /\ At(t, "proxies") /\ p \in fire[t].left /\ Live(p)
  /\ Goes(t, Copied(fire[t], p))
  /\ overflow' = (p \in listed[p])
  /\ Still /\ UNCHANGED registry

\* The proxies have been told: the lock is released, the object is next.
OwnHandlers(t) ==
  /\ At(t, "proxies") /\ fire[t].left = {}
  /\ Goes(t, Copied(fire[t], fire[t].api))
  /\ Still /\ UNCHANGED <<registry, overflow>>

\* Mutant: the first page with handlers ends the loop over the pages.
NextPageOnly(t, q) ==
  /\ At(t, "calls") /\ q \in fire[t].pages
  /\ Goes(t, IF page[q] = "gone"
               THEN [fire[t] EXCEPT !.pages = @ \ {q}]
               ELSE [fire[t] EXCEPT !.at = "call", !.page = q, !.pages = {}])
  /\ Still /\ UNCHANGED <<registry, overflow>>

\* The next page; one whose host is gone has no valid handlers.
NextPage(t, q) ==
  /\ At(t, "calls") /\ q \in fire[t].pages
  /\ Goes(t, IF page[q] = "gone"
               THEN [fire[t] EXCEPT !.pages = @ \ {q}]
               ELSE [fire[t] EXCEPT !.at = "call", !.page = q, !.pages = @ \ {q}])
  /\ Still /\ UNCHANGED <<registry, overflow>>

Called(f) == {Listener(f.obj, h) : h \in {h \in f.copy : PageOf[h] = f.page}}

Returned(f) == [f EXCEPT !.at = "calls", !.page = None]

\* An object has been told; after a proxy the next one comes.
Told(f) ==
  IF f.obj = f.api THEN NotFiring
  ELSE [f EXCEPT !.at = "proxies", !.obj = None, !.copy = {}, !.pages = {}, !.page = None]

\* The page went after it was seen: script_error if its host is gone, and
\* FireEvent of this object catches it; any other exception leaves FireEvent.
CallFails(t) ==
  /\ At(t, "call")
  /\ page[fire[t].page] = "gone" \/ (page[fire[t].page] # "open" /\ t = Main)
  /\ \/ page[fire[t].page] = "gone" /\ Goes(t, Told(fire[t]))
     \/ Goes(t, NotFiring)
  /\ event' = [event EXCEPT ![fire[t].e].aborted = TRUE]
  /\ UNCHANGED <<registry, queue, timers, fired, heard, changes, overflow>>

\* Off the main thread the call is scheduled: a host that is shut down says no,
TurnedAway(t) ==
  /\ At(t, "call") /\ t # Main /\ page[fire[t].page] \in {"draining", "shut"}
  /\ Goes(t, Returned(fire[t]))
  /\ Still /\ UNCHANGED <<registry, overflow>>

\* and one that is not
PassTest(t) ==
  /\ At(t, "call") /\ t # Main /\ page[fire[t].page] = "open"
  /\ Goes(t, [fire[t] EXCEPT !.at = "post"])
  /\ Still /\ UNCHANGED <<registry, overflow>>

\* puts the call on its list, which a drain holds; the browser is asked if the
\* host has not been shut down meanwhile.
Schedule(t) ==
  /\ At(t, "post") /\ t # Main /\ page[fire[t].page] # "draining"
  /\ Goes(t, Returned(fire[t]))
  /\ queue' = [queue EXCEPT ![fire[t].page] =
       IF page[fire[t].page] = "open"
         THEN Append(@, [e |-> fire[t].e, to |-> Called(fire[t])]) ELSE @]
  /\ UNCHANGED <<registry, timers, event, fired, heard, changes, overflow>>

\* On the main thread the handlers are called, and what they throw ends the
\* calls of the object.
CallNow ==
  LET f == fire[Main]
  IN /\ At(Main, "call") /\ page[f.page] = "open"
     /\ \E thrown \in BOOLEAN : \E some \in Reached(Called(f), thrown) :
          /\ Run(f.e, f.page, some)
          /\ Goes(Main, IF thrown THEN Told(f) ELSE Returned(f))
          /\ event' = [event EXCEPT ![f.e].aborted = @ \/ thrown]
     /\ UNCHANGED <<registry, queue, fired, changes, overflow>>

ProxyTold(t) ==
  /\ At(t, "calls") /\ fire[t].pages = {} /\ fire[t].obj \in Proxies
  /\ Goes(t, Told(fire[t]))
  /\ Still /\ UNCHANGED <<registry, overflow>>

\* JSAPIAuto::fireAsyncEvent: the attribute's handler is invoked by a call of
\* its own, and what that throws is caught.
FireAttribute(t) ==
  LET h == attribute[fire[t].api]
  IN /\ At(t, "calls") /\ fire[t].pages = {} /\ fire[t].obj = fire[t].api
     /\ Goes(t, Told(fire[t]))
     /\ queue' = IF h # None /\ page[PageOf[h]] = "open"
                   THEN [queue EXCEPT ![PageOf[h]] =
                           Append(@, [e |-> fire[t].e, to |-> {Attribute(fire[t].api, h)}])]
                   ELSE queue
     /\ UNCHANGED <<registry, timers, event, fired, heard, changes, overflow>>

FireStep(t) ==
  \/ LockProxies(t) \/ OwnHandlers(t) \/ CallFails(t)
  \/ TurnedAway(t) \/ PassTest(t) \/ Schedule(t)
  \/ ProxyTold(t) \/ FireAttribute(t) \/ (t = Main /\ CallNow)
  \/ \E p \in Proxies : ErasesProxy(t, p) \/ TellsProxy(t, p)
  \/ \E q \in Pages : NextPage(t, q)

-----------------------------------------------------------------------------

Registering ==
  \/ \E o \in Objects, h \in Handlers : AddListener(o, h) \/ RemoveListener(o, h)
  \/ \E q \in Pages, a \in Apis, h \in Handlers \cup {None} : SetAttribute(q, a, h)

Proxying ==
  \/ \E p \in Proxies, a \in Apis : CreateWeak(p, a) \/ CreateShared(p, a)
  \/ \E p \in Proxies, b \in Apis \cup {None} : ChangeObject(p, b)
  \/ \E p \in Proxies : Reset(p) \/ Release(p)

Closing ==
  \/ \E o \in Objects : Invalidate(o)
  \/ \E q \in Pages : ShutPage(q) \/ DrainEnds(q) \/ HostGone(q)

Next ==
  \/ Registering \/ Proxying \/ Closing
  \/ \E q \in Pages : Deliver(q) \/ Timer(q)
  \/ \E t \in Threads : FireStep(t) \/ \E a \in Apis : Begin(t, a)

Spec == Init /\ [][Next]_vars

\* A thread goes on with its FireEvent, the browser with calls and timers, and
\* NPP_Destroy, which runs each scheduled function once, with its drain.
FairSpec ==
  /\ Spec
  /\ \A t \in Threads : WF_vars(FireStep(t))
  /\ \A q \in Pages : WF_vars(Deliver(q)) /\ WF_vars(Timer(q)) /\ WF_vars(DrainEnds(q))

-----------------------------------------------------------------------------
(* Properties.                                                             *)

\* The event reaches no handler that was attached at no time while it was fired.
HeardWasAttached == \A e \in Events : heard[e] \subseteq event[e].held

\* A proxy that lives is in the list of the object it follows, and of no other.
ProxiesFollow ==
  \A p \in Proxies, a \in Apis : Live(p) => (p \in listed[a] <=> Follows(p, a))

\* Events of one thread come to a handler in the order in which they were fired.
HeardInOrder ==
  [][\A e \in 1..fired : \A r \in heard'[e] \ heard[e] :
       \A later \in (e + 1)..fired :
         event[later].thread = event[e].thread => r \notin heard[later]]_vars

\* All calls for the event have been made.
Over(e) ==
  /\ ~Firing(e) /\ e <= fired
  /\ \A q \in Pages : \A i \in 1..Len(queue[q]) : queue[q][i].e # e
  /\ \A q \in Pages : \A i \in 1..Len(timers[q]) : timers[q][i].e # e

\* "This fires an event to all handlers attached" (JSAPIImpl.h:101): when all
\* is over, who was attached all the while has heard the event, unless the page
\* was closed, the delegate or a handler of the same page failed, or, before
\* FireEvent came to it, another page was closed or a handler called on the
\* main thread threw.
AttachedHear ==
  ~overflow =>
    \A e \in Events : Over(e) =>
      \A r \in event[e].must :
        \/ r \in heard[e] \/ page[Home(r)] # "open"
        \/ Home(r) \in event[e].cut \/ event[e].aborted

\* The deadlock of the two locks: a drain holds the list of a host's calls and
\* has come to a function that fires an event of a (BrowserHost.cpp:303-308);
\* another thread, which tells a proxy of a's, holds m_proxyMutex of a
\* (JSAPIImpl.cpp:158) and waits for that list (BrowserHost.cpp:289).
DrainCycle ==
  \E t \in Threads \ {Main} :
    /\ fire[t].at = "post" /\ page[fire[t].page] = "draining"
    /\ fire[t].obj # fire[t].api
    /\ fire[Main].at = "begun" /\ fire[Main].api = fire[t].api

\* Each event is over some time, on every thread, whatever the pages do: again
\* and again all those fired so far are.  Nothing but the endless recursion of a
\* proxy registered with itself and the deadlock of a drain with a FireEvent on
\* another thread can keep one from ending.
EventsEnd == []<>(overflow \/ DrainCycle \/ \A e \in 1..fired : Over(e))

-----------------------------------------------------------------------------
(* The inductive invariant.                                                *)

\* A proxy that is listed with an object has been created.
ListedExist == \A a \in Apis : \A p \in listed[a] : proxy[p].state # "none"

\* Where a FireEvent is, of fire[t]: the event may reach all who are attached;
\* the proxies to come follow the object, for its list is locked; the handlers
\* that were copied were attached.
Placed(f) ==
  f.at # "idle" =>
    /\ f.api \in Apis /\ f.e \in 1..fired /\ event[f.e].api = f.api
    /\ Audience(f.api) \subseteq event[f.e].held
    /\ \A p \in f.left : proxy[p].state # "none" /\ (Live(p) => Follows(p, f.api))
    /\ f.left # {} => f.at # "begun" /\ f.obj # f.api
    /\ f.at \in {"begun", "proxies"} => f.obj = None
    /\ f.at \in {"calls", "call", "post"} =>
         f.obj \in Objects /\ \A h \in f.copy : Listener(f.obj, h) \in event[f.e].held
    /\ f.at \in {"call", "post"} => f.page \in Pages

\* Calls under way are for handlers that were attached.
CallsHeld(calls) ==
  \A q \in Pages : \A i \in 1..Len(calls[q]) :
    calls[q][i].e \in 1..fired /\ calls[q][i].to \subseteq event[calls[q][i].e].held

\* The invariant that the proofs use.
IInv ==
  /\ TypeOK /\ ProxiesFollow /\ ListedExist
  /\ \A t \in Threads : Placed(fire[t])
  /\ CallsHeld(queue) /\ CallsHeld(timers)
  /\ HeardWasAttached
  /\ \A e \in Events : e > fired => heard[e] = {}

-----------------------------------------------------------------------------
(* The inductive invariant behind AttachedHear, on top of IInv.            *)

\* The event of f is still to come to r: to its proxy, which waits in the list
\* that is locked; to the object's own handlers; or, of the handlers that were
\* copied, to those of r's page.
Ahead(f, r) ==
  \/ f.at = "begun"
  \/ r.at \in f.left
  \/ r.at = f.api /\ (f.obj # f.api \/ r.how = "attribute")
  \/ /\ r.how = "listener" /\ r.at = f.obj /\ r.handler \in f.copy
     /\ Home(r) \in f.pages \/ (f.at \in {"call", "post"} /\ f.page = Home(r))

\* A call of its page's has r in it.
Waits(calls, e, r) ==
  \E i \in 1..Len(calls[Home(r)]) : calls[Home(r)][i].e = e /\ r \in calls[Home(r)][i].to

\* Why an event that was for r all the while may not reach it.
Excused(e, r) == page[Home(r)] # "open" \/ Home(r) \in event[e].cut \/ event[e].aborted

\* A thread has yet to bring the event of e to r.
StillComes(e, r) ==
  \E t \in Threads : fire[t].at # "idle" /\ fire[t].e = e /\ Ahead(fire[t], r)

\* What has become of an event for a handler that must hear it.
Accounted(e, r) ==
  \/ r \in heard[e] \/ Excused(e, r)
  \/ Waits(queue, e, r) \/ Waits(timers, e, r) \/ StillComes(e, r)

\* While an event is fired, who must hear it is attached.
MustAreAttached ==
  \A t \in Threads :
    fire[t].at # "idle" => event[fire[t].e].must \subseteq Audience(fire[t].api)

\* No handler is lost on the way: one that must hear an event has heard it, is
\* in a call, is still ahead of the thread that fires it, or is excused.
NoneIsLost ==
  ~overflow => \A e \in 1..fired : \A r \in event[e].must : Accounted(e, r)

HearingInv == IInv /\ MustAreAttached /\ NoneIsLost

-----------------------------------------------------------------------------
(* The inductive invariant behind HeardInOrder, on top of IInv.            *)

\* Of one thread's events, that of c is not later than that of d for any
\* handler that both are for.
NotAfter(c, d) ==
  \A r \in c.to \cap d.to : event[c.e].thread = event[d.e].thread => c.e <= d.e

\* The calls of a page are in order.
InOrder(calls) ==
  \A q \in Pages : \A i, j \in 1..Len(calls[q]) : i < j => NotAfter(calls[q][i], calls[q][j])

\* What has left the queue for a timer was before what is still in it.
TimersFirst(later, calls) ==
  \A q \in Pages : \A i \in 1..Len(later[q]) : \A j \in 1..Len(calls[q]) :
    NotAfter(later[q][i], calls[q][j])

\* Whom a call is for has heard no later event of the same thread.
HeardFirst(past, calls) ==
  \A q \in Pages : \A i \in 1..Len(calls[q]) : \A d \in 1..fired :
    NotAfter([e |-> d, to |-> past[d]], calls[q][i])

\* A call is for handlers of its page.
AtHome(calls) ==
  \A q \in Pages : \A i \in 1..Len(calls[q]) : \A r \in calls[q][i].to : Home(r) = q

\* A timer calls no object of the plugin's, ...
NoneAtOnce(later) ==
  \A q \in Pages : \A i \in 1..Len(later[q]) : \A r \in later[q][i].to : ~AtOnce(r)

\* ... and of the main thread's events only the attribute's handler is queued.
MainQueuesAttributes(calls) ==
  \A q \in Pages : \A i \in 1..Len(calls[q]) : \A r \in calls[q][i].to :
    event[calls[q][i].e].thread = Main => r.how = "attribute"

\* Events, queue and timers come to each handler in the order of its thread.
Orderly(past, calls, later) ==
  /\ AtHome(calls) /\ AtHome(later) /\ NoneAtOnce(later) /\ MainQueuesAttributes(calls)
  /\ InOrder(calls) /\ InOrder(later) /\ TimersFirst(later, calls)
  /\ HeardFirst(past, calls) /\ HeardFirst(past, later)

\* The event that a thread is firing is its last.
LastOfThread ==
  \A t \in Threads : fire[t].at # "idle" =>
    /\ event[fire[t].e].thread = t
    /\ \A e \in 1..fired : event[e].thread = t => e <= fire[t].e

OrderInv == IInv /\ LastOfThread /\ Orderly(heard, queue, timers)

=============================================================================
