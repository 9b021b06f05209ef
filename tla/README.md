# ZigJS / FireBreath: a TLA+ model

The repository holds FireBreath, a C++ framework for browser plugins (`src/src`),
and ZigJS, a plugin built on it that brings depth-sensor data (OpenNI or the
Kinect SDK) to JavaScript (`src/projects/ZigJS`). The modules here model the
framework's threading and lifetime machinery, as it is bound to NPAPI browsers,
and the plugin's own logic. TLC checks them on small instances; TLAPS proves
their safety properties for every instance.

    tlc -config MCAsyncCalls.cfg MCAsyncCalls            # model-check
    tlapm AsyncCallsProofs.tla                           # prove

`PROJECT.json` lists the components, the runs, a mutant of the code for each
property (a plausible bug that makes the property fail), the source lines each
definition stands for, the findings, the hazards and the theorems.

## The system

A plugin library serves several pages ("instances"). The browser calls it on
one *main thread*. The plugin has a second thread, the *io thread* of
`TimerService`, and a framework user may start more. Everything that touches
the page must be on the main thread.

| Component | State it keeps | Operations | Correct when |
|---|---|---|---|
| Cross-thread calls: `BrowserHost`, `AsyncCallManager`, `CrossThreadCall` | `m_isShutDown`, `DataList`, `canceledDataList`, a mutex, condition and result per synchronous call | `ScheduleAsyncCall`, `ScheduleOnMainThread`, `CallOnMainThread`, `htmlLog`, delivery, `shutdown` | a call runs once or is refused, its data is deleted once, a waiting caller is woken |
| Lifetimes: `NpapiPluginModule`, `NPP_New`, `NPP_Destroy`, `ZigJS::s_hosts` | the module's count of instances, the holder of host and plugin, weak pointers to hosts | load, create, destroy, unload | nothing runs on what has been destroyed; what is closed is freed |
| Timers: `Timer`, `TimerService` | deadline timers, one io thread, shared by weak pointer | start, stop, expire, join | the callbacks end before the module does |
| Frame loop: `ZigJS::ReadFrame`, `ZigJSAPI` | `s_sensor`, `frameRestCount`, `wasSensorConnected`, the requested streams, `s_listeners`; each page's maps | `ReadFrame`, `AddListener`, `SetStreams`, status changes, events | each page knows the sensor's status, the maps fit the events, a lost sensor is reopened, not too often |
| OpenNI sensor: `SensorOpenNI` | the context, `s_activeInstance`, `m_error`, time of the last data, users, hands | open, first update, `ReadFrame`, user, pose, calibration and hand callbacks | one context at a time; the event data shows the scene; a silent sensor is given up |
| Script objects: `NPJavascriptObject`, `NPObjectAPI` | the browser's counts, `m_retainedObjects`, `m_cachedNPObject`, `m_deferredObjects` | give out, wrap, take back, register, release on any thread, shut down | references are given back once; what the page holds is alive |
| Events and proxies: `JSAPIImpl`, `JSAPIAuto`, `JSAPIProxy` | event maps by page, the attribute named as the event, `m_proxies`, `m_valid` | register, unregister, set, fire, pass on, change object, reset, invalidate | an event reaches who is attached while it is fired, in order, and nobody else; it ends |
| Watermark | token, try count, time of the last validation, `m_ok` | test, validate, invalidate, `IsOk` | the plugin works only while the mark is seen |
| Streams: `NpapiStream`, `BrowserStream`, its manager | a stream's NPStream, its flags, its reference to itself, who retains it | create, open, write, destroy, notify, close | it is there while the browser may call with it, its handler sees one life, it is freed when all are done |
| Stream observers: `SimpleStreamHelper`, handlers; `PluginEventSource` | weak observers in order; data received, callback, a reference to itself | attach, detach, send; get, post, answer | every request the browser took is answered, success means the whole |
| Kinect sensor, map encoding, `SafeQueue`, values and conversions, DOM, other hosts | | | see "Not modelled" |

How they interact:

* The io thread's `TimerCallback` takes the oldest live host of `s_hosts` and
  schedules `ReadFrame` on it (every 30 ms); `WatermarkTimerCB` schedules
  `WatermarkTest` (every 5 s). Both go through *cross-thread calls*.
* `ReadFrame` on the main thread reads the *sensor* and calls each listener's
  `onNewFrame` or `onStatusChange`, which fire events; the page's handlers run
  later, through `setTimeout`.
* An object's *event* goes to the handlers that pages registered with it and with
  the proxies that follow it, from whatever thread it is fired on; each page's
  handlers are called by its own host, over that host's cross-thread calls, and
  the page's functions then by its timers.
* A handler is an `NPObjectAPI`, and its *references* are counted by the
  browser; a thread that fires an event keeps copies of them and may be the last
  to let go.
* A *stream* is asked for through the host, which keeps it in its manager until
  it is completed; the browser reports through the plugin instance. `close()`
  calls the browser, and the browser calls back before it returns.
* `NPP_Destroy` shuts the host down (asynchronous calls are drained, retained
  objects are let go), deletes the plugin, which shuts the host down again, and
  drops the host, which others may still hold.

The hard behaviours are in the meetings of these: `NPP_Destroy` against a call
being scheduled or a timer callback in progress; a sensor that fails between two
frames; a page that is gone while the loop still lists it; two ways for a call's
data to be deleted; object destructors that set off one another; handlers that
come and go while an event is on its way; a stream that browser and plugin end at
the same time. `hazards` in `PROJECT.json` lists them at their lines.

## The modules

| Module | About | Proofs |
|---|---|---|
| `AsyncCalls` | cross-thread calls, step by step | `AsyncCallsProofs` |
| `OneShotCalls` | what `AsyncCalls` promises of a call: it runs at most once, and not after it is refused | its refinement is in `AsyncCallsProofs` |
| `PluginLifecycle` | module, instances, timers | `PluginLifecycleProofs` |
| `SensorFeed` | frame loop and pages | `SensorFeedProofs` |
| `OpenNISensor` | the sensor and its owners | `OpenNISensorProofs` |
| `ScriptObjects` | references between page and plugin | `ScriptObjectsProofs` |
| `ScriptEvents` | events, handlers, proxies | `ScriptEventsProofs` |
| `BrowserStreams` | streams, their manager and observers | `BrowserStreamsProofs` |
| `Watermark` | the mark's rounds against the clock | `WatermarkProofs` |
| `StreamLife` | what an observer sees of a stream, and when a helper may answer | its refinement is in `BrowserStreamsProofs` |

The MC modules instantiate them. Operators whose comment begins "Mutant:" are
changed copies of the definition after them; no specification uses them.

The modules overlap where the components meet, and each takes the other side as
its environment: `PluginLifecycle` has the io thread's calls with the same three
steps as `AsyncCalls` (the test, the registration, the second test), and a call
that the browser has as a reference that is delivered or drained; `SensorFeed` has
the sensor as `Valid()` and the result of `ReadFrame()`, which `OpenNISensor`
explains, and the timer as a step that comes again while a page is open, which
`PluginLifecycle` shows (`FramesKeepComing`). It has the answer of `IsOk()` as
`marked`, which `Watermark` explains; `onNewFrame`, `onStatusChange`, the setters
of the maps and `requestStreams` ask it, the properties that tell of the sensor,
points and hands do not. `ScriptEvents` has a scheduled call as an entry of the
page's queue that is delivered in order or dropped by the shutdown: a drained
call finds the browser's functions zeroed and does nothing there. The references
its handlers hold are the business of `ScriptObjects`.

### AsyncCalls

One variable per shared thing: `pc` is where each caller is, `dataList`,
`canceled` and `freed` are the lists of `AsyncCallManager`, `queue` is the
browser's queue, `running` and `step` say what the main thread runs, `phase`
and `shutdowns` how far the shutdown is. A step of a caller is what it does
between two accesses to something shared: the test of `m_isShutDown`,
`makeCallback` under the manager's mutex, posting to the browser (whose function
pointer is read twice, because `shutdown` zeroes the table meanwhile), `remove`
after a refusal, the wait. Delivery takes the call's data off the list or finds
it cancelled. The shutdown sets the flag, then runs every call on the list with
the mutex held. It is entered twice (from `NPP_Destroy` and from `~PluginCore`).

What a function throws decides how its call ends (`Outcomes`). An exception
that the callback catches is the result "error"; the caller of a synchronous one
then gets a default value ("defaulted"), not the exception that
`BrowserHost.h:131-132` promises. One that it does not catch ("escaped") leaves the
callback (`LeaveCall`): the `_asyncCallData` is not deleted, a synchronous caller
is not woken, and out of a drain it takes the rest of the drain, the shutdown and
`NPP_Destroy` with it (the phase "abandoned").

`OneShotCalls` has for every call the status waiting, run or given up;
`RunsOnceOrNever` is that specification under the mapping `CallStatus`.

### PluginLifecycle

`hostRefs` and `apiRefs` are sets of named holders, so that "the last reference
goes" is a set becoming empty. The main thread runs `NPP_New`, deliveries and
the steps of `NPP_Destroy`; the io thread runs one handler at a time, with a
step per reference it takes or drops. `TimerExpires` puts a handler in the
queue, and `cancel()` is then too late. `ioCall` says how far the io thread's
`ScheduleAsyncCall` is: `PassTest`, `Register` and the second test
(`ScheduleFrame`, `ScheduleTest`, or `RefuseFrame`, `RefuseTest`) are steps of
their own, so that a whole drain, or the second shutdown with its drain, may come
between any two. A call that a drain has run and that is then refused has its
`CrossThreadCall` deleted twice; that, like a callback on a destroyed timer, is
the outcome "lost", after which the two liveness properties claim nothing.

### SensorFeed

All of `ReadFrame` is one step, since it runs on the main thread and nothing
else changes what it reads. What happens between frames is the interesting part:
pages are created, load, ask for streams, handle events later, go away; the
device is plugged and unplugged; OpenNI's error callback makes a sensor invalid.
`TimerCallback` schedules a `ReadFrame` only while some page's host lives
(`ZigJS.cpp:153`); with no page open the loop rests, and its list with it.

### OpenNISensor

The constructor is split at its first update, and `ReadFrame` at
`xnWaitNoneUpdateAll`, because OpenNI calls back inside both. The callbacks are
the module's other actions. Reading an uninitialised member
(`m_lastFrame`) is a choice; releasing a released context ends in the phase
"undefined", after which nothing is claimed. The calls that look for a pose,
calibrate and track may fail, and nobody looks at their status: such a user is
in `refused`, and nothing more comes for it until it leaves. `NobodyForgotten`
says that no user is without a next step for any other reason.

### ScriptObjects

A plugin object is named by its address, and `gen` counts the objects that have
lived there, so that a stale cached wrapper can be told from a good one.
`Die` is the end of plugin objects: the `NPObjectAPI`s in their event maps end
with them, on the thread that let go last. `ReleaseObject` is the browser's, with
the destructor of a wrapper in it. The destructor of an `NPObjectAPI` has three
steps off the main thread (`CheckExpired`, `GetHost`, `DeferredRelease`), and on
the main thread queues the object and drains. The destructor of the host
(`HostEnds`) runs on the thread that drops it last, `NPP_Destroy`'s or that of a
deferred release: what is still in its queue is lost, and `m_retainedObjects`
goes, with the objects that only it kept. It is not empty if a call that the
drain runs, an `NPObjectAPI::Invoke` with an object among its arguments, has put
something there (`DrainRetains`).

### ScriptEvents

`fire` says for each thread where it is in `FireEvent`: `Begin` looks at
`m_valid`, `LockProxies` takes `m_proxyMutex`, `TellsProxy`, `ErasesProxy` and
`OwnHandlers` are the loop over the proxies and what comes after it, `Copied` the
copy of the handlers under `m_eventMutex`, `NextPage` the loop over pages with
the test `isValid()`, and `CallNow`, `CallFails` the call of a page's handlers on
the main thread, or to a page that has gone since. From another thread it is
scheduled: `PassTest` or `TurnedAway` is the test of `m_isShutDown`, `Schedule`
the registration under the manager's mutex and the second test. Between these
steps the main thread registers, unregisters, changes proxies and closes pages;
`Locked` keeps it from `m_proxies` of an object whose event is with the proxies.
`Deliver` and `Timer` are a page's queue and timers.

`ShutPage` begins the drain of a page's host, `DrainEnds` ends it. In between the
main thread is in the functions that were scheduled, which may be anything of
the plugin's: they fire events and change proxies, while `Schedule` has to wait
for the list. `DrainCycle` is the deadlock that comes of it: the drain, with the
manager's mutex, wants `m_proxyMutex` of an object, and a thread that tells that
object's proxies has `m_proxyMutex` and wants the manager's.

A proxy made from a shared pointer is registered with itself (`CreateShared`), as
the code has it: it passes nothing on, and once `changeObject` has also listed
it with an object, that object's next event makes it call itself until the stack
is full, the value `overflow`, after which nothing is claimed.

`event`, `heard` and `fired` are history: who was attached all the while an event
was fired (`must`) or at some time (`held`), and who was called.

### BrowserStreams

All of it is on the main thread, so each call into the plugin is one step, with
what it calls back: `CloseStream` contains the `NPP_DestroyStream` that
`NPN_DestroyStream` causes. A stream is one record; its operators (`Complete`,
`SetDestroyed`, `CloseStream`, `SignalCompleted`) are the member functions, and an
action applies one to the stream. What the browser may do is its contract with a
plugin: a request it took is opened, fed and destroyed, or never opened;
`NPP_URLNotify` comes once, before or after `NPP_DestroyStream` or instead of
`NPP_NewStream`; it reports a failure at any time before the stream ended well,
a success when all has been sent (of a seekable stream, at any time); after
`NPP_Destroy` nothing comes. That the browser does not report success before it
has sent the data is assumed.

A failure reported while the stream is open goes through `close()`, which tells
the observers of a success (`NpapiStream.cpp:61-64`, `:120`); so do a close by the
plugin and the shutdown. `closed` and `gone` record these three ways, and
`SuccessIsWhole` claims the whole of the data for every other success, as
`SimpleStreamHelper.h:95-97` does for all of them.

`StreamLife` is the promise to observers: a stream is created, then opened, then
gets data, and completes, possibly more than once (a stream that the plugin
closes is completed by `close()` and again by what the browser answers), and a
helper answers once and for good. `HandlerSeesLife` is that specification
under the mapping to `seen` and `answer`.

### Watermark

Each plugin has its `Watermark` and timer; the page has all their marks. A round
is one step (`Test`), because the page's script runs within it: it finds the
first plugin of the document (`First`), not the one that asks, and calls
`Validate` or `Invalidate` on that one, or fails. A token is good if it is the
one the plugin that was found has now, so that the round of one plugin counts as
a try of another and is a validation only by chance. A mark is put over those
that are there, and stays when its plugin goes. `validate` and `invalidate` are
public methods: the page's scripts call them too, at any time and with any token
(`PageValidates`, `PageInvalidates`). What stands against that is the token,
which each round replaces, and the limit on the tries for one.

`Tick` is a second. Ages are counted up to the limit and one more; `posted` has
how long each scheduled round has waited. `guesses`, `unproved` and `inView` are
history: how many calls of `validate` the page has made since the token was
taken; how long ago the mark was in view, the plugin was new, or one of the first
`MaxAttempts` guesses was right; and how long the plugin has been the first with
its mark in view. A page that guesses a token in time is not told from one that
shows the mark, here as in the code; what is claimed is that no later guess
counts. The properties are about what `IsOk` would say at any time (`Expired`).

## The runs

| Run | Instance | Shows |
|---|---|---|
| `async` | a call of each kind, two shutdowns | every call runs at most once, its data is deleted once, a value that is returned is that of the function, which ran to its end; it implements `OneShotCalls`; the inductive invariant. A scheduled call runs and its memory is freed, except in the cycle of mutexes below or when another call's exception leaves the drain; `CallOnMainThread` ends, except in that cycle, or, until the shutdown, when its function throws what nobody catches |
| `feed` | two pages, one stream, wait of 1, one frame with data | pages know the sensor's status; no event is handled with an older map; open pages stay listed; attempts to open are spaced; while a page is open, a device is reopened and dead listeners are erased |
| `life` | two instances | unloading waits for the frame timer; closed hosts keep no call and are freed; frames keep coming to the open page |
| `openni` | two users, an array of one, one hand, time-out of 1 | one context at a time; event data current; no user is left without a next step but by a call that failed; a time-out is just, and comes |
| `objects` | two addresses, one handler, one thread, two objects in all | counts are right; nothing given back twice or lost early; what was given out is alive; a closed page frees all |
| `events` | one object, one proxy, two pages with a handler each (one of them an object of the plugin's), two threads, two events, three changes | who is attached hears, in the order of a thread's events, and nobody else; lists and proxies agree; every event ends, except in the endless recursion or the cycle of locks above |
| `watermark` | two plugins, two tokens, a round every second, a delay of 1, a limit of 2, two tries | works only with the mark seen, or a token guessed in the tries allowed, within the limit; never stops while first and in view, whatever the page calls |
| `streams` | two requests of any kind, one piece of data each | the browser never holds a stream that is gone; success is the whole, but for an open stream that `close()` ends; finished streams are freed; observers see `StreamLife`; helpers are answered |

Each module's type invariant is a conjunct of its inductive invariant, which is
proved for all constants; `async` also checks it. That a
call runs at most once is proved, and part of `RunsOnceOrNever`.

Four runs each show a line of the repository that the code does not keep:

| Run | What is said | What happens |
|---|---|---|
| `async_false_ran` | `BrowserHost.h:105`: true if the call was scheduled, false if it could not be | registered, run by the drain, then refused by the zeroed table: false, and it has run |
| `async_sync_deadlock` | `BrowserHost.h:115`: waits for the result and returns it | the drain holds the manager's mutex and wants the call's; the caller holds the call's and wants the manager's |
| `life_destroy_assert` | `NpapiPluginModule_NPP.cpp:225-228`: the host is gone, assert | a timer callback may hold it |
| `life_same_thread` | `Timer.h:35`: callbacks to the same thread | they run on the io thread, also after the timer is destroyed |

### Bounds

* *Calls.* Callers meet only through the manager's list and mutex, and what the
  main thread does with one call does not depend on the others; one of each
  kind meets it in every order. The proofs hold for any sets.
* *Pages.* Two, because `ReadFrame` erases from the list it walks and a page
  must be unharmed by the other; a wait of one frame tells "too soon" from
  "in time", and `MaxFrames` bounds only the numbers of the frames with data.
* *Instances.* Two: `TimerCallback` prefers the oldest host.
* *Events.* Two, so that one can overtake the other, and three changes, so that a
  handler can come, a proxy change and a page go while one event is on its way.
  One page's handler is a function, called by a timer, the other's an object of
  the plugin's, called at once, which may throw and so end the event for the
  other page. The second page alone has the proxy, so that the handlers of
  object and proxy are told apart by `Shown`. Two threads are all that meet at
  the proxies' mutex.
* *Streams.* Two of the six kinds of request; streams share only the shutdown,
  and the invariant is about each by itself. One piece of data tells whole, part
  and nothing apart.
* *Marks.* Two plugins, either of which may be first, covered or gone. Period and
  delay together just fit the limit, and two tries are used up by the page's calls
  or when the other's rounds come between. Tokens are interchangeable, so the run uses symmetry.
* *Users.* Two for an array of one: the array can be full. `Timeout` is 1, and
  time is counted up to the moment past it only.
* *Objects.* Two addresses and two objects: an object of its own for listener
  and argument, or one after the other at the same address. Two entries in
  `m_retainedObjects` show those that outlast the wrapper. `MaxScript` is 1, as
  a second reference of the page's does what the first does.

### Deadlock and fairness

No run checks for deadlock: when the page is closed and all callers are done,
the system has stopped. That callers and main thread do not wait for each other
is stated by the liveness properties instead.

Fairness is weak unless said otherwise:

* `AsyncCalls`: each caller that has begun and the main thread, as a thread that
  can run does run. Nobody must begin a call or close a page.
* `SensorFeed`: `TimerCallback`, which is enabled only while a page's host lives,
  since the recursive 30 ms timer calls it again and again; `ReadFrame`, enabled
  only when it is scheduled, since the browser or a drain runs the call. Both
  liveness properties assume that some page is open from some time on.
* `PluginLifecycle`: the io thread, expiry of armed timers, the browser's
  deliveries, and the rest of an `NPP_Destroy` once begun. Strong fairness of
  each timer's handler, because asio serves ready handlers first in, first out.
* `OpenNISensor`: the reads and time; nothing obliges a device. The reads are the
  frame loop's, so this is about a sensor while some page is open.
* `ScriptEvents`: a thread goes on with its `FireEvent`; the browser delivers
  scheduled calls and fires timers of pages that are open; a drain, once begun,
  ends. Nobody must fire, register or close.
* `BrowserStreams`: the browser goes on with a request that it took: it opens,
  writes, destroys and reports. A seekable stream is left out, as the browser
  waits for the plugin's reads. Nothing obliges the plugin.
* `Watermark`: none; its promises are bounds on time. `Tick` waits for a timer that
  is due and for a call that has waited `MaxDelay`: that the main thread gets to
  a call in time is assumed of the browser, and a page that keeps it busy for
  longer does stop the plugin. The clock is taken as monotonic: `second_clock` is
  the wall clock, and one set forward stops the plugin, one set back keeps it
  working.
* `ScriptObjects`: the main thread finishes a call, `NPP_Destroy` goes on once it
  has begun, each worker finishes its `FireEvent`. Pages oblige nobody.

## The proofs

Each proof module uses an inductive invariant `IInv` (the run `async` checks it too,
the others only what follows from it), and proves
`Init => IInv`, that every action keeps it, and what follows from it.
They assume only the named assumption on the constants in each module.

* *AsyncCalls.* At most once does not follow from itself: it needs to be known
  that nothing has heard of a call before `makeCallback`
  (`UnknownBeforeMade`), that only a drain can run it before it is posted, that a
  call that ran has left `DataList` for good (`RanMeansGone`), that the list, the
  main thread and the cancelled list exclude each other (`OnePlace`), and what
  the end of `NPP_Destroy`, or of a drain left early, leaves. Proved:
  `RunAtMostOnce`, `DataDeletedOnce`, `ReturnedMeansRan` (a returned value is that of
  a function that ran to its end and threw nothing), and that `AsyncCalls` implements `OneShotCalls`, for any
  set of callers.
* *SensorFeed.* `StatusAgrees` (`wasSensorConnected` is what the loop last
  saw), `ToldAgrees` (a page that differs has read a failure that is about
  to be announced), `MapsNotAhead` and `RestIsReal`. Proved: `StatusKnown`,
  `MapsNotOlderThanEvent`, `AttemptsAreSpaced`, for any pages, streams and wait.
  `OpenPagesStay` needs none of them: what a frame erases are listeners that are
  freed and those whose own call threw, which are dead (`DroppedAreClosed`); no
  other step erases any.
* *PluginLifecycle.* `ModuleCoversInstances`, `ApiRefsAreHeld`,
  `TimerRefsAreHeld`, `HostsAreHeld`, `FramesNotShut` and the shapes of the
  references. A call may be registered after the drain; that it does not stay in
  the list of a destroyed host needs `HostsAreHeld`, as the io thread has the
  host through the timer's reference or through the object's. Proved:
  `NoFrameCallbackAfterUnload`, `NothingLeftOnClosedHost`, for any instances.
* *OpenNISensor.* `ContextHeld` (which pointers own the object and whether its
  context is open, in each phase), `StampIsRecent`, `ListsAgree`. Proved: the
  invariants and action properties of the run, for any users, hands and
  time-out.
* *ScriptObjects.* `CountsAgree` needs `EndedOnce`: an `NPObjectAPI` in a
  destructor is on no stack and in no other destructor. `GivenIsAlive` needs
  `HeldIsAlive` (alive means owned, retained or pinned, and nothing else),
  `GivenIsRetained` (a wrapper given out has an entry of its own left, and is the
  current object's) and `WrappedExisted`. Proved: `CountsAgree`, `GivenIsAlive`,
  `LostOnlyAtTheEnd`, `TypeOK`, for any addresses, objects and threads.

* *ScriptEvents.* `HeardWasAttached` needs `Placed` (where each thread is in
  `FireEvent`: the event may reach all who are attached to its object now, the
  copy was attached when it was made, and the proxies still to come follow the
  object, because its list is locked) and `CallsHeld` (so is every call in a
  queue or a timer). `ProxiesFollow` is inductive with `ListedExist`.
  `AttachedHear` looks at events that are over, and says nothing of one on its
  way. `HearingInv` does: `NoneIsLost` follows whoever must hear an event
  (`Accounted`) from the thread that has yet to come to him (`Ahead`: his proxy is
  still in the locked list, or his page among those to come, or his attribute is
  next) to a call in the queue, to a timer, to `heard`, or to the reason that
  excuses it; a handler that could slip between two of these is what the theorem
  rules out. It needs `MustAreAttached`, so that nobody is expected at a proxy
  that no longer follows the object. `HeardInOrder` needs `OrderInv`: the order
  holds within a page's queue, within its timers, from timers to queue, and from
  what was heard to both (`Orderly`); a thread's event in progress is its last
  (`LastOfThread`), so what it appends is behind all others. Two facts keep the
  ways from crossing: a timer never waits with an object of the plugin's, which is
  called at once (`NoneAtOnce`), and of the main thread's events, which call
  listeners without the queue, only attributes are queued
  (`MainQueuesAttributes`). A step that takes calls out, or handlers out of calls,
  keeps the order by one lemma (`ThinnedOrderly`), and one that appends by two
  others (`QueuedOrderly`, `TimedOrderly`). Proved: `HeardWasAttached`,
  `ProxiesFollow`, `AttachedHear`, `HeardInOrder`, for any objects, proxies, pages,
  handlers and threads.
* *BrowserStreams.* Stream by stream: `SelfUntilBoth` (the reference to itself is
  what `NPP_DestroyStream` and `NPP_URLNotify` together take away),
  `LinkedWhileStreaming` (an open stream has its NPStream, and is not
  completed before it has lost it), `HelperWaits` (a helper of an open stream has
  all that was sent, and "part" is answered only to one that was closed),
  `SeenInOrder` and
  `CompletedLetsGo`. Each member function is shown to keep them by a lemma.
  Proved: `BrowserHoldsLiveStream`, `SuccessIsWhole`, `FinishedStreamsAreFreed` and
  that `BrowserStreams` implements `StreamLife`, for any streams and length.
* *Watermark.* `ValidatedMeansSeen` (the mark was in view, or an early guess
  right, no longer ago than the last validation) and `GuessesAreTries` (the
  page's calls are among the tries, so that the limit stops them) for the one
  side. For the other, `RoundsKeepUp`: while the plugin is in view its last
  validation is not older than the timer's start, or than a round before one that
  waits. Proved: `WorksOnlyWhenSeen`, `WorksWhileInView`, for any plugins and
  tokens, and any period and delay that together are within the limit.

Every safety property and action property of the passing runs is proved. Only
model-checked: all liveness (`ScheduledRuns`, `NoLeak`,
`SyncWaitEnds`, `DeviceIsReopened`, `FreedListenersAreErased`,
`FramesKeepComing`, `ClosedHostsAreFreed`, `SilentSensorIsLost`,
`ClosingReleases`, `ClosedPageFreesObjects`, `EventsEnd`,
`TakenRequestsAreAnswered`), which the provers cannot do under fairness, and what
the runs that expect a violation show.

## Not modelled

* A module that is loaded again in the same process: `StaticDeinitialize` leaves
  `wasSensorConnected`, the streams and `s_activeInstance` as they were, and the
  order of static destruction at exit.
* The call through a function pointer zeroed by `shutdown` is in `AsyncCalls` as
  the phase "crashed"; no property says it cannot happen, as it can.
* What `m_retainedObjects.clear()` shows to a search from within it depends on
  the standard library; `ScriptObjects` takes the outcome in which it finds
  nothing. That an object is freed with its last wrapper is not claimed: it is
  kept when it was given out more than once. Nor is a wrapper for a new object
  at a used address claimed to be alive when the old object was given out weakly.
* An exception that leaves the destructor of `NPObjectAPI` (`GetHost` failing
  after `CheckExpired` succeeded) is taken as a lost reference. One that escapes a
  call and is not survived by the browser is the phase "crashed" of `AsyncCalls`;
  the other modules have no escaping exceptions in their calls.
* What the functions that a drain runs do, beyond what is named above: in
  `ScriptEvents` they fire events and change proxies, in `ScriptObjects` they give
  objects out.
* The page's own code within the watermark's script, which could call the
  plugin from inside a round.
* An observer that is detached, or a handler attached, from within an event of
  `PluginEventSource`.
* `FireJSEvent` has no caller in the repository and cannot be given a
  specification that it keeps: its first loop runs from a copy of the map to the
  end of the original (`JSAPIImpl.cpp:223`), its second does not advance (`:241`).
  The interfaces it serves are registered by the ActiveX binding alone.
* What an object of the plugin's does when it is called as a handler: in
  `ScriptEvents` it may throw, but changes no list. One that did (the mutex is
  recursive) would invalidate the iterator of the loop over the proxies.
* The reading of the event's attribute in `JSAPIAuto::getAttribute` without a
  lock, while the main thread writes it, is taken as one step.
* A handler that calls `close()` from `onStreamCompleted` while `close()` is
  completing the stream: `close()` sends the event before it forgets the NPStream
  or clears the open flag, so the two call each other for ever.
* `FrameSystem`, a composition of the frame loop with the sensor: the frame loop
  uses the answers of `Valid()` and `ReadFrame()` only, which `SensorFeed` leaves
  free, so that composing them would restate both modules and check nothing new.
* Encodings, JSON, wording and logs; values and their conversions; DOM wrappers;
  the ActiveX, WebKit and native hosts; the message window used on old Windows
  browsers; windows and drawing; HttpService and WebView (not linked); the
  JavaScript of the samples; vendored libraries.

Further weak points seen in the code, outside the list in `PROJECT.json` because
no property of these modules is, or is to be, stated over them:

* `NpapiBrowserHost.cpp:539`: `PluginThreadAsyncCall` tests the function pointer and
  calls through it while `shutdown` zeroes it.
* `CrossThreadCall.cpp:30`: a `script_error` of the called function is stored as a
  `shared_ptr`, and `CrossThreadCall.h:206` looks for a raw pointer: the caller of
  `CallOnMainThread` gets a default value, although `BrowserHost.h:131-132` says it
  throws. In `AsyncCalls` such a call ends as "defaulted".
* `CrossThreadCall.cpp:28`: the synchronous callback catches `script_error` only, its
  asynchronous twin `bad_variant_cast` as well (`:48`). After any other exception
  `m_returned` is not set and the caller waits until the shutdown; what throws out
  of a drain leaves the rest of it undone (`BrowserHost.cpp:308`). In `AsyncCalls` this is
  the result "escaped".
* `SensorOpenNI.cpp:321`, `:323`, `:379`, `:405`, `:408`: the status of the calls that
  look for a pose, calibrate and track is ignored; a user for whom one fails is
  not followed until it leaves. In `OpenNISensor` these users are in `refused`.
* `SimpleStreamHelper.cpp:36`: a request that the browser refuses leaves the helper
  to itself, and `SynchronousGet` waiting; after the shutdown the same holds for
  a request that was not yet opened, although the manager is to "Force close all
  of the streams so that they get a callback" (`BrowserStreamManager.cpp:36`), since `close()`
  does nothing for a stream without an NPStream.
* `NpapiStream.cpp:61-66`: the shutdown, like any `close()`, tells an open stream's
  observers that it succeeded, whatever part of the data has come; so does a
  failure that `NPP_URLNotify` reports before `NPP_DestroyStream` (`:120`). For a
  helper, `SimpleStreamHelper.h:95-97` calls what it then has the full body.
* `NpapiStream.cpp:108`: a seekable stream that ends well is never completed and
  stays in the manager until the page is closed; so does a stream whose handler
  takes the completion event (`PluginEventSource.cpp:88`).
* `NpapiStream.cpp:163`: a request that was never opened, or refused at
  `NpapiPlugin.cpp:326-330`, is notified but never destroyed, and keeps itself for
  ever.
* `NpapiStream.cpp:43`: `readRanges` asks for the first range as often as there are
  ranges. `NpapiPlugin.cpp:214`: the file name may be null.
* `JSAPIProxy.cpp:24`: the proxy listed with itself, described above.
* `JSAPIImpl.cpp:179`: a `std::runtime_error` for a page that went (from
  `InvokeAsync`, `JSObject.h:91`, or `getDOMWindow`) leaves `FireEvent` and ends the
  event for all pages.
* `Watermark.cpp:134`: `IsOk` takes back what `Invalidate` or a failed constructor
  has set; nothing else reads `m_ok`. A plugin without a mark works for 15 seconds.
* `SensorOpenNI.cpp:714`: the label map's row is found with the depth map's width.
* `BrowserHost.cpp:102`: `htmlLog` ignores a refused call, and `AsyncHtmlLog`
  returns early when logging throws: the `AsyncLogRequest` is never deleted.
* `BrowserHost.cpp:82`: `InstanceCount` is a plain `volatile int`, decremented on
  whichever thread drops the last reference.
* `BrowserHost.cpp:234`: clearing the list of retained objects destroys objects
  whose wrappers search the same list.
* `ZigJSAPI.cpp:162`, `ZigJS.cpp:35`: a status change is dropped while the
  watermark is not ok; the last page to ask decides which maps all pages get.
* `SensorOpenNI.cpp:243`, `:263`, `:458`, `:627`: two gestures of one hand in one
  update; a hand keeps the id of a user who was lost; nodes outlive a context
  released by a failed constructor; a clock set back gives up the sensor.
* `Watermark.cpp:92`: the document is used before it is tested.
* `SensorKinectSDK.cpp:110`, `:432`: the driver's thread replaces the sensor; a
  failed `LockRect` keeps the image frame.

## Plan

Done: the modules above, in the order in which a call, a frame, an object,
an event and a stream pass through them. Left, most important first:

1. Windows and other observers of `PluginEventSource`, attached and detached from
   within events.
2. `MapEncoding`: the base64 triplets of depth and label maps as a function,
   against a reference over small maps, with the two strides of the label map.
3. `KinectSensor`: life cycle and the driver thread's status callback.

Further proofs: for each of these its inductive invariant and safety properties;
of the modules above, the steps of the liveness arguments that are safety (what
a waiting thread waits for, and that this is under way).
