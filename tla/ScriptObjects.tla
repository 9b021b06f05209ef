--------------------------- MODULE ScriptObjects ---------------------------
(***************************************************************************)
(* The objects a page and the plugin hold of each other, for one host.     *)
(*                                                                         *)
(* The page holds a plugin object (JSAPI) through a wrapper, an            *)
(* NPJavascriptObject that the browser counts references to; the host      *)
(* keeps the plugin object alive with one entry of m_retainedObjects for   *)
(* each time it is given out, and finds its wrapper again by its address.  *)
(* The plugin holds a script object through an NPObjectAPI, which counts   *)
(* as one reference of the browser's.  The browser's counts may only be    *)
(* touched on the main thread: an NPObjectAPI that ends on another thread  *)
(* leaves its reference in m_deferredObjects.                              *)
(*                                                                         *)
(* A plugin object is named by its address, and gen counts the objects     *)
(* that have lived there.  The main thread runs one call of the page or    *)
(* the browser at a time, to its end: while Busy it is finishing one.  The *)
(* order of m_deferredObjects tells no property anything, so it is a set.  *)
(* Left out: the uncached wrapper of the root object, the wrappers of      *)
(* other JSObjects, whose entries only the shutdown releases, and the      *)
(* copies of an NPObjectAPI that a call in the browser's queue keeps.      *)
(***************************************************************************)
EXTENDS Naturals, FiniteSets

CONSTANTS
  Apis,      \* addresses of plugin objects
  Scripts,   \* script objects of the page: functions, the window
  Window,    \* the one the host itself holds
  Handles,   \* NPObjectAPIs, used again when they are gone
  Html,      \* the host's own, m_htmlWin
  Workers,   \* threads that fire events
  Main,      \* the main thread
  MaxObjects, \* objects the plugin makes in all
  MaxScript, \* references the page holds to one object
  MaxGiven   \* entries the host holds of one plugin object

Places == {"free", "host", "none", "queued"}

ASSUME ScriptObjectsAssumption ==
  /\ Window \in Scripts /\ Html \in Handles /\ Main \notin Workers
  /\ IsFiniteSet(Handles)
  /\ Apis \cap Scripts = {} /\ Apis \cap Places = {}
  /\ {MaxObjects, MaxScript, MaxGiven} \subseteq Nat \ {0}

VARIABLES
  phase,    \* how far NPP_Destroy is
  live,     \* is there a plugin object at this address?
  gen,      \* how many there have been
  own,      \* does the plugin hold it (root object, a member, a local)?
  retained, \* how often is it in m_retainedObjects?
  pin,      \* the plugin object a thread holds while it fires an event
  refs,     \* the browser's count for a script object or a wrapper
  script,   \* how many of these the page has
  wrapped,  \* the gen of the object this wrapper was made for
  given,    \* was the wrapper given out for a JSAPIPtr to that object?
  obj,      \* the object an NPObjectAPI holds
  reg,      \* who holds the NPObjectAPI: a plugin object's events or a place
  held,     \* the NPObjectAPIs on a thread's stack
  letting,  \* the one it is destroying
  stage,    \* where in the destructor
  draining, \* is the main thread in DoDeferredRelease?
  lost      \* references of the plugin that nobody will give back

apis == <<live, gen, own, retained>>
wrappers == <<wrapped, given>>
counts == <<refs, script, lost>>
handles == <<obj, reg>>
threads == <<pin, held, letting, stage>>
vars == <<phase, apis, wrappers, counts, handles, threads, draining>>

Objs == Scripts \cup Apis
Threads == Workers \cup {Main}

\* The weak pointers to the host have not expired: the holder of NPP_Destroy,
\* the main thread in a release, or a worker in one has it.
HostAlive == phase # "closed" \/ draining \/ \E w \in Workers : stage[w] = "pinned"

\* The weak pointer of the wrapper at this address has not expired.
ApiAlive(a) == live[a] /\ gen[a] = wrapped[a]

Pinned(a) == \E w \in Workers : a \in pin[w]

Listeners(a) == {h \in Handles : reg[h] = a}

\* The main thread is still at work on the call it is in.
Busy == draining \/ held[Main] # {}

Init ==
  /\ phase = "open"
  /\ live = [a \in Apis |-> FALSE] /\ gen = [a \in Apis |-> 0]
  /\ own = [a \in Apis |-> FALSE] /\ retained = [a \in Apis |-> 0]
  /\ wrapped = [a \in Apis |-> 0] /\ given = [a \in Apis |-> FALSE]
  /\ script = [o \in Objs |-> IF o \in Scripts THEN 1 ELSE 0]
  /\ refs = [o \in Objs |-> IF o = Window THEN 2 ELSE script[o]]
  /\ lost = [o \in Objs |-> 0]
  /\ obj = [h \in Handles |-> Window]
  /\ reg = [h \in Handles |-> IF h = Html THEN "host" ELSE "free"]
  /\ pin = [w \in Workers |-> {}] /\ held = [t \in Threads |-> {}]
  /\ letting = [w \in Workers |-> {}] /\ stage = [w \in Workers |-> "idle"]
  /\ draining = FALSE

\* Thread t drops the last reference to the objects in D; their event maps
\* go with them and leave it the NPObjectAPIs to destroy.  r is who holds
\* the NPObjectAPIs then.
Die(t, D, r) ==
  /\ live' = [a \in Apis |-> live[a] /\ a \notin D]
  /\ reg' = [h \in Handles |-> IF r[h] \in D THEN "none" ELSE r[h]]
  /\ held' = [held EXCEPT ![t] = @ \cup {h \in Handles : r[h] \in D}]

-----------------------------------------------------------------------------
(* The page and the plugin, on the main thread.                            *)

Made == {o \in Apis \X (1 .. MaxObjects) : o[2] <= gen[o[1]]}

\* The plugin makes an object, possibly where another one has been.
Create(a) ==
  /\ phase = "open" /\ ~Busy
  /\ ~live[a] /\ Cardinality(Made) < MaxObjects
  /\ live' = [live EXCEPT ![a] = TRUE]
  /\ gen' = [gen EXCEPT ![a] = @ + 1]
  /\ own' = [own EXCEPT ![a] = TRUE]
  /\ UNCHANGED <<phase, retained, wrappers, counts, handles, threads, draining>>

\* The plugin lets go of an object of its own.
Drop(a) ==
  /\ phase = "open" /\ ~Busy
  /\ own[a]
  /\ own' = [own EXCEPT ![a] = FALSE]
  /\ Die(Main, {b \in {a} : retained[a] = 0 /\ ~Pinned(a)}, reg)
  /\ UNCHANGED <<phase, gen, retained, wrappers, counts, obj, pin, letting, stage, draining>>

\* getJSAPIWrapper: the wrapper in the cache, if it is still there, or a new one.
Wrap(a, strong) ==
  /\ refs' = [refs EXCEPT ![a] = @ + 1]
  /\ script' = [script EXCEPT ![a] = @ + 1]
  /\ IF refs[a] > 0
     THEN /\ given' = [given EXCEPT ![a] = @ \/ (strong /\ ApiAlive(a))]
          /\ UNCHANGED wrapped
     ELSE /\ wrapped' = [wrapped EXCEPT ![a] = gen[a]]
          /\ given' = [given EXCEPT ![a] = strong]

\* Mutant: the host does not retain the object.
GiveOutUnretained(a) ==
  /\ phase = "open" /\ ~Busy
  /\ own[a] /\ script[a] < MaxScript
  /\ Wrap(a, TRUE)
  /\ UNCHANGED <<phase, apis, lost, handles, threads, draining>>

\* makeNPVariant<JSAPIPtr>: the host retains the object and gives its wrapper out.
GiveOut(a) ==
  /\ phase = "open" /\ ~Busy
  /\ own[a] /\ script[a] < MaxScript /\ retained[a] < MaxGiven
  /\ retained' = [retained EXCEPT ![a] = @ + 1]
  /\ Wrap(a, TRUE)
  /\ UNCHANGED <<phase, live, gen, own, lost, handles, threads, draining>>

\* makeNPVariant<JSAPIWeakPtr>: a wrapper, but the host does not retain the object.
GiveOutWeak(a) ==
  /\ phase = "open" /\ ~Busy
  /\ own[a] /\ script[a] < MaxScript
  /\ Wrap(a, FALSE)
  /\ UNCHANGED <<phase, apis, lost, handles, threads, draining>>

\* Mutant: the host is told whenever a reference is given back.
TellsHostAlways(a) == HostAlive /\ ApiAlive(a)

\* The destructor of the wrapper at a tells the host it is done.
TellsHost(a) == refs[a] = 1 /\ HostAlive /\ ApiAlive(a)

\* The browser takes back one reference to o; the destructor of a wrapper
\* nobody refers to any more takes one entry off the list.
ReleaseObject(o, r) ==
  LET found == {a \in {o} \cap Apis : TellsHost(a) /\ retained[a] > 0}
  IN /\ refs' = [refs EXCEPT ![o] = @ - 1]
     /\ retained' = [a \in Apis |-> IF a \in found THEN retained[a] - 1 ELSE retained[a]]
     /\ Die(Main, {a \in found : retained[a] = 1 /\ ~own[a] /\ ~Pinned(a)}, r)

\* The page is done with one reference of its own.  releaseJSAPIPtr also
\* empties the queue.
ScriptDrops(o) ==
  /\ ~Busy
  /\ script[o] > 0
  /\ script' = [script EXCEPT ![o] = @ - 1]
  /\ ReleaseObject(o, reg)
  /\ draining' = \E a \in Apis : a = o /\ TellsHost(a)
  /\ UNCHANGED <<phase, gen, own, wrappers, lost, obj, pin, letting, stage>>

\* Mutant: the constructor forgets RetainObject.
RegisterUncounted(a, o, h) ==
  /\ phase = "open" /\ ~Busy
  /\ script[a] > 0 /\ ApiAlive(a) /\ script[o] > 0
  /\ o \in Apis => ApiAlive(o)
  /\ reg[h] = "free"
  /\ \A g \in Listeners(a) : obj[g] # o
  /\ obj' = [obj EXCEPT ![h] = o]
  /\ reg' = [reg EXCEPT ![h] = a]
  /\ UNCHANGED <<phase, apis, wrappers, counts, threads, draining>>

\* The page passes o to the plugin object at a, which keeps the NPObjectAPI
\* made for it.
Register(a, o, h) ==
  /\ phase = "open" /\ ~Busy
  /\ script[a] > 0 /\ ApiAlive(a) /\ script[o] > 0
  /\ o \in Apis => ApiAlive(o)
  /\ reg[h] = "free"
  /\ \A g \in Listeners(a) : obj[g] # o
  /\ refs' = [refs EXCEPT ![o] = @ + 1]
  /\ obj' = [obj EXCEPT ![h] = o]
  /\ reg' = [reg EXCEPT ![h] = a]
  /\ UNCHANGED <<phase, apis, wrappers, script, lost, threads, draining>>

\* The same with a wrapper whose object is gone: the constructor has
\* retained it when getAPI throws, and no destructor will run.
RegisterDead(a, o) ==
  /\ phase = "open" /\ ~Busy
  /\ script[a] > 0 /\ ApiAlive(a) /\ script[o] > 0
  /\ ~ApiAlive(o) /\ lost[o] < MaxScript
  /\ refs' = [refs EXCEPT ![o] = @ + 1]
  /\ lost' = [lost EXCEPT ![o] = @ + 1]
  /\ UNCHANGED <<phase, apis, wrappers, script, handles, threads, draining>>

\* removeEventListener.
Unregister(h) ==
  /\ phase = "open" /\ ~Busy
  /\ \E a \in Apis : reg[h] = a /\ script[a] > 0 /\ ApiAlive(a)
  /\ script[obj[h]] > 0
  /\ reg' = [reg EXCEPT ![h] = "none"]
  /\ held' = [held EXCEPT ![Main] = @ \cup {h}]
  /\ UNCHANGED <<phase, apis, wrappers, counts, obj, pin, letting, stage, draining>>

-----------------------------------------------------------------------------
(* The end of an NPObjectAPI.                                              *)

\* A shared_ptr that is not the last.
LetCopyGo(t, h) ==
  /\ h \in held[t]
  /\ reg[h] # "none" \/ \E u \in Threads \ {t} : h \in held[u]
  /\ held' = [held EXCEPT ![t] = @ \ {h}]
  /\ UNCHANGED <<phase, apis, wrappers, counts, handles, pin, letting, stage, draining>>

Last(t, h) == h \in held[t] /\ reg[h] = "none" /\ \A u \in Threads \ {t} : h \notin held[u]

\* The NPObjectAPIs in S are gone and their references with them.
Lose(S) == lost' = [o \in Objs |-> lost[o] + Cardinality({h \in S : obj[h] = o})]

Freed(S) == [h \in Handles |-> IF h \in S THEN "free" ELSE reg[h]]

Forget(S) == Lose(S) /\ reg' = Freed(S)

\* On the main thread: deferred_release queues the object and drains, if the host is there.
MainLetsGo(h) ==
  /\ Last(Main, h)
  /\ held' = [held EXCEPT ![Main] = @ \ {h}]
  /\ IF HostAlive
     THEN /\ reg' = [reg EXCEPT ![h] = "queued"] /\ draining' = TRUE
          /\ UNCHANGED lost
     ELSE Forget({h}) /\ UNCHANGED draining
  /\ UNCHANGED <<phase, apis, wrappers, refs, script, obj, pin, letting, stage>>

Queued == {h \in Handles : reg[h] = "queued"}

\* The host goes on thread t: with it go the references in its queue and the
\* entries of m_retainedObjects, and what these kept alive.
HostEnds(t, S) ==
  /\ Lose(S)
  /\ retained' = [a \in Apis |-> 0]
  /\ Die(t, {a \in Apis : live[a] /\ ~own[a] /\ ~Pinned(a)}, Freed(S))

\* One turn of the loop in DoDeferredRelease.
Pop(h) ==
  /\ draining /\ held[Main] = {}
  /\ reg[h] = "queued"
  /\ ReleaseObject(obj[h], [reg EXCEPT ![h] = "free"])
  /\ UNCHANGED <<phase, gen, own, wrappers, script, lost, obj, pin, letting, stage, draining>>

\* Mutant: an if instead of a while.
DrainEndsEarly ==
  /\ draining /\ held[Main] = {}
  /\ draining' = FALSE
  /\ UNCHANGED <<phase, apis, wrappers, counts, handles, threads>>

\* The queue is empty; the release may have had the last reference to the host.
DrainEnds ==
  /\ draining /\ held[Main] = {}
  /\ Queued = {}
  /\ draining' = FALSE
  /\ IF phase # "closed" \/ \E w \in Workers : stage[w] = "pinned"
     THEN UNCHANGED <<live, retained, lost, reg, held>>
     ELSE HostEnds(Main, {})
  /\ UNCHANGED <<phase, gen, own, wrappers, refs, script, obj, pin, letting, stage>>

\* A worker in the destructor: m_browser.expired() ...
CheckExpired(w, h) ==
  /\ stage[w] = "idle"
  /\ Last(w, h)
  /\ held' = [held EXCEPT ![w] = @ \ {h}]
  /\ IF HostAlive
     THEN /\ letting' = [letting EXCEPT ![w] = {h}]
          /\ stage' = [stage EXCEPT ![w] = "checked"]
          /\ UNCHANGED <<lost, reg>>
     ELSE Forget({h}) /\ UNCHANGED <<letting, stage>>
  /\ UNCHANGED <<phase, apis, wrappers, refs, script, obj, pin, draining>>

\* ... getHost(), which throws if the host has gone since ...
GetHost(w) ==
  /\ stage[w] = "checked"
  /\ IF HostAlive
     THEN /\ stage' = [stage EXCEPT ![w] = "pinned"]
          /\ UNCHANGED <<lost, reg, letting>>
     ELSE /\ stage' = [stage EXCEPT ![w] = "idle"]
          /\ letting' = [letting EXCEPT ![w] = {}]
          /\ Forget(letting[w])
  /\ UNCHANGED <<phase, apis, wrappers, refs, script, obj, pin, held, draining>>

\* ... deferred_release, which only queues the object.  The reference to
\* the host that getHost made may be the last.
DeferredRelease(w) ==
  /\ stage[w] = "pinned"
  /\ stage' = [stage EXCEPT ![w] = "idle"]
  /\ letting' = [letting EXCEPT ![w] = {}]
  /\ IF phase # "closed" \/ draining \/ \E u \in Workers \ {w} : stage[u] = "pinned"
     THEN /\ reg' = [h \in Handles |-> IF h \in letting[w] THEN "queued" ELSE reg[h]]
          /\ UNCHANGED <<live, retained, lost, held>>
     ELSE HostEnds(w, Queued \cup letting[w])
  /\ UNCHANGED <<phase, gen, own, wrappers, refs, script, obj, pin, draining>>

-----------------------------------------------------------------------------
(* FireEvent on a thread of the plugin's.                                  *)

\* The thread has a reference to the object and copies its event map.
Fire(w, a) ==
  /\ stage[w] = "idle" /\ pin[w] = {} /\ held[w] = {}
  /\ live[a]
  /\ pin' = [pin EXCEPT ![w] = {a}]
  /\ held' = [held EXCEPT ![w] = Listeners(a)]
  /\ UNCHANGED <<phase, apis, wrappers, counts, handles, letting, stage, draining>>

\* The copy is gone; so is the thread's reference, perhaps the last one.
FireEnds(w, a) ==
  /\ stage[w] = "idle" /\ held[w] = {}
  /\ a \in pin[w]
  /\ pin' = [pin EXCEPT ![w] = @ \ {a}]
  /\ Die(w, {b \in {a} : ~own[a] /\ retained[a] = 0 /\ \A u \in Workers \ {w} : a \notin pin[u]}, reg)
  /\ UNCHANGED <<phase, gen, own, retained, wrappers, counts, obj, letting, stage, draining>>

-----------------------------------------------------------------------------
(* NPP_Destroy.                                                            *)

\* BrowserHost::shutdown: freeRetainedObjects clears the list and drains.
FreeRetained ==
  /\ phase = "open" /\ ~Busy
  /\ phase' = "freed"
  /\ retained' = [a \in Apis |-> 0]
  /\ Die(Main, {a \in Apis : live[a] /\ ~own[a] /\ ~Pinned(a)}, reg)
  /\ draining' = TRUE
  /\ UNCHANGED <<gen, own, wrappers, counts, obj, pin, letting, stage>>

\* The drain of the scheduled functions runs a call that another thread made
\* with the object as an argument.  The host retains the object, makes no wrapper
\* any more, and the reference to one that it had is given back after the call.
DrainRetains(a) ==
  /\ phase = "freed" /\ ~Busy
  /\ live[a] /\ retained[a] < MaxGiven
  /\ retained' = [retained EXCEPT ![a] = @ + 1]
  /\ UNCHANGED <<phase, live, gen, own, wrappers, counts, handles, threads, draining>>

\* NpapiBrowserHost::shutdown: the host's own NPObjectAPI.
ResetHtml ==
  /\ phase = "freed" /\ ~Busy
  /\ phase' = "shut"
  /\ reg' = [reg EXCEPT ![Html] = "none"]
  /\ held' = [held EXCEPT ![Main] = @ \cup {Html}]
  /\ UNCHANGED <<apis, wrappers, counts, obj, pin, letting, stage, draining>>

\* Mutant: the plugin keeps its objects in a static list of shared_ptrs.
DeletePluginListed ==
  /\ phase = "shut" /\ ~Busy
  /\ phase' = "deleted"
  /\ UNCHANGED <<apis, wrappers, counts, handles, threads, draining>>

\* delete holder: the plugin and what it holds ...
DeletePlugin ==
  /\ phase = "shut" /\ ~Busy
  /\ phase' = "deleted"
  /\ own' = [a \in Apis |-> FALSE]
  /\ Die(Main, {a \in Apis : live[a] /\ retained[a] = 0 /\ ~Pinned(a)}, reg)
  /\ UNCHANGED <<gen, retained, wrappers, counts, obj, pin, letting, stage, draining>>

\* ... and the references NPP_Destroy had to the host.
DropHost ==
  /\ phase = "deleted" /\ ~Busy
  /\ phase' = "closed"
  /\ IF \E w \in Workers : stage[w] = "pinned"
     THEN UNCHANGED <<live, retained, lost, reg, held>>
     ELSE HostEnds(Main, Queued)
  /\ UNCHANGED <<gen, own, wrappers, refs, script, obj, pin, letting, stage, draining>>

-----------------------------------------------------------------------------
Page ==
  \/ \E a \in Apis : Create(a) \/ Drop(a) \/ GiveOut(a) \/ GiveOutWeak(a)
  \/ \E o \in Objs : ScriptDrops(o)
  \/ \E a \in Apis, o \in Objs, h \in Handles : Register(a, o, h)
  \/ \E a \in Apis, o \in Apis : RegisterDead(a, o)
  \/ \E h \in Handles : Unregister(h)

\* The main thread finishes the call it is in.
Finish ==
  \/ \E h \in Handles : LetCopyGo(Main, h) \/ MainLetsGo(h) \/ Pop(h)
  \/ DrainEnds

Destroy == ResetHtml \/ DeletePlugin \/ DropHost

Worker(w) ==
  \/ \E h \in Handles : LetCopyGo(w, h) \/ CheckExpired(w, h)
  \/ GetHost(w) \/ DeferredRelease(w)
  \/ \E a \in Apis : FireEnds(w, a)

Next ==
  \/ Page \/ Finish \/ FreeRetained \/ Destroy
  \/ \E a \in Apis : DrainRetains(a)
  \/ \E w \in Workers : Worker(w) \/ \E a \in Apis : Fire(w, a)

Spec == Init /\ [][Next]_vars

\* NPP_Destroy and the calls of the browser run to their end, and so does
\* FireEvent; nothing makes the browser call anything.
FairSpec == Spec /\ WF_vars(Finish) /\ WF_vars(Destroy) /\ \A w \in Workers : WF_vars(Worker(w))

-----------------------------------------------------------------------------
TypeOK ==
  /\ phase \in {"open", "freed", "shut", "deleted", "closed"}
  /\ live \in [Apis -> BOOLEAN] /\ own \in [Apis -> BOOLEAN]
  /\ gen \in [Apis -> Nat] /\ retained \in [Apis -> Nat]
  /\ wrapped \in [Apis -> Nat] /\ given \in [Apis -> BOOLEAN]
  /\ refs \in [Objs -> Nat] /\ script \in [Objs -> Nat] /\ lost \in [Objs -> Nat]
  /\ obj \in [Handles -> Objs] /\ reg \in [Handles -> Apis \cup Places]
  /\ pin \in [Workers -> SUBSET Apis] /\ held \in [Threads -> SUBSET Handles]
  /\ letting \in [Workers -> SUBSET Handles]
  /\ stage \in [Workers -> {"idle", "checked", "pinned"}]
  /\ draining \in BOOLEAN

\* The references of the plugin to o that are still to be given back: those
\* of the NPObjectAPIs that are in use, being destroyed or queued.
Owed(o) == Cardinality({h \in Handles : obj[h] = o /\ reg[h] # "free"})

\* Every reference the plugin took is given back at most once, whichever
\* threads the NPObjectAPIs end on: the browser's count is what the page
\* has, what the plugin owes and what is lost (NPObjectAPI.cpp:27-50,
\* NpapiBrowserHost.cpp:179-207).
CountsAgree == \A o \in Objs : refs[o] = script[o] + Owed(o) + lost[o]

\* While the page is open no reference is lost, except to a wrapper whose
\* object was only ever given out as a JSAPIWeakPtr: however the destructors
\* of NPObjectAPIs and wrappers set off one another.
LostOnlyAtTheEnd ==
  phase = "open" => \A o \in Objs : lost[o] > 0 => o \in Apis /\ ~given[o] /\ ~ApiAlive(o)

\* A plugin object that was given out lives as long as its wrapper does,
\* until the page is closed: also when the plugin has long dropped it, the
\* object has been given out several ways, and its address was used before
\* (NPVariantUtil.h:211, NPJavascriptObject.cpp:48-55, NpapiBrowserHost.cpp:765-792).
GivenIsAlive ==
  phase = "open" => \A a \in Apis : given[a] /\ refs[a] > 0 => ApiAlive(a)

\* What is alive is held by someone, and what is held is alive.
HeldIsAlive ==
  \A a \in Apis : live[a] <=> (own[a] \/ retained[a] > 0 \/ Pinned(a))

\* The entry that keeps the object of a wrapper alive.
GivenIsRetained ==
  phase = "open" => \A a \in Apis : given[a] /\ refs[a] > 0 => retained[a] > 0 /\ gen[a] = wrapped[a]

\* The gens of an address only grow.
WrappedExisted == \A a \in Apis : wrapped[a] <= gen[a]

\* An NPObjectAPI on a thread's stack is in use, and one that is being
\* destroyed is nowhere else.
EndedOnce ==
  /\ \A t \in Threads : \A h \in held[t] : reg[h] \in Apis \cup {"none"}
  /\ \A w \in Workers : \A h \in letting[w] :
       /\ reg[h] = "none"
       /\ \A t \in Threads : h \notin held[t]
       /\ \A u \in Workers \ {w} : h \notin letting[u]
  /\ phase \in {"open", "freed"} => reg[Html] = "host"

IInv ==
  /\ TypeOK /\ CountsAgree /\ EndedOnce
  /\ HeldIsAlive /\ GivenIsRetained /\ WrappedExisted /\ LostOnlyAtTheEnd

\* Closing the page releases what other threads have queued before
\* (BrowserHost.cpp:230-239).
ClosingReleases ==
  <>(phase = "closed") =>
    \A h \in Handles : [](phase = "open" /\ reg[h] = "queued" => <>(reg[h] # "queued" /\ HostAlive))

\* No plugin object outlives its page, whoever held it (BrowserHost.cpp:85-91,
\* NpapiPluginModule_NPP.cpp:211-222).
ClosedPageFreesObjects == phase = "closed" ~> \A a \in Apis : ~live[a]
=============================================================================
