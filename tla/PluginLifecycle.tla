-------------------------- MODULE PluginLifecycle ---------------------------
(***************************************************************************)
(* Lifetimes across threads: the module (NP_Initialize, NP_Shutdown), its  *)
(* instances (NPP_New, NPP_Destroy), and the timers that reach into them.  *)
(*                                                                         *)
(* One io thread runs every timer handler.  The module's timer calls       *)
(* ZigJS::TimerCallback, which takes a strong reference to a host from     *)
(* s_hosts to schedule ReadFrame; the timer of each ZigJSAPI object calls  *)
(* WatermarkTimerCB through a raw pointer.  The main thread may close an   *)
(* instance or the module between any two steps of a handler.              *)
(*                                                                         *)
(* The call that a handler schedules is tested, registered and posted in   *)
(* steps of their own, and the drain of either shutdown may fall between   *)
(* them.  What the manager's mutex and the zeroed table add to that is the *)
(* subject of AsyncCalls; here setting the flag and the drain are one step. *)
(***************************************************************************)
EXTENDS Naturals, FiniteSets, Sequences

CONSTANTS
  Instances,     \* the plugin instances pages will open
  NoInstance

ASSUME LifecycleAssumption == NoInstance \notin Instances

VARIABLES
  module,        \* the NpapiPluginModule and the plugin's globals
  inst,          \* where each instance is between NPP_New and NPP_Destroy
  hosts,         \* s_hosts, newest first
  hostRefs,      \* who holds a shared_ptr to the BrowserHost
  apiRefs,       \* who holds a shared_ptr to the ZigJSAPI object
  frames,        \* hosts with a ReadFrame scheduled
  due,           \* is a handler of the module's timer queued?
  wmDue,         \* objects with a handler of their timer queued
  ioAt,          \* where the io thread is
  ioWho,         \* the instance it works on
  ioCall,        \* how far its ScheduleAsyncCall has come
  scanLeft       \* what TimerCallback has still to look at in s_hosts

main == <<module, inst>>
refs == <<hostRefs, apiRefs>>
timers == <<due, wmDue>>
io == <<ioAt, ioWho, ioCall, scanLeft>>
vars == <<main, hosts, refs, frames, timers, io>>

\* NPP_Destroy: "open", then "shut" by host->shutdown(), then "returning"
\* with the plugin deleted and the local host pointer gone.
InstanceStates == {"none", "open", "shut", "returning", "gone"}

\* A handler: "scan", "frame" and "drop" are TimerCallback; "wm" and
\* "wmCall" are WatermarkTimerCB.  "lost" has used a destroyed object.
IoStates == {"idle", "scan", "frame", "drop", "wm", "wmCall", "lost"}

\* ScheduleAsyncCall: "passed" has found the host open, "registered" has the
\* call in the manager's DataList, "drained" had it there and a shutdown ran
\* it.
CallStates == {"none", "passed", "registered", "drained"}

TypeOK ==
  /\ module \in {"unloaded", "loaded", "stopping", "gone"}
  /\ inst \in [Instances -> InstanceStates]
  /\ hosts \in Seq(Instances) /\ scanLeft \in Seq(Instances)
  /\ hostRefs \in [Instances -> SUBSET {"plugin", "api", "timer"}]
  /\ apiRefs \in [Instances -> SUBSET {"plugin", "call", "io"}]
  /\ frames \subseteq Instances /\ wmDue \subseteq Instances
  /\ due \in BOOLEAN
  /\ ioAt \in IoStates /\ ioWho \in Instances \cup {NoInstance}
  /\ ioAt \in {"frame", "drop", "wm", "wmCall"} => ioWho # NoInstance
  /\ ioCall \in CallStates /\ (ioCall # "none" => ioAt \in {"frame", "wmCall"})

Init ==
  /\ module = "unloaded" /\ inst = [i \in Instances |-> "none"]
  /\ hosts = <<>> /\ scanLeft = <<>>
  /\ hostRefs = [i \in Instances |-> {}] /\ apiRefs = [i \in Instances |-> {}]
  /\ frames = {} /\ wmDue = {} /\ due = FALSE
  /\ ioAt = "idle" /\ ioWho = NoInstance /\ ioCall = "none"

HostAlive(i) == hostRefs[i] # {}
ApiAlive(i) == apiRefs[i] # {}
IsShutDown(i) == inst[i] \in {"shut", "returning", "gone"}

\* NPP_Destroy runs to its end before the main thread does anything else.
MainFree == \A i \in Instances : inst[i] \notin {"shut", "returning"}

\* Mutant: the destroyed object's reference to the host leaks.
HostRefsLeak(i, dropped) == hostRefs[i]

\* Dropping the last reference to a ZigJSAPI object drops the object's own
\* reference to the host.
HostRefsWithout(i, dropped) ==
  IF apiRefs[i] \subseteq {dropped} THEN hostRefs[i] \ {"api"} ELSE hostRefs[i]

DropApi(i, dropped) ==
  /\ apiRefs' = [apiRefs EXCEPT ![i] = @ \ {dropped}]
  /\ hostRefs' = [hostRefs EXCEPT ![i] = HostRefsWithout(i, dropped)]

\* The drain also runs the call that the io thread has registered and not yet
\* given to the browser.
Drain(i) ==
  /\ frames' = frames \ {i}
  /\ ioCall' = IF ioCall = "registered" /\ ioWho = i THEN "drained" ELSE ioCall

-----------------------------------------------------------------------------
(* The main thread.                                                        *)

\* NP_Initialize: GetModule runs StaticInitialize, which starts the timer.
Load ==
  /\ module = "unloaded" /\ module' = "loaded"
  /\ UNCHANGED <<inst, hosts, refs, frames, timers, io>>

\* NPP_New up to onPluginReady, which waits for TimerCallback's lock.
New(i) ==
  /\ module = "loaded" /\ MainFree /\ inst[i] = "none" /\ ioAt # "scan"
  /\ inst' = [inst EXCEPT ![i] = "open"]
  /\ hostRefs' = [hostRefs EXCEPT ![i] = {"plugin"}]
  /\ hosts' = <<i>> \o hosts
  /\ UNCHANGED <<module, apiRefs, frames, timers, io>>

\* getRootJSAPI: the page asks for the scriptable object.
CreateApi(i) ==
  /\ MainFree /\ inst[i] = "open" /\ apiRefs[i] = {}
  /\ apiRefs' = [apiRefs EXCEPT ![i] = {"plugin"}]
  /\ hostRefs' = [hostRefs EXCEPT ![i] = @ \cup {"api"}]
  /\ UNCHANGED <<main, hosts, frames, timers, io>>

\* The browser delivers ReadFrame.
DeliverFrame(i) ==
  /\ MainFree /\ i \in frames
  /\ frames' = frames \ {i}
  /\ UNCHANGED <<main, hosts, refs, timers, io>>

\* The browser delivers WatermarkTest, and with it its object reference.
DeliverTest(i) ==
  /\ MainFree /\ "call" \in apiRefs[i]
  /\ DropApi(i, "call")
  /\ UNCHANGED <<main, hosts, frames, timers, io>>

\* NPP_Destroy: host->shutdown() runs and releases every scheduled call.
ShutDownHost(i) ==
  /\ MainFree /\ inst[i] = "open"
  /\ inst' = [inst EXCEPT ![i] = "shut"]
  /\ Drain(i) /\ DropApi(i, "call")
  /\ UNCHANGED <<module, hosts, timers, ioAt, ioWho, scanLeft>>

\* NPP_Destroy: delete holder, and the local host pointer.  ~ZigJS releases
\* the root object first; ~PluginCore shuts the host down a second time.
DeletePlugin(i) ==
  /\ inst[i] = "shut"
  /\ inst' = [inst EXCEPT ![i] = "returning"]
  /\ apiRefs' = [apiRefs EXCEPT ![i] = @ \ {"plugin"}]
  /\ hostRefs' = [hostRefs EXCEPT ![i] = HostRefsWithout(i, "plugin") \ {"plugin"}]
  /\ Drain(i)
  /\ UNCHANGED <<module, hosts, timers, ioAt, ioWho, scanLeft>>

\* NPP_Destroy returns, past its assertion.
DestroyReturns(i) ==
  /\ inst[i] = "returning"
  /\ inst' = [inst EXCEPT ![i] = "gone"]
  /\ UNCHANGED <<module, hosts, refs, frames, timers, io>>

\* NP_Shutdown: ReleaseModule, StaticDeinitialize; the timer is stopped.
StopTimer ==
  /\ module = "loaded" /\ \A i \in Instances : inst[i] \in {"none", "gone"}
  /\ module' = "stopping"
  /\ UNCHANGED <<inst, hosts, refs, frames, timers, io>>

\* Another Timer still shares the TimerService.
ServiceShared == \E i \in Instances : ApiAlive(i)

\* Mutant: the io thread is not joined.
ServiceEndsUnjoined == TRUE

\* The last Timer stops the io_service and joins its thread.
ServiceEnds == ServiceShared \/ ioAt = "idle"

\* NP_Shutdown: the timer is destroyed, and the service with its last timer.
Unload ==
  /\ module = "stopping" /\ ServiceEnds
  /\ module' = "gone"
  /\ due' = (due /\ ServiceShared)
  /\ wmDue' = IF ServiceShared THEN wmDue ELSE {}
  /\ UNCHANGED <<inst, hosts, refs, frames, io>>

-----------------------------------------------------------------------------
(* The io thread.                                                          *)

\* deadline_timer expires: its handler is queued and cancel() comes too late.
TimerExpires ==
  /\ module = "loaded" /\ ~due
  /\ due' = TRUE
  /\ UNCHANGED <<main, hosts, refs, frames, wmDue, io>>

TestExpires(i) ==
  /\ ApiAlive(i) /\ i \notin wmDue
  /\ wmDue' = wmDue \cup {i}
  /\ UNCHANGED <<main, hosts, refs, frames, due, io>>

\* Timer::callback of the module's timer starts it again and calls
\* TimerCallback, which locks s_hostsMutex.  While the module stops the
\* timer may be destroyed already.
TimerFires ==
  /\ due /\ ioAt = "idle"
  /\ due' = FALSE
  /\ \/ module # "gone" /\ ioAt' = "scan"
     \/ module \in {"stopping", "gone"} /\ ioAt' = "lost"
  /\ scanLeft' = hosts
  /\ UNCHANGED <<main, hosts, refs, frames, wmDue, ioWho, ioCall>>

\* Mutant: the host kept before is never let go.
ReleasedNever(i) == hostRefs

\* TimerCallback lets go of the host it kept before, if any.
Released(i) == IF i = NoInstance THEN hostRefs ELSE [hostRefs EXCEPT ![i] = @ \ {"timer"}]

\* One turn of TimerCallback's loop: keep the live host, and drop the one
\* kept before.
ScanLive ==
  /\ ioAt = "scan" /\ scanLeft # <<>>
  /\ HostAlive(Head(scanLeft))
  /\ hostRefs' = [Released(ioWho) EXCEPT ![Head(scanLeft)] = @ \cup {"timer"}]
  /\ ioWho' = Head(scanLeft) /\ scanLeft' = Tail(scanLeft)
  /\ UNCHANGED <<main, hosts, apiRefs, frames, timers, ioAt, ioCall>>

\* One turn of TimerCallback's loop: erase an expired pointer.
ScanDead ==
  /\ ioAt = "scan" /\ scanLeft # <<>>
  /\ ~HostAlive(Head(scanLeft))
  /\ \E k \in 1..Len(hosts) :
       /\ hosts[k] = Head(scanLeft)
       /\ hosts' = SubSeq(hosts, 1, k - 1) \o SubSeq(hosts, k + 1, Len(hosts))
  /\ scanLeft' = Tail(scanLeft)
  /\ UNCHANGED <<main, refs, frames, timers, ioAt, ioWho, ioCall>>

\* The lock is released; without a host there is nothing to do.
ScanEnd ==
  /\ ioAt = "scan" /\ scanLeft = <<>>
  /\ ioAt' = IF ioWho = NoInstance THEN "idle" ELSE "frame"
  /\ UNCHANGED <<main, hosts, refs, frames, timers, ioWho, ioCall, scanLeft>>

\* ScheduleAsyncCall refuses when the host is shut down.
Accepts(i) == ~IsShutDown(i)

\* Mutant: the flag is not tested again once the call is registered.
AcceptsRegistered(i) == TRUE

\* _scheduleAsyncCall tests isShutDown() a second time.
StillAccepts(i) == ~IsShutDown(i)

\* ScheduleAsyncCall, for TimerCallback or WatermarkTimerCB: the first test.
PassTest ==
  /\ ioAt \in {"frame", "wmCall"} /\ ioCall = "none" /\ Accepts(ioWho)
  /\ ioCall' = "passed"
  /\ UNCHANGED <<main, hosts, refs, frames, timers, ioAt, ioWho, scanLeft>>

\* ScheduleAsyncCall: makeCallback, on a host that may be shut down by now.
Register ==
  /\ ioCall = "passed" /\ ioCall' = "registered"
  /\ UNCHANGED <<main, hosts, refs, frames, timers, ioAt, ioWho, scanLeft>>

\* ScheduleAsyncCall fails at its first test, or at the second one, after
\* which remove takes back what was registered.
TurnedAway ==
  \/ ioCall = "none" /\ ~Accepts(ioWho)
  \/ ioCall \in {"registered", "drained"} /\ ~StillAccepts(ioWho)

\* TimerCallback: the browser gets host->ScheduleAsyncCall(&ZigJS::ReadFrame,
\* NULL).
ScheduleFrame ==
  /\ ioAt = "frame" /\ ioCall = "registered" /\ StillAccepts(ioWho)
  /\ frames' = frames \cup {ioWho}
  /\ ioAt' = "drop" /\ ioCall' = "none"
  /\ UNCHANGED <<main, hosts, refs, timers, ioWho, scanLeft>>

\* TimerCallback: ScheduleAsyncCall returned false.
RefuseFrame ==
  /\ ioAt = "frame" /\ TurnedAway
  /\ ioAt' = "drop" /\ ioCall' = "none"
  /\ UNCHANGED <<main, hosts, refs, frames, timers, ioWho, scanLeft>>

\* TimerCallback returns and drops its host.
DropHost ==
  /\ ioAt = "drop"
  /\ hostRefs' = Released(ioWho)
  /\ ioAt' = "idle" /\ ioWho' = NoInstance
  /\ UNCHANGED <<main, hosts, apiRefs, frames, timers, ioCall, scanLeft>>

\* The handler of an object's timer is taken from the queue.
TestFires(i) ==
  /\ i \in wmDue /\ ioAt = "idle"
  /\ wmDue' = wmDue \ {i}
  /\ ioAt' = "wm" /\ ioWho' = i
  /\ UNCHANGED <<main, hosts, refs, frames, due, ioCall, scanLeft>>

\* Timer::callback and WatermarkTimerCB go through raw pointers;
\* shared_from_this() then makes a strong reference.
EnterTest ==
  /\ ioAt = "wm"
  /\ IF ApiAlive(ioWho)
       THEN /\ apiRefs' = [apiRefs EXCEPT ![ioWho] = @ \cup {"io"}]
            /\ ioAt' = "wmCall" /\ UNCHANGED ioWho
       ELSE ioAt' = "lost" /\ UNCHANGED <<apiRefs, ioWho>>
  /\ UNCHANGED <<main, hosts, hostRefs, frames, timers, ioCall, scanLeft>>

\* ScheduleOnMainThread: the queued call takes the reference over.
ScheduleTest ==
  /\ ioAt = "wmCall" /\ ioCall = "registered" /\ StillAccepts(ioWho)
  /\ apiRefs' = [apiRefs EXCEPT ![ioWho] = (@ \ {"io"}) \cup {"call"}]
  /\ ioAt' = "idle" /\ ioWho' = NoInstance /\ ioCall' = "none"
  /\ UNCHANGED <<main, hosts, hostRefs, frames, timers, scanLeft>>

\* ScheduleOnMainThread on a host that is shut down: asyncCall deletes the
\* CrossThreadCall, a second time when a drain has run it, and the reference
\* is dropped here.  If it is the last of the last timer, the io thread
\* destroys the TimerService and would join itself.
RefuseTest ==
  /\ ioAt = "wmCall" /\ TurnedAway
  /\ DropApi(ioWho, "io")
  /\ ioAt' = IF \/ ioCall = "drained"
                \/ module = "gone" /\ \A i \in Instances : apiRefs'[i] = {}
             THEN "lost" ELSE "idle"
  /\ ioWho' = NoInstance /\ ioCall' = "none"
  /\ UNCHANGED <<main, hosts, frames, timers, scanLeft>>

IoStep ==
  \/ TimerFires \/ ScanLive \/ ScanDead \/ ScanEnd \/ DropHost \/ EnterTest
  \/ PassTest \/ Register
  \/ ScheduleFrame \/ RefuseFrame \/ ScheduleTest \/ RefuseTest
  \/ \E i \in Instances : TestFires(i)

MainStep(i) ==
  \/ New(i) \/ CreateApi(i) \/ DeliverFrame(i) \/ DeliverTest(i)
  \/ ShutDownHost(i) \/ DeletePlugin(i) \/ DestroyReturns(i)

Next ==
  \/ Load \/ StopTimer \/ Unload \/ TimerExpires \/ IoStep
  \/ \E i \in Instances : MainStep(i) \/ TestExpires(i)

Spec == Init /\ [][Next]_vars

\* Both threads run; the io thread serves expired timers in turn; the browser
\* delivers what was scheduled; NPP_Destroy returns.
FairSpec ==
  /\ Spec
  /\ WF_vars(TimerExpires) /\ SF_vars(TimerFires) /\ WF_vars(IoStep)
  /\ \A i \in Instances :
       /\ WF_vars(DeliverFrame(i)) /\ WF_vars(DeliverTest(i))
       /\ WF_vars(DeletePlugin(i)) /\ WF_vars(DestroyReturns(i))

-----------------------------------------------------------------------------
(* Properties.                                                             *)

\* A TimerCallback that is still running when the module is released keeps
\* NP_Shutdown waiting: no host is held by the frame timer afterwards,
\* because the last Timer joins the io thread (TimerService.cpp:29).
NoFrameCallbackAfterUnload ==
  module = "gone" => /\ ioAt \notin {"scan", "frame", "drop"}
                     /\ \A i \in Instances : "timer" \notin hostRefs[i]

\* The browser is left with no call for a host that is shut down, although
\* the timers go on finding it for as long as someone holds it.  A thread that
\* passed the test before may still register a call after the drain
\* (BrowserHost.cpp:330-333), and the second shutdown may run it; but whoever
\* does so holds the host until the call is taken back or has run: a
\* destroyed host leaves none in its DataList, with what the call holds.
NothingLeftOnClosedHost ==
  \A i \in Instances :
    /\ IsShutDown(i) => i \notin frames /\ "call" \notin apiRefs[i]
    /\ ioCall = "registered" /\ ioWho = i => HostAlive(i)

\* While some instance stays open ReadFrame keeps being run, although
\* TimerCallback always picks the oldest host and that one may be closing.
FramesKeepComing ==
  \A i \in Instances :
    (<>[](inst[i] = "open") /\ [](ioAt # "lost"))
      => []<><<\E j \in Instances : DeliverFrame(j)>>_vars

\* A closed host is destroyed in the end: the references between ZigJSAPI,
\* its queued calls and the host form no cycle.
ClosedHostsAreFreed ==
  [](ioAt # "lost") => \A i \in Instances : inst[i] = "gone" ~> ~HostAlive(i)

\* NpapiPluginModule_NPP.cpp:228, assert(weakHost.expired()).
HostGoneWhenDestroyReturns ==
  \A i \in Instances : inst[i] = "returning" => ~HostAlive(i)

\* Timer.h:35, "async callbacks to the same thread": a callback run on the
\* thread that owns the timer cannot meet a timer or an object destroyed
\* under it.
CallbacksMeetLiveObjects == ioAt # "lost"
-----------------------------------------------------------------------------
(* The inductive invariant behind NoFrameCallbackAfterUnload and           *)
(* NothingLeftOnClosedHost.                                                *)

\* The module outlives every instance, from NPP_New to NPP_Destroy.
ModuleCoversInstances ==
  \A i \in Instances :
    /\ module = "unloaded" => inst[i] = "none"
    /\ module \in {"stopping", "gone"} => inst[i] \in {"none", "gone"}

\* Each reference to an object has a holder that still exists.
ApiRefsAreHeld ==
  \A i \in Instances :
    /\ "plugin" \in apiRefs[i] => inst[i] \in {"open", "shut"}
    /\ "call" \in apiRefs[i] => inst[i] = "open"
    /\ "io" \in apiRefs[i] => ioAt = "wmCall" /\ ioWho = i
    /\ ioAt = "wmCall" /\ ioWho = i => "io" \in apiRefs[i]
    /\ inst[i] = "none" => apiRefs[i] = {}

\* TimerCallback holds the one host it works on.
TimerRefsAreHeld ==
  /\ \A i \in Instances :
       "timer" \in hostRefs[i] => ioAt \in {"scan", "frame", "drop"} /\ ioWho = i
  /\ ioAt = "idle" => ioWho = NoInstance
  /\ ioAt = "scan" /\ ioWho # NoInstance => "timer" \in hostRefs[ioWho]
  /\ ioAt \in {"frame", "drop"} => "timer" \in hostRefs[ioWho]

\* An object holds its host, and nobody a host before NPP_New.
HostsAreHeld ==
  \A i \in Instances :
    /\ apiRefs[i] # {} => "api" \in hostRefs[i]
    /\ inst[i] = "none" => hostRefs[i] = {}

\* No ReadFrame is left with the browser for a host that is shut down.
FramesNotShut == \A i \in Instances : i \in frames => ~IsShutDown(i)

IInv ==
  /\ ModuleCoversInstances /\ ApiRefsAreHeld /\ TimerRefsAreHeld /\ HostsAreHeld
  /\ FramesNotShut /\ NoFrameCallbackAfterUnload
=============================================================================
