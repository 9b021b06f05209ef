----------------------- MODULE PluginLifecycleProofs ------------------------
(***************************************************************************)
(* What PluginLifecycle guarantees for any number of instances.  The core  *)
(* is that each shared_ptr has a holder that still exists; when the last   *)
(* Timer goes while all instances are gone, nobody but the io thread can   *)
(* hold anything, and the io thread is joined.  A call that is registered  *)
(* too late is made by a holder of the host: TimerCallback's own pointer,  *)
(* or the ZigJSAPI object that WatermarkTimerCB keeps alive.               *)
(***************************************************************************)
EXTENDS PluginLifecycle, TLAPS

Inv == TypeOK /\ IInv

\* The invariant holds before the module is loaded.
LEMMA InitInv == Init => Inv
<1> SUFFICES ASSUME Init PROVE Inv
  OBVIOUS
<1>1. hosts \in Seq(Instances) /\ scanLeft \in Seq(Instances)
  BY DEF Init
<1>2. TypeOK
  BY <1>1 DEF Init, TypeOK, InstanceStates, IoStates, CallStates
<1> QED BY <1>2 DEF Init, Inv, IInv, ModuleCoversInstances, ApiRefsAreHeld, TimerRefsAreHeld,
           HostsAreHeld, FramesNotShut, NoFrameCallbackAfterUnload

\* A step of NPP_New, NPP_Destroy or a delivery preserves the types.
LEMMA MainStepTypes ==
  ASSUME TypeOK, NEW i \in Instances, MainStep(i)
  PROVE  TypeOK'
<1> USE DEF main, refs, timers, io, Drain, DropApi, HostRefsWithout
<1>1. CASE New(i)
  <2>1. hosts' \in Seq(Instances)
    BY <1>1 DEF New, TypeOK
  <2> QED BY <1>1, <2>1 DEF New, TypeOK, InstanceStates
<1>2. CASE CreateApi(i) \/ DeliverFrame(i) \/ DestroyReturns(i)
  <2>1. CASE CreateApi(i)
    BY <2>1 DEF TypeOK, CreateApi
  <2>2. CASE DeliverFrame(i)
    BY <2>2 DEF TypeOK, DeliverFrame
  <2>3. CASE DestroyReturns(i)
    BY <2>3 DEF TypeOK, InstanceStates, DestroyReturns
  <2> QED BY <1>2, <2>1, <2>2, <2>3
<1>3. CASE DeliverTest(i)
  BY <1>3 DEF TypeOK, DeliverTest
<1>4. ASSUME ShutDownHost(i) \/ DeletePlugin(i) PROVE TypeOK'
  <2>1. ioCall' \in {ioCall, "drained"} /\ (ioCall = "none" => ioCall' = "none")
    BY <1>4 DEF ShutDownHost, DeletePlugin
  <2>2. ioCall' \in CallStates /\ (ioCall' # "none" => ioAt' \in {"frame", "wmCall"})
    BY <1>4, <2>1 DEF ShutDownHost, DeletePlugin, TypeOK, CallStates
  <2>3. CASE ShutDownHost(i)
    BY <2>2, <2>3 DEF TypeOK, InstanceStates, ShutDownHost
  <2>4. CASE DeletePlugin(i)
    BY <2>2, <2>4 DEF TypeOK, InstanceStates, DeletePlugin
  <2> QED BY <1>4, <2>3, <2>4
<1> QED BY <1>1, <1>2, <1>3, <1>4 DEF MainStep

\* A step of NPP_New, NPP_Destroy or a delivery preserves the invariant.
LEMMA MainStepInv ==
  ASSUME Inv, NEW i \in Instances, MainStep(i)
  PROVE  Inv'
<1> USE DEF Inv, IInv, main, refs, timers, io, Drain, DropApi, HostRefsWithout
<1>1. TypeOK'
  BY MainStepTypes
<1>2. ModuleCoversInstances'
  BY DEF TypeOK, ModuleCoversInstances, MainStep, New, CreateApi, DeliverFrame,
         DeliverTest, ShutDownHost, DeletePlugin, DestroyReturns
<1>3. ApiRefsAreHeld'
  BY DEF TypeOK, ApiRefsAreHeld, MainStep, New, CreateApi, DeliverFrame, DeliverTest,
         ShutDownHost, DeletePlugin, DestroyReturns
<1>4. TimerRefsAreHeld' /\ NoFrameCallbackAfterUnload'
  <2>1. \A j \in Instances : "timer" \in hostRefs'[j] => "timer" \in hostRefs[j]
    BY DEF TypeOK, MainStep, New, CreateApi, DeliverFrame, DeliverTest, ShutDownHost,
           DeletePlugin, DestroyReturns
  <2>2. UNCHANGED <<ioAt, ioWho, module>>
    BY DEF MainStep, New, CreateApi, DeliverFrame, DeliverTest, ShutDownHost,
           DeletePlugin, DestroyReturns
  <2>3. \A j \in Instances \ {i} : hostRefs'[j] = hostRefs[j]
    BY DEF TypeOK, MainStep, New, CreateApi, DeliverFrame, DeliverTest, ShutDownHost,
           DeletePlugin, DestroyReturns
  <2>4. "timer" \in hostRefs[i] => "timer" \in hostRefs'[i]
    <3>1. CASE New(i)
      BY <3>1 DEF New, HostsAreHeld
    <3>2. CASE CreateApi(i) \/ DeliverFrame(i) \/ DestroyReturns(i)
      BY <3>2 DEF TypeOK, CreateApi, DeliverFrame, DestroyReturns
    <3>3. CASE DeliverTest(i) \/ ShutDownHost(i)
      BY <3>3 DEF TypeOK, DeliverTest, ShutDownHost
    <3>4. CASE DeletePlugin(i)
      BY <3>4 DEF TypeOK, DeletePlugin
    <3> QED BY <3>1, <3>2, <3>3, <3>4 DEF MainStep
  <2> QED BY <2>1, <2>2, <2>3, <2>4 DEF TimerRefsAreHeld, NoFrameCallbackAfterUnload, TypeOK
<1>5. HostsAreHeld'
  BY DEF TypeOK, ApiRefsAreHeld, HostsAreHeld, MainStep, New, CreateApi, DeliverFrame, DeliverTest,
         ShutDownHost, DeletePlugin, DestroyReturns
<1>6. FramesNotShut'
  BY DEF TypeOK, FramesNotShut, IsShutDown, MainStep, New, CreateApi, DeliverFrame, DeliverTest,
         ShutDownHost, DeletePlugin, DestroyReturns
<1> QED BY <1>1, <1>2, <1>3, <1>4, <1>5, <1>6

\* A step of the module itself, or an expiring timer, preserves it.  Once all
\* instances are gone a shared TimerService means that the io thread is in
\* WatermarkTimerCB, and therefore not in TimerCallback.
LEMMA ModuleStepInv ==
  ASSUME Inv, Load \/ StopTimer \/ Unload \/ TimerExpires
              \/ \E i \in Instances : TestExpires(i)
  PROVE  Inv'
<1> USE LifecycleAssumption DEF Inv, IInv, main, refs, timers, io
<1>1. CASE Load \/ TimerExpires \/ \E i \in Instances : TestExpires(i)
  <2>1. TypeOK'
    BY <1>1 DEF Load, TimerExpires, TestExpires, TypeOK
  <2> QED BY <1>1, <2>1 DEF Load, TimerExpires, TestExpires, ModuleCoversInstances, ApiRefsAreHeld,
              TimerRefsAreHeld, HostsAreHeld, FramesNotShut, IsShutDown, NoFrameCallbackAfterUnload
<1>2. CASE StopTimer
  BY <1>2 DEF StopTimer, TypeOK, ModuleCoversInstances, ApiRefsAreHeld,
              TimerRefsAreHeld, HostsAreHeld,
              FramesNotShut, IsShutDown, NoFrameCallbackAfterUnload
<1>3. CASE Unload
  <2>1. ioAt \in {"idle", "wmCall"}
    <3>1. CASE ServiceShared
      <4>1. PICK i \in Instances : apiRefs[i] # {}
        BY <3>1 DEF ServiceShared, ApiAlive
      <4>2. inst[i] \in {"none", "gone"}
        BY <1>3 DEF Unload, ModuleCoversInstances
      <4>3. "io" \in apiRefs[i]
        BY <4>1, <4>2 DEF TypeOK, ApiRefsAreHeld
      <4> QED BY <4>3 DEF ApiRefsAreHeld
    <3>2. CASE ~ServiceShared
      BY <1>3, <3>2 DEF Unload, ServiceEnds
    <3> QED BY <3>1, <3>2
  <2>2. \A i \in Instances : "timer" \notin hostRefs[i]
    BY <2>1 DEF TimerRefsAreHeld
  <2> QED BY <1>3, <2>1, <2>2 DEF Unload, TypeOK, ModuleCoversInstances, ApiRefsAreHeld,
             TimerRefsAreHeld, HostsAreHeld,
              FramesNotShut, IsShutDown, NoFrameCallbackAfterUnload
<1> QED BY <1>1, <1>2, <1>3

\* A step of the io thread preserves the types.
LEMMA IoStepTypes ==
  ASSUME TypeOK, IoStep
  PROVE  TypeOK'
<1> USE LifecycleAssumption DEF TypeOK, main, refs, timers, io
<1>1. CASE TimerFires
  BY <1>1 DEF TimerFires, IoStates
<1>2. ASSUME scanLeft # <<>>
      PROVE  Head(scanLeft) \in Instances /\ Tail(scanLeft) \in Seq(Instances)
  BY <1>2
<1>3. CASE ScanLive
  BY <1>2, <1>3 DEF ScanLive, Released
<1>4. CASE ScanDead
  <2>1. PICK k \in 1..Len(hosts) :
          hosts' = SubSeq(hosts, 1, k - 1) \o SubSeq(hosts, k + 1, Len(hosts))
    BY <1>4 DEF ScanDead
  <2>2. SubSeq(hosts, 1, k - 1) \in Seq(Instances) /\ SubSeq(hosts, k + 1, Len(hosts)) \in Seq(Instances)
    OBVIOUS
  <2>3. hosts' \in Seq(Instances)
    BY <2>1, <2>2
  <2> QED BY <1>2, <1>4, <2>3 DEF ScanDead
<1>5. CASE ScanEnd \/ DropHost
  BY <1>5 DEF ScanEnd, DropHost, Released, IoStates
<1>6. CASE PassTest \/ Register
  BY <1>6 DEF PassTest, Register, CallStates
<1>7. CASE ScheduleFrame \/ RefuseFrame
  BY <1>7 DEF ScheduleFrame, RefuseFrame, IoStates, CallStates
<1>8. CASE EnterTest \/ \E i \in Instances : TestFires(i)
  BY <1>8 DEF EnterTest, TestFires, IoStates
<1>9. CASE ScheduleTest
  BY <1>9 DEF ScheduleTest, IoStates, CallStates
<1>10. CASE RefuseTest
  BY <1>10 DEF RefuseTest, DropApi, HostRefsWithout, IoStates, CallStates
<1> QED BY <1>1, <1>3, <1>4, <1>5, <1>6, <1>7, <1>8, <1>9, <1>10 DEF IoStep

\* A step of the io thread preserves the invariant.
LEMMA IoStepInv ==
  ASSUME Inv, IoStep
  PROVE  Inv'
<1> USE LifecycleAssumption DEF Inv, IInv, main, refs, timers, io
<1>0. TypeOK'
  BY IoStepTypes
<1>1. CASE TimerFires
  <2>1. ioAt = "idle" /\ ioAt' \in {"scan", "lost"} /\ (module = "gone" => ioAt' = "lost")
    BY <1>1 DEF TimerFires, TypeOK
  <2>2. TimerRefsAreHeld'
    <3>1. \A i \in Instances : "timer" \notin hostRefs[i]
      BY <2>1 DEF TimerRefsAreHeld
    <3>2. ioWho = NoInstance
      BY <2>1 DEF TimerRefsAreHeld
    <3> QED BY <1>1, <2>1, <3>1, <3>2 DEF TimerFires, TimerRefsAreHeld
  <2> QED BY <1>0, <1>1, <2>1, <2>2 DEF TimerFires, ModuleCoversInstances, ApiRefsAreHeld,
             HostsAreHeld, FramesNotShut, IsShutDown, NoFrameCallbackAfterUnload
<1>2. CASE ScanLive \/ DropHost
  <2>1. ioAt \in {"scan", "drop"} /\ (ScanLive => scanLeft # <<>> /\ Head(scanLeft) \in Instances)
    BY <1>2 DEF ScanLive, DropHost, TypeOK
  <2>2. ModuleCoversInstances' /\ FramesNotShut' /\ ApiRefsAreHeld'
    BY <1>2, <2>1 DEF ScanLive, DropHost, ModuleCoversInstances, FramesNotShut, IsShutDown, ApiRefsAreHeld
  <2>3. TimerRefsAreHeld'
    BY <1>2, <2>1 DEF ScanLive, DropHost, Released, TypeOK, TimerRefsAreHeld
  <2>4. HostsAreHeld'
    <3>1. ASSUME ScanLive PROVE inst[Head(scanLeft)] # "none"
      BY <2>1, <3>1 DEF ScanLive, HostAlive, HostsAreHeld
    <3>2. CASE ScanLive
      BY <2>1, <3>1, <3>2 DEF ScanLive, Released, TypeOK, HostsAreHeld
    <3>3. CASE DropHost
      BY <3>3 DEF DropHost, Released, TypeOK, HostsAreHeld
    <3> QED BY <1>2, <3>2, <3>3
  <2>5. NoFrameCallbackAfterUnload'
    BY <1>2, <2>1 DEF ScanLive, DropHost, NoFrameCallbackAfterUnload
  <2> QED BY <1>0, <2>2, <2>3, <2>4, <2>5
<1>3. CASE ScanDead \/ ScanEnd \/ ScheduleFrame \/ RefuseFrame \/ PassTest \/ Register
  <2>1. UNCHANGED <<module, inst, hostRefs, apiRefs, ioWho>>
    BY <1>3 DEF ScanDead, ScanEnd, ScheduleFrame, RefuseFrame, PassTest, Register
  <2>2. \/ UNCHANGED ioAt
        \/ ioAt \in {"scan", "frame"} /\ ioAt' \in {"idle", "frame", "drop"}
    BY <1>3 DEF ScanDead, ScanEnd, ScheduleFrame, RefuseFrame, PassTest, Register
  <2>3. FramesNotShut'
    BY <1>3, <2>1 DEF ScanDead, ScanEnd, ScheduleFrame, RefuseFrame, PassTest, Register, StillAccepts,
                IsShutDown, FramesNotShut
  <2>4. TimerRefsAreHeld'
    BY <1>3, <2>1, <2>2 DEF ScanDead, ScanEnd, ScheduleFrame, RefuseFrame, PassTest, Register,
                TimerRefsAreHeld, TypeOK
  <2>5. ApiRefsAreHeld' /\ HostsAreHeld' /\ ModuleCoversInstances'
    BY <2>1, <2>2 DEF ApiRefsAreHeld, HostsAreHeld, ModuleCoversInstances
  <2>6. NoFrameCallbackAfterUnload'
    BY <2>1, <2>2 DEF NoFrameCallbackAfterUnload
  <2> QED BY <1>0, <2>3, <2>4, <2>5, <2>6
<1>4. CASE EnterTest \/ \E i \in Instances : TestFires(i)
  BY <1>0, <1>4 DEF EnterTest, TestFires, ApiAlive, TypeOK, ModuleCoversInstances, ApiRefsAreHeld,
              TimerRefsAreHeld, HostsAreHeld, FramesNotShut, IsShutDown, NoFrameCallbackAfterUnload
<1>5. CASE ScheduleTest
  <2>1. ioAt = "wmCall" /\ ioWho \in Instances /\ ioAt' = "idle" /\ ioWho' = NoInstance
    BY <1>5 DEF ScheduleTest, TypeOK
  <2>2. inst[ioWho] = "open"
    BY <1>5, <2>1 DEF ScheduleTest, StillAccepts, IsShutDown, TypeOK, InstanceStates, ApiRefsAreHeld
  <2>3. ApiRefsAreHeld'
    BY <1>5, <2>1, <2>2 DEF ScheduleTest, TypeOK, ApiRefsAreHeld
  <2>4. HostsAreHeld'
    BY <1>5, <2>1 DEF ScheduleTest, TypeOK, ApiRefsAreHeld, HostsAreHeld
  <2>5. ModuleCoversInstances' /\ TimerRefsAreHeld' /\ FramesNotShut' /\ NoFrameCallbackAfterUnload'
    BY <1>5, <2>1 DEF ScheduleTest, ModuleCoversInstances, TimerRefsAreHeld, FramesNotShut,
                IsShutDown, NoFrameCallbackAfterUnload
  <2> QED BY <1>0, <2>3, <2>4, <2>5
<1>6. CASE RefuseTest
  <2>1. ioAt = "wmCall" /\ ioAt' \in {"idle", "lost"} /\ ioWho \in Instances /\ ioWho' = NoInstance
    BY <1>6 DEF RefuseTest, TypeOK
  <2>2. ApiRefsAreHeld'
    BY <1>6, <2>1 DEF RefuseTest, DropApi, TypeOK, ApiRefsAreHeld
  <2>3. TimerRefsAreHeld'
    BY <1>6, <2>1 DEF RefuseTest, DropApi, HostRefsWithout, TypeOK, TimerRefsAreHeld
  <2>4. HostsAreHeld'
    BY <1>6, <2>1 DEF RefuseTest, DropApi, HostRefsWithout, TypeOK, HostsAreHeld
  <2>5. ModuleCoversInstances' /\ FramesNotShut' /\ NoFrameCallbackAfterUnload'
    BY <1>6, <2>1, <2>3 DEF RefuseTest, ModuleCoversInstances, FramesNotShut, IsShutDown,
                TimerRefsAreHeld, NoFrameCallbackAfterUnload
  <2> QED BY <1>0, <2>2, <2>3, <2>4, <2>5
<1> QED BY <1>1, <1>2, <1>3, <1>4, <1>5, <1>6 DEF IoStep

\* The invariant holds throughout.
LEMMA InvHolds == Spec => []Inv
<1>1. Inv /\ [Next]_vars => Inv'
  <2> SUFFICES ASSUME Inv, [Next]_vars PROVE Inv'
    OBVIOUS
  <2>1. CASE Next
    BY <2>1, MainStepInv, ModuleStepInv, IoStepInv DEF Next
  <2>2. CASE UNCHANGED vars
    BY <2>2 DEF vars, main, refs, timers, io, Inv, IInv, TypeOK, ModuleCoversInstances,
                ApiRefsAreHeld, TimerRefsAreHeld, HostsAreHeld, FramesNotShut, IsShutDown,
                NoFrameCallbackAfterUnload
  <2> QED BY <2>1, <2>2
<1> QED BY <1>1, InitInv, PTL DEF Spec

\* Every reference has a holder that still exists, and the module outlives
\* its instances.
THEOREM InvariantHolds == Spec => [](TypeOK /\ IInv)
<1>1. Inv => TypeOK /\ IInv
  BY DEF Inv
<1> QED BY <1>1, InvHolds, PTL

\* NP_Shutdown does not return while TimerCallback runs (TimerService.cpp:29).
THEOREM UnloadWaitsForTheTimer == Spec => []NoFrameCallbackAfterUnload
<1>1. Inv => NoFrameCallbackAfterUnload
  BY DEF Inv, IInv
<1> QED BY <1>1, InvHolds, PTL

\* The browser is left with no call for a host that is shut down, and a call
\* registered too late has a live host (BrowserHost.cpp:330-335).
THEOREM ClosedHostsAreQuiet == Spec => []NothingLeftOnClosedHost
<1>1. Inv => NothingLeftOnClosedHost
  <2> SUFFICES ASSUME Inv, NEW i \in Instances
               PROVE  /\ IsShutDown(i) => i \notin frames /\ "call" \notin apiRefs[i]
                      /\ ioCall = "registered" /\ ioWho = i => HostAlive(i)
    BY DEF NothingLeftOnClosedHost
  <2>1. IsShutDown(i) => i \notin frames /\ "call" \notin apiRefs[i]
    BY DEF Inv, IInv, FramesNotShut, ApiRefsAreHeld, IsShutDown
  <2>2. ASSUME ioCall = "registered", ioWho = i PROVE HostAlive(i)
    <3>1. ioAt \in {"frame", "wmCall"}
      BY <2>2 DEF Inv, TypeOK
    <3>2. CASE ioAt = "frame"
      BY <2>2, <3>2 DEF Inv, IInv, TimerRefsAreHeld, HostAlive
    <3>3. CASE ioAt = "wmCall"
      BY <2>2, <3>3 DEF Inv, IInv, ApiRefsAreHeld, HostsAreHeld, HostAlive
    <3> QED BY <3>1, <3>2, <3>3
  <2> QED BY <2>1, <2>2
<1> QED BY <1>1, InvHolds, PTL
=============================================================================
