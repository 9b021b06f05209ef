----------------------------- MODULE AsyncCalls -----------------------------
(***************************************************************************)
(* Cross-thread calls into the browser's main thread, and their shutdown:  *)
(* FB::BrowserHost, AsyncCallManager and CrossThreadCall (ScriptingCore)   *)
(* with the NPAPI host (NpapiCore) underneath.                             *)
(*                                                                         *)
(* A worker thread makes each call.  The manager keeps one _asyncCallData  *)
(* per call in DataList; the browser holds a pointer to it until it        *)
(* delivers the call to the main thread.  NPP_Destroy shuts the host down  *)
(* twice (once itself, once from ~PluginCore) and then drops it; every     *)
(* call still in DataList is run by AsyncCallManager::shutdown.            *)
(*                                                                         *)
(* A worker step is one access to state another thread can see: a read of  *)
(* m_isShutDown or NPNFuncs, or one critical section of the manager's      *)
(* mutex.  The mutex of a synchronous call is held by its caller from the  *)
(* first step until the wait, and taken by the main thread to report the   *)
(* result; the main thread keeps the manager's mutex for the whole drain.  *)
(*                                                                         *)
(* The function of a call may throw.  Each callback catches some exceptions *)
(* ("error"); any other ("escaped") leaves the callback and whatever called *)
(* it, up to the browser, which survives it or does not.                   *)
(***************************************************************************)
EXTENDS Naturals, FiniteSets

CONSTANTS
  Async,          \* calls made with ScheduleOnMainThread
  Sync,           \* calls made with CallOnMainThread
  Log,            \* calls made with htmlLog
  NoCall,         \* no call
  MayShutDown     \* can the page close the instance?

Calls == Async \cup Sync \cup Log

ASSUME CallsAssumption ==
  /\ Async \cap Sync = {} /\ Async \cap Log = {} /\ Sync \cap Log = {}
  /\ NoCall \notin Calls
  /\ MayShutDown \in BOOLEAN

VARIABLES
  pc,          \* where the caller of each call is
  queue,       \* calls the browser has been asked to deliver
  dataList,    \* AsyncCallManager::DataList
  canceled,    \* AsyncCallManager::canceledDataList
  freed,       \* calls whose _asyncCallData has been deleted
  payloadFrees,\* how often the call's userData has been deleted
  runs,        \* how often the call's function has run
  result,      \* what the function did
  returned,    \* synchronous calls with m_returned set
  running,     \* the call the main thread is in
  step,        \* where the main thread is in that call
  phase,       \* how far the main thread is in NPP_Destroy
  shutdowns,   \* completed BrowserHost::shutdown calls
  isShutDown,  \* BrowserHost::m_isShutDown
  npnFuncs     \* is NPNFuncs.pluginthreadasynccall set?

manager == <<dataList, canceled, freed>>
main == <<running, step, phase, shutdowns, isShutDown, npnFuncs>>
effects == <<payloadFrees, runs, result, returned>>
vars == <<pc, queue, manager, effects, main>>

\* How a call ends for its caller.  "defaulted": CallOnMainThread returned a
\* default value in place of the script_error that its function threw.
Finished == {"scheduled", "failed", "threw", "returned", "defaulted"}
InCall == {"check", "make", "post", "load", "invoke", "remove", "accepted", "refused"}
Phases == {"open", "zeroed", "flagged", "draining", "down", "abandoned", "destroyed",
           "gone", "crashed"}
Results == {"none", "value", "error", "escaped"}

TypeOK ==
  /\ pc \in [Calls -> {"idle", "waiting"} \cup InCall \cup Finished]
  /\ queue \subseteq Calls /\ dataList \subseteq Calls
  /\ canceled \subseteq Calls /\ freed \subseteq Calls /\ returned \subseteq Sync
  /\ payloadFrees \in [Calls -> Nat] /\ runs \in [Calls -> Nat]
  /\ result \in [Calls -> Results]
  /\ running \in Calls \cup {NoCall} /\ step \in {"lock", "run", "end"}
  /\ phase \in Phases /\ shutdowns \in Nat
  /\ isShutDown \in BOOLEAN /\ npnFuncs \in BOOLEAN

Init ==
  /\ pc = [c \in Calls |-> "idle"]
  /\ queue = {} /\ dataList = {} /\ canceled = {} /\ freed = {} /\ returned = {}
  /\ payloadFrees = [c \in Calls |-> 0] /\ runs = [c \in Calls |-> 0]
  /\ result = [c \in Calls |-> "none"]
  /\ running = NoCall /\ step = "run"
  /\ phase = "open" /\ shutdowns = 0 /\ isShutDown = FALSE /\ npnFuncs = TRUE

-----------------------------------------------------------------------------
(* The locks, read off the program counters.                               *)

\* The caller of a synchronous call owns call->m_mutex until it waits.
HoldsCallMutex(c) == c \in Sync /\ pc[c] \in InCall

\* AsyncCallManager::shutdown keeps m_mutex while it runs the calls.
ManagerLocked == phase = "draining"

\* What the function of a call can do, as its callback sees it.  The sync one
\* catches script_error and keeps it, the async one catches bad_variant_cast
\* too and goes on as after a return, the log one catches every std::exception.
Outcomes(c) ==
  {"value"} \cup (IF c \in Async THEN {} ELSE {"error"})
            \cup (IF c \in Log THEN {} ELSE {"escaped"})

Go(c, from, to) ==
  /\ phase # "crashed"
  /\ pc[c] = from
  /\ pc' = [pc EXCEPT ![c] = to]

-----------------------------------------------------------------------------
(* A worker thread making call c.                                          *)

\* ScheduleOnMainThread, CallOnMainThread, htmlLog: allocate the userData;
\* the caller holds a strong reference to the host from here on.
Begin(c) ==
  /\ phase \notin {"destroyed", "gone"}
  /\ Go(c, "idle", "check")
  /\ UNCHANGED <<queue, manager, effects, main>>

\* CallOnMainThread on the main thread itself runs the function in place.
CallDirect(c) ==
  /\ c \in Sync
  /\ running = NoCall /\ phase \in {"open", "down"}
  /\ \E r \in Outcomes(c) :
       /\ Go(c, "idle", IF r = "value" THEN "returned" ELSE "threw")
       /\ result' = [result EXCEPT ![c] = r]
  /\ runs' = [runs EXCEPT ![c] = @ + 1]
  /\ UNCHANGED <<queue, manager, payloadFrees, returned, main>>

\* ScheduleAsyncCall: the first test of isShutDown().
CheckShutDown(c) ==
  /\ Go(c, "check", IF isShutDown THEN "refused" ELSE "make")
  /\ UNCHANGED <<queue, manager, effects, main>>

\* AsyncCallManager::makeCallback.
MakeCallback(c) ==
  /\ ~ManagerLocked
  /\ Go(c, "make", "post")
  /\ dataList' = dataList \cup {c}
  /\ UNCHANGED <<queue, canceled, freed, effects, main>>

\* NpapiBrowserHost::_scheduleAsyncCall: the second test of isShutDown().
PostCheck(c) ==
  /\ Go(c, "post", IF isShutDown THEN "remove" ELSE "load")
  /\ UNCHANGED <<queue, manager, effects, main>>

\* Mutant: report failure when NPNFuncs has been zeroed.
LoadFunctionOrFail(c) ==
  /\ Go(c, "load", IF npnFuncs THEN "invoke" ELSE "remove")
  /\ UNCHANGED <<queue, manager, effects, main>>

\* PluginThreadAsyncCall tests the function pointer.  A zeroed one is
\* skipped and _scheduleAsyncCall still returns true.
LoadFunction(c) ==
  /\ Go(c, "load", IF npnFuncs THEN "invoke" ELSE "accepted")
  /\ UNCHANGED <<queue, manager, effects, main>>

\* PluginThreadAsyncCall calls through the pointer.  The browser drops what
\* it is given for an instance it has destroyed.
InvokeFunction(c) ==
  /\ Go(c, "invoke", "accepted")
  /\ queue' = IF phase \in {"abandoned", "destroyed", "gone"} THEN queue ELSE queue \cup {c}
  /\ UNCHANGED <<manager, effects, main>>

\* The pointer is read a second time for the call; shutdown zeroed it since.
InvokeNull(c) ==
  /\ pc[c] = "invoke" /\ ~npnFuncs /\ phase # "crashed"
  /\ phase' = "crashed"
  /\ UNCHANGED <<pc, queue, manager, effects, running, step, shutdowns, isShutDown, npnFuncs>>

\* ScheduleAsyncCall: _scheduleAsyncCall failed, AsyncCallManager::remove.
RemoveCallback(c) ==
  /\ ~ManagerLocked
  /\ Go(c, "remove", "refused")
  /\ dataList' = dataList \ {c}
  /\ UNCHANGED <<queue, canceled, freed, effects, main>>

\* Mutant: nobody deletes the userData of a refused call.
RefusedLeaks(c) ==
  /\ Go(c, "refused", IF c \in Sync THEN "threw" ELSE "failed")
  /\ UNCHANGED <<queue, manager, effects, main>>

\* ScheduleAsyncCall returned false.  asyncCall and syncCallHelper delete
\* the userData; htmlLog ignores the result.
Refused(c) ==
  /\ Go(c, "refused", IF c \in Sync THEN "threw" ELSE "failed")
  /\ payloadFrees' = IF c \in Log THEN payloadFrees
                     ELSE [payloadFrees EXCEPT ![c] = @ + 1]
  /\ UNCHANGED <<queue, manager, runs, result, returned, main>>

\* ScheduleAsyncCall returned true.  A synchronous caller enters its wait,
\* which releases call->m_mutex.
Accepted(c) ==
  /\ Go(c, "accepted", IF c \in Sync THEN "waiting" ELSE "scheduled")
  /\ UNCHANGED <<queue, manager, effects, main>>

\* Mutant: one timed wait, no loop.
EndWaitAfterTimeout(c) ==
  /\ Go(c, "waiting", IF isShutDown THEN "threw" ELSE "returned")
  /\ UNCHANGED <<queue, manager, effects, main>>

\* The wait ends: syncCallHelper looks at isShutDown() once more before it
\* takes the result.  It looks for a script_error as a raw pointer, but the
\* callback stored a shared_ptr: the exception is not thrown again and the
\* caller gets the default value of the result type.
EndWait(c) ==
  /\ c \in returned \/ isShutDown
  /\ Go(c, "waiting", IF isShutDown THEN "threw"
                      ELSE IF result[c] = "error" THEN "defaulted" ELSE "returned")
  /\ UNCHANGED <<queue, manager, effects, main>>

Worker(c) ==
  \/ CheckShutDown(c) \/ MakeCallback(c) \/ PostCheck(c) \/ LoadFunction(c)
  \/ InvokeFunction(c) \/ InvokeNull(c) \/ RemoveCallback(c)
  \/ Refused(c) \/ Accepted(c) \/ EndWait(c)

-----------------------------------------------------------------------------
(* The main thread running a call.                                         *)

\* _asyncCallData::call enters the callback.
Enter(c) ==
  /\ running' = c
  /\ step' = IF c \in Sync THEN "lock" ELSE "run"

\* Mutant: AsyncCallManager::call does not look the data up.
DeliverUnchecked(c) ==
  /\ running = NoCall /\ phase \in {"open", "down"}
  /\ c \in queue
  /\ queue' = queue \ {c}
  /\ dataList' = dataList \ {c} /\ Enter(c)
  /\ UNCHANGED <<pc, canceled, freed, effects, phase, shutdowns, isShutDown, npnFuncs>>

\* asyncCallWrapper and AsyncCallManager::call: only a call that is still in
\* DataList runs.
Deliver(c) ==
  /\ running = NoCall /\ phase \in {"open", "down"}
  /\ c \in queue
  /\ queue' = queue \ {c}
  /\ IF c \in dataList
     THEN dataList' = dataList \ {c} /\ Enter(c)
     ELSE UNCHANGED <<dataList, running, step>>
  /\ UNCHANGED <<pc, canceled, freed, effects, phase, shutdowns, isShutDown, npnFuncs>>

\* syncCallbackFunctor: the caller owns the CrossThreadCall, the callback
\* holds it weakly until it has locked the pointer.
LockCall(c) ==
  /\ c \in Sync /\ running = c /\ step = "lock" /\ phase # "crashed"
  /\ step' = IF pc[c] \in Finished THEN "end" ELSE "run"
  /\ UNCHANGED <<pc, queue, manager, effects, running, phase, shutdowns, isShutDown, npnFuncs>>

\* asyncCallbackFunctor, syncCallbackFunctor and AsyncHtmlLog up to the end
\* of the function, or to the catch that takes what it throws.
RunFunction(c) ==
  /\ running = c /\ step = "run" /\ phase # "crashed"
  /\ step' = "end"
  /\ runs' = [runs EXCEPT ![c] = @ + 1]
  /\ \E r \in Outcomes(c) : result' = [result EXCEPT ![c] = r]
  /\ UNCHANGED <<pc, queue, manager, payloadFrees, returned, running,
                 phase, shutdowns, isShutDown, npnFuncs>>

\* Mutant: the drain deletes the data it has run, too.
FinishCallAlwaysDeletes(c) ==
  /\ running = c /\ step = "end" /\ phase # "crashed" /\ result[c] # "escaped"
  /\ ~HoldsCallMutex(c)
  /\ running' = NoCall
  /\ step' = "run"
  /\ returned' = IF c \in Sync /\ runs[c] > 0 THEN returned \cup {c} ELSE returned
  /\ payloadFrees' = [payloadFrees EXCEPT ![c] = @ + 1]
  /\ freed' = freed \cup {c}
  /\ UNCHANGED <<pc, queue, dataList, canceled, runs, result,
                 phase, shutdowns, isShutDown, npnFuncs>>

\* Mutant: the sync callback does not report that it returned.
FinishCallSilently(c) ==
  /\ running = c /\ step = "end" /\ phase # "crashed" /\ result[c] # "escaped"
  /\ ~HoldsCallMutex(c)
  /\ running' = NoCall
  /\ step' = "run"
  /\ payloadFrees' = [payloadFrees EXCEPT ![c] = @ + 1]
  /\ freed' = IF phase = "draining" THEN freed ELSE freed \cup {c}
  /\ UNCHANGED <<pc, queue, dataList, canceled, runs, result, returned,
                 phase, shutdowns, isShutDown, npnFuncs>>

\* The callback ends: the sync one sets m_returned under call->m_mutex, and
\* each frees its userData (AsyncHtmlLog not when logging threw).  Outside a
\* drain AsyncCallManager::call then deletes the _asyncCallData.
FinishCall(c) ==
  /\ running = c /\ step = "end" /\ phase # "crashed" /\ result[c] # "escaped"
  /\ ~HoldsCallMutex(c)
  /\ running' = NoCall
  /\ step' = "run"
  /\ returned' = IF c \in Sync /\ runs[c] > 0 THEN returned \cup {c} ELSE returned
  /\ payloadFrees' = IF c \in Log /\ result[c] = "error" THEN payloadFrees
                     ELSE [payloadFrees EXCEPT ![c] = @ + 1]
  /\ freed' = IF phase = "draining" THEN freed ELSE freed \cup {c}
  /\ UNCHANGED <<pc, queue, dataList, canceled, runs, result,
                 phase, shutdowns, isShutDown, npnFuncs>>

\* An exception nobody in the plugin catches leaves the callback.  Its
\* auto_ptr frees the userData, but m_returned is not set, nobody is woken
\* and AsyncCallManager::call does not delete the _asyncCallData.  In a drain
\* it also leaves the for_each, shutdown and NPP_Destroy: the rest of
\* DataList is neither run nor cleared, and for the browser the instance is
\* destroyed.
LeaveCall(c) ==
  /\ running = c /\ step = "end" /\ phase # "crashed" /\ result[c] = "escaped"
  /\ running' = NoCall
  /\ step' = "run"
  /\ payloadFrees' = [payloadFrees EXCEPT ![c] = @ + 1]
  /\ phase' \in {"crashed", IF phase = "draining" THEN "abandoned" ELSE phase}
  /\ queue' = IF phase = "draining" THEN {} ELSE queue
  /\ UNCHANGED <<pc, manager, runs, result, returned, shutdowns, isShutDown, npnFuncs>>

-----------------------------------------------------------------------------
(* The main thread in NPP_Destroy.                                         *)

\* NpapiBrowserHost::shutdown zeroes NPNFuncs first; entered from
\* NPP_Destroy and again from ~PluginCore.
ShutdownBegin ==
  /\ MayShutDown /\ running = NoCall
  /\ phase = "open" \/ (phase = "down" /\ shutdowns = 1)
  /\ phase' = "zeroed"
  /\ npnFuncs' = FALSE
  /\ UNCHANGED <<pc, queue, manager, effects, running, step, shutdowns, isShutDown>>

\* BrowserHost::shutdown.  The upgrade lock on m_xtmutex does not exclude
\* the shared locks of the callers.
SetShutDown ==
  /\ phase = "zeroed"
  /\ phase' = "flagged"
  /\ isShutDown' = TRUE
  /\ UNCHANGED <<pc, queue, manager, effects, running, step, shutdowns, npnFuncs>>

\* AsyncCallManager::shutdown locks m_mutex and keeps the data for deletion.
DrainBegin ==
  /\ phase = "flagged"
  /\ phase' = "draining"
  /\ canceled' = canceled \cup dataList
  /\ UNCHANGED <<pc, queue, dataList, freed, effects, running, step, shutdowns, isShutDown, npnFuncs>>

\* It runs every call in DataList, in the order of their addresses.  Nobody
\* can see DataList meanwhile, so a call leaves it when its turn comes.
DrainOne(c) ==
  /\ phase = "draining" /\ running = NoCall
  /\ c \in dataList
  /\ dataList' = dataList \ {c}
  /\ Enter(c)
  /\ UNCHANGED <<pc, queue, canceled, freed, effects, phase, shutdowns, isShutDown, npnFuncs>>

\* Mutant: the calls are cleared without being run.
DrainEndSkips ==
  /\ phase = "draining" /\ running = NoCall
  /\ dataList' = {}
  /\ phase' = "down"
  /\ shutdowns' = shutdowns + 1
  /\ UNCHANGED <<pc, queue, canceled, freed, effects, running, step, isShutDown, npnFuncs>>

DrainEnd ==
  /\ phase = "draining" /\ running = NoCall /\ dataList = {}
  /\ phase' = "down"
  /\ shutdowns' = shutdowns + 1
  /\ UNCHANGED <<pc, queue, manager, effects, running, step, isShutDown, npnFuncs>>

\* NPP_Destroy deletes the holder and lets go of the host.  The browser
\* delivers nothing to the instance any more.
Destroy ==
  /\ phase = "down" /\ shutdowns = 2 /\ running = NoCall
  /\ phase' = "destroyed"
  /\ queue' = {}
  /\ UNCHANGED <<pc, manager, effects, running, step, shutdowns, isShutDown, npnFuncs>>

\* The last reference to the host goes, here or in a caller: ~BrowserHost,
\* ~AsyncCallManager delete what the shutdown kept.  An exception out of the
\* second shutdown comes from a destructor and lets go of the host as well;
\* one out of the first leaves the holder, which keeps the host for ever.
HostGone ==
  /\ phase = "destroyed" \/ (phase = "abandoned" /\ shutdowns = 1)
  /\ \A c \in Calls : pc[c] \in {"idle"} \cup Finished
  /\ phase' = "gone"
  /\ freed' = freed \cup canceled
  /\ UNCHANGED <<pc, queue, dataList, canceled, effects, running, step, shutdowns, isShutDown, npnFuncs>>

-----------------------------------------------------------------------------
MainThread ==
  \/ \E c \in Calls :
       \/ Deliver(c) \/ LockCall(c) \/ RunFunction(c) \/ FinishCall(c) \/ LeaveCall(c)
       \/ DrainOne(c)
  \/ SetShutDown \/ DrainBegin \/ DrainEnd

Next ==
  \/ \E c \in Calls : Begin(c) \/ CallDirect(c) \/ Worker(c)
  \/ MainThread
  \/ ShutdownBegin \/ Destroy \/ HostGone

Spec == Init /\ [][Next]_vars

\* A thread that can take a step takes it: every worker that has begun its
\* call, and the main thread, which delivers what is queued and finishes a
\* shutdown it has started.  Nobody has to begin a call or close the page.
Fairness ==
  /\ \A c \in Calls : WF_vars(Worker(c))
  /\ WF_vars(MainThread)

FairSpec == Spec /\ Fairness

-----------------------------------------------------------------------------
(* Properties.                                                             *)

\* The function of a call runs at most once, whoever gets to it first: the
\* browser's delivery, the drain of either shutdown, or nobody.
RunAtMostOnce == \A c \in Calls : runs[c] <= 1

\* AsyncCallManager::call and ~AsyncCallManager never delete the same
\* _asyncCallData, and the browser never delivers one that was deleted.
DataDeletedOnce ==
  /\ phase # "gone" => canceled \cap freed = {}
  /\ queue \cap freed = {}

\* A value that CallOnMainThread returns is its function's: the function ran
\* once and to its end, however the wait, the delivery and the shutdown
\* interleave, and neither a call given up nor one that an exception left
\* returns.  One case breaks the promise of BrowserHost.h:131-132 and is kept
\* apart as "defaulted": after a script_error, and then only, the caller gets
\* a default value and no exception (CrossThreadCall.h:206).
ReturnedMeansRan ==
  \A c \in Sync :
    /\ pc[c] = "returned" => runs[c] = 1 /\ running # c /\ result[c] = "value"
    /\ pc[c] = "defaulted" => runs[c] = 1 /\ running # c /\ result[c] = "error"

\* Each call keeps the promise of OneShotCalls.
Pending(c) == c \in dataList \/ (running = c /\ step # "end")

StatusOf(c) ==
  IF runs[c] > 0 THEN "ran"
  ELSE IF Pending(c) THEN "pending"
  ELSE IF pc[c] \in {"idle", "check", "make"} THEN "idle"
  ELSE "dropped"

CallStatus == [c \in Calls |-> StatusOf(c)]

OneShot == INSTANCE OneShotCalls WITH status <- CallStatus, closed <- isShutDown

RunsOnceOrNever == OneShot!Spec

\* The deadlock of shutdown: the drain runs call c with the manager's mutex
\* held and needs call->m_mutex to report the result; the caller of c holds
\* call->m_mutex and needs the manager's to remove the call.
MutexCycle ==
  \E c \in Sync : ManagerLocked /\ running = c /\ step = "end" /\ pc[c] = "remove"

Halted == MutexCycle \/ phase = "crashed"

\* An exception has left the drain before it was done.
DrainLeft == phase = "abandoned"

\* A call reported as scheduled runs: delivered by the browser, or by the
\* drain when the browser never got it or dropped it.  Three things can keep
\* it from running: the deadlock, a crash, and another call of the drain that
\* throws what its callback does not catch.
ScheduledRuns ==
  \A c \in Async \cup Log : pc[c] = "scheduled" ~> (runs[c] > 0 \/ Halted \/ DrainLeft)

\* The CrossThreadCall allocated for an asynchronous call is deleted, whether
\* the call is delivered, drained or refused and whatever its function
\* throws, unless the drain that should have run it was left early.
NoLeak ==
  \A c \in Async : pc[c] = "check" ~> (payloadFrees[c] > 0 \/ Halted \/ DrainLeft)

\* CallOnMainThread returns or throws, and a shutdown makes it do so, with
\* two exceptions.  The cycle of the two mutexes holds it for ever.  A
\* function that throws anything but a script_error leaves its caller waiting
\* (CrossThreadCall.cpp:28), but no longer than until the shutdown.
SyncWaitEnds ==
  \A c \in Sync :
    /\ pc[c] = "check" ~> (pc[c] \in Finished \/ Halted \/ result[c] = "escaped")
    /\ (pc[c] # "idle" /\ isShutDown) ~> (pc[c] \in Finished \/ Halted)

\* "The call will throw this exception if the browser is shutting down and it
\* cannot be completed" (BrowserHost.h:122-123): once the host is shutting
\* down, CallOnMainThread returns or throws.
SyncCallEnds ==
  \A c \in Sync : (pc[c] # "idle" /\ isShutDown) ~> (pc[c] \in Finished \/ phase = "crashed")

\* "true if the call was scheduled, false if it could not be"
\* (BrowserHost.h:105): after a false the function has not run.
FalseMeansNotScheduled ==
  \A c \in Calls : pc[c] = "refused" => runs[c] = 0

-----------------------------------------------------------------------------
(* The inductive invariant behind RunAtMostOnce, DataDeletedOnce and       *)
(* ReturnedMeansRan.  A call is in one place at a time, from the moment it *)
(* is registered until it has run or is given up, and the callers' progress *)
(* bounds where it can be.                                                 *)

NotMade(c) == pc[c] \in {"idle", "check", "make"}
NotPosted(c) == NotMade(c) \/ pc[c] \in {"post", "load", "invoke"}
Kept == phase \in {"draining", "crashed", "abandoned", "gone"}

\* Before makeCallback nothing knows of the call.
UnknownBeforeMade ==
  \A c \in Calls : NotMade(c) =>
    /\ c \notin dataList /\ c \notin canceled /\ running # c
    /\ runs[c] = 0

\* Before it is posted the browser cannot deliver it, only a drain runs it.
UndeliveredBeforePosted ==
  \A c \in Calls : NotPosted(c) =>
    /\ c \notin queue /\ c \notin freed
    /\ running = c => Kept

\* A call that has run has left DataList for good.
RanMeansGone ==
  \A c \in Calls : runs[c] > 0 =>
    /\ runs[c] = 1 /\ c \notin dataList
    /\ running = c => step = "end"
    /\ result[c] # "none"

\* DataList, the main thread and the two ways to delete exclude each other.
OnePlace ==
  \A c \in Calls :
    /\ c \in dataList => running # c /\ (c \in canceled => Kept) /\ (phase # "gone" => c \notin freed)
    /\ running = c => c \notin freed /\ (~Kept => c \notin canceled /\ c \notin queue)
    /\ c \in returned => runs[c] > 0 /\ running # c /\ result[c] # "escaped"
    /\ pc[c] = "returned" => runs[c] > 0 /\ running # c /\ result[c] = "value"
    /\ pc[c] = "defaulted" => runs[c] > 0 /\ running # c /\ result[c] = "error"

\* What the end of NPP_Destroy leaves.
AfterDestroy ==
  /\ phase \in {"abandoned", "destroyed", "gone"} => queue = {} /\ running = NoCall
  /\ phase = "gone" => \A c \in Calls : pc[c] \in {"idle"} \cup Finished

\* A caller is turned away, or leaves its registered call behind, only when
\* the host is shutting down.
GivenUpOnlyWhenClosed ==
  \A c \in Calls :
    /\ pc[c] \in {"remove", "refused"} => isShutDown
    /\ c \in Sync => pc[c] \notin {"scheduled", "failed"}
    /\ c \in Sync /\ pc[c] = "threw" /\ Pending(c) => isShutDown

IInv ==
  /\ TypeOK
  /\ UnknownBeforeMade /\ UndeliveredBeforePosted
  /\ RanMeansGone /\ OnePlace /\ AfterDestroy
  /\ DataDeletedOnce /\ GivenUpOnlyWhenClosed

=============================================================================
