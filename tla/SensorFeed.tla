----------------------------- MODULE SensorFeed -----------------------------
(***************************************************************************)
(* The plugin's frame loop (ZigJS::ReadFrame) and what each page learns    *)
(* from it.  One sensor is shared by all pages; every 30 ms the main       *)
(* thread runs ReadFrame, which opens the sensor when there is none, reads *)
(* it and serves the ZigJSAPI object (a listener) of each page.            *)
(*                                                                         *)
(* All of it runs on the main thread, so one ReadFrame is one step.  The   *)
(* page's handlers are not: an event is handed to setTimeout and handled   *)
(* in a later step.  A ReadFrame is scheduled by the timer's callback on    *)
(* the host of an open page: while no page is open none is scheduled.      *)
(* The sensor is seen through Valid() and ReadFrame();                     *)
(* the watermark through IsOk(), whose answer changes with the clock.      *)
(***************************************************************************)
EXTENDS Naturals, FiniteSets

CONSTANTS
  Listeners,    \* the ZigJSAPI objects pages will create
  Streams,      \* depth, image and label map
  ReopenWait,   \* REOPEN_WAIT_FRAMES
  MaxFrames     \* bound: frames with new data

ASSUME FeedAssumption == ReopenWait \in Nat /\ MaxFrames \in Nat

VARIABLES
  sensor,       \* s_sensor: "none", "valid" or "invalid"
  device,       \* is a working device plugged in?
  queued,       \* is a ReadFrame scheduled?
  rest,         \* frameRestCount
  wasConnected, \* wasSensorConnected
  streams,      \* s_getDepth, s_getImage and s_getLabelmap
  frame,        \* number of the last frame with new data
  listeners,    \* s_listeners
  page,         \* the page and the object behind each listener
  marked,       \* does m_watermark.IsOk() hold?
  firing,       \* firingEvents
  maps,         \* the frame each map attribute was made from
  pending,      \* NewFrame events fired and not yet handled by the page
  told,         \* the connection status the page last read or was sent
  missed,       \* was the last status change not sent to this listener?
  sinceOpen     \* frames since the last InitSensor, up to ReopenWait

sensorVars == <<sensor, queued, rest, wasConnected, frame, sinceOpen>>
pageVars == <<maps, pending, told, missed>>
vars == <<sensorVars, device, streams, listeners, page, marked, firing, pageVars>>

\* A NewFrame event, with the streams whose maps were refreshed for it.
Events == [frame : 1..MaxFrames, streams : SUBSET Streams]

\* "created": registered, handlers not yet attached; "dead": instance
\* destroyed, the object still referenced; "freed": object destroyed.
PageStates == {"new", "created", "open", "dead", "freed"}

TypeOK ==
  /\ sensor \in {"none", "valid", "invalid"} /\ device \in BOOLEAN /\ queued \in BOOLEAN
  /\ rest \in 0..ReopenWait /\ sinceOpen \in 0..ReopenWait
  /\ wasConnected \in BOOLEAN
  /\ streams \subseteq Streams /\ frame \in 0..MaxFrames
  /\ listeners \subseteq Listeners /\ page \in [Listeners -> PageStates]
  /\ marked \in [Listeners -> BOOLEAN] /\ firing \in [Listeners -> BOOLEAN]
  /\ maps \in [Listeners -> [Streams -> 0..MaxFrames]]
  /\ pending \in [Listeners -> SUBSET Events]
  /\ told \in [Listeners -> BOOLEAN] /\ missed \in [Listeners -> BOOLEAN]

Init ==
  /\ sensor = "none" /\ queued = FALSE /\ rest = ReopenWait /\ wasConnected = FALSE
  /\ device \in BOOLEAN
  /\ streams = {} /\ frame = 0 /\ sinceOpen = ReopenWait
  /\ listeners = {} /\ page = [l \in Listeners |-> "new"]
  /\ marked = [l \in Listeners |-> TRUE] /\ firing = [l \in Listeners |-> TRUE]
  /\ maps = [l \in Listeners |-> [s \in Streams |-> 0]]
  /\ pending = [l \in Listeners |-> {}]
  /\ told = [l \in Listeners |-> FALSE] /\ missed = [l \in Listeners |-> FALSE]

-----------------------------------------------------------------------------
(* ReadFrame, the part that serves the listeners.                          *)

\* onStatusChange and onNewFrame reach a handler.
Hears(l) == page[l] = "open" /\ marked[l] /\ firing[l]

\* setImageMap, setDepthMap and setLabelMap store the map.
TakesMaps(l) == page[l] # "freed" /\ marked[l]

\* Mutant: the status is looked at only when there is new data.
ChangedWithData(ok, read) == ok # wasConnected /\ read = "new"

\* isSensorOk differs from what the last full frame saw.
Changed(ok, read) == ok # wasConnected

\* Mutant: an exception clears the list.
DroppedAll(thrown) == IF thrown = {} THEN {} ELSE listeners

\* Mutant: an expired pointer is skipped, not erased.
DroppedThrown(thrown) == thrown

\* Expired weak pointers are erased, and listeners whose call threw.
Dropped(thrown) == thrown \cup {l \in listeners : page[l] = "freed"}

\* Mutant: onNewFrame does not test the watermark again.
FiresFrameAlways(l, late) == page[l] = "open" /\ firing[l]

\* A watermark may expire between the setters and onNewFrame.
FiresFrame(l, late) == Hears(l) /\ l \notin late

\* The loop over s_listeners.  Calls into a page that is gone are dropped or
\* throw; the watermarks in "late" expire while their page is served.
ServeListeners(ok, read) ==
  LET changed == Changed(ok, read)
      new == read = "new"
      sent == {l \in listeners : changed /\ Hears(l)}
  IN \E thrown \in SUBSET {l \in listeners : page[l] = "dead" /\ (changed \/ new)},
        late \in SUBSET {l \in listeners : marked[l] /\ new} :
       /\ listeners' = listeners \ Dropped(thrown)
       /\ marked' = [l \in Listeners |-> marked[l] /\ l \notin late]
       /\ told' = [l \in Listeners |-> IF l \in sent THEN ok ELSE told[l]]
       /\ missed' = [l \in Listeners |->
                       IF changed /\ l \in listeners THEN l \notin sent ELSE missed[l]]
       /\ maps' = [l \in Listeners |-> [s \in Streams |->
                     IF new /\ l \in listeners /\ TakesMaps(l) /\ s \in streams
                       THEN frame' ELSE maps[l][s]]]
       /\ pending' = [l \in Listeners |->
                        IF new /\ l \in listeners /\ FiresFrame(l, late)
                          THEN pending[l] \cup {[frame |-> frame', streams |-> streams]}
                          ELSE pending[l]]

\* From the test of Valid() on, with s_sensor = s.  The sensor's ReadFrame
\* returns new data, nothing new, or nothing because the sensor has failed.
Serve(s) ==
  LET ok == s = "valid"
  IN \E read \in IF ok THEN {"new", "same", "failed"} ELSE {"none"} :
       /\ read = "new" => frame < MaxFrames
       /\ frame' = IF read = "new" THEN frame + 1 ELSE frame
       /\ sensor' = IF ~ok THEN "none" ELSE IF read = "failed" THEN "invalid" ELSE s
       /\ wasConnected' = ok
       /\ ServeListeners(ok, read)
       /\ UNCHANGED <<device, streams, page, firing>>

Tick == sinceOpen' = IF sinceOpen < ReopenWait THEN sinceOpen + 1 ELSE sinceOpen

\* Mutant: the counter is not reset by an attempt.
RestKept == rest' = ReopenWait

RestReset == rest' = 0

\* Mutant: the count stops one short of the limit.
RestStuck == rest' = IF rest + 1 < ReopenWait THEN rest + 1 ELSE rest

RestOneMore == rest' = rest + 1

\* The incremented counter does not exceed REOPEN_WAIT_FRAMES.
TooSoon == rest + 1 <= ReopenWait

\* ReadFrame without a sensor, too soon after the last attempt.
WaitToReopen ==
  /\ sensor = "none" /\ TooSoon
  /\ RestOneMore /\ Tick
  /\ UNCHANGED <<sensor, wasConnected, frame, device, streams, listeners, page,
                 marked, firing, pageVars>>

\* InitSensor: a working device opens; without one CreateSensor returns
\* either nothing or an instance that is not Valid().
Opened == IF device THEN {"valid"} ELSE {"none", "invalid"}

\* ReadFrame without a sensor, after the wait.
OpenSensor ==
  /\ sensor = "none" /\ ~TooSoon
  /\ RestReset /\ sinceOpen' = 0
  /\ \E s \in Opened : Serve(s)

\* ReadFrame with a sensor.
ReadSensor ==
  /\ sensor # "none"
  /\ UNCHANGED rest /\ Tick
  /\ Serve(sensor)

ReadFrame ==
  /\ queued /\ queued' = FALSE
  /\ WaitToReopen \/ OpenSensor \/ ReadSensor

\* The host of a page that has not been closed.
HostLives == \E l \in Listeners : page[l] \in {"created", "open"}

\* TimerCallback, every 30 ms on the io thread, finds a host and schedules
\* ReadFrame on it.  When its page is closed first, the drain of NPP_Destroy
\* runs the call, with the page already dead to what it sends.  Bound: one
\* ReadFrame waits; a second one behind it adds nothing to what it does.
TimerCallback ==
  /\ HostLives /\ ~queued
  /\ queued' = TRUE
  /\ UNCHANGED <<sensor, rest, wasConnected, frame, sinceOpen, device, streams, listeners,
                 page, marked, firing, pageVars>>

-----------------------------------------------------------------------------
(* The pages.                                                              *)

\* createJSAPI and AddListener.
Create(l) ==
  /\ page[l] = "new"
  /\ page' = [page EXCEPT ![l] = "created"]
  /\ listeners' = listeners \cup {l}
  /\ UNCHANGED <<sensorVars, device, streams, marked, firing, pageVars>>

IsSensorConnected == sensor = "valid"

\* A script attaches its handlers and reads sensorConnected.
Load(l) ==
  /\ page[l] = "created"
  /\ page' = [page EXCEPT ![l] = "open"]
  /\ told' = [told EXCEPT ![l] = IsSensorConnected]
  /\ missed' = [missed EXCEPT ![l] = FALSE]
  /\ UNCHANGED <<sensorVars, device, streams, listeners, marked, firing, maps, pending>>

\* requestStreams: the last page to ask decides for all of them.
RequestStreams(l) ==
  /\ page[l] = "open" /\ marked[l]
  /\ streams' \in SUBSET Streams
  /\ UNCHANGED <<sensorVars, device, listeners, page, marked, firing, pageVars>>

SetFiringEvents(l) ==
  /\ page[l] = "open"
  /\ firing' = [firing EXCEPT ![l] = ~@]
  /\ UNCHANGED <<sensorVars, device, streams, listeners, page, marked, pageVars>>

\* The watermark times out, or a later validation renews it.
WatermarkChanges(l) ==
  /\ page[l] \in {"created", "open"}
  /\ marked' = [marked EXCEPT ![l] = ~@]
  /\ UNCHANGED <<sensorVars, device, streams, listeners, page, firing, pageVars>>

\* The page's onNewFrame handler runs, and reads the map attributes.
Handle(l) ==
  /\ page[l] = "open"
  /\ \E e \in pending[l] : pending' = [pending EXCEPT ![l] = @ \ {e}]
  /\ UNCHANGED <<sensorVars, device, streams, listeners, page, marked, firing,
                 maps, told, missed>>

\* NPP_Destroy; the object lives until its last reference is dropped.  Events
\* the page has not handled yet are not followed any further.
ClosePage(l) ==
  /\ page[l] \in {"created", "open"}
  /\ page' = [page EXCEPT ![l] = "dead"]
  /\ pending' = [pending EXCEPT ![l] = {}]
  /\ UNCHANGED <<sensorVars, device, streams, listeners, marked, firing, maps, told, missed>>

FreeObject(l) ==
  /\ page[l] = "dead"
  /\ page' = [page EXCEPT ![l] = "freed"]
  /\ UNCHANGED <<sensorVars, device, streams, listeners, marked, firing, pageVars>>

-----------------------------------------------------------------------------
(* The device: it comes and goes, and the global error callback may mark   *)
(* the sensor at any time.                                                 *)

Plug ==
  /\ device' = ~device
  /\ UNCHANGED <<sensorVars, streams, listeners, page, marked, firing, pageVars>>

ErrorCallback ==
  /\ sensor = "valid" /\ sensor' = "invalid"
  /\ UNCHANGED <<queued, rest, wasConnected, frame, sinceOpen, device, streams, listeners,
                 page, marked, firing, pageVars>>

PageNext(l) ==
  \/ Create(l) \/ Load(l) \/ RequestStreams(l) \/ SetFiringEvents(l)
  \/ WatermarkChanges(l) \/ Handle(l) \/ ClosePage(l) \/ FreeObject(l)

Next == ReadFrame \/ TimerCallback \/ Plug \/ ErrorCallback \/ \E l \in Listeners : PageNext(l)

Spec == Init /\ [][Next]_vars

\* The timer fires every 30 ms, and the browser, or the drain of a closing
\* page, runs the call that its callback has scheduled.  The callback
\* schedules nothing when no page is open (ZigJS.cpp:153), and nothing is
\* assumed of that time: TimerCallback is enabled only when a host lives.
FairSpec == Spec /\ WF_vars(TimerCallback) /\ WF_vars(ReadFrame)

-----------------------------------------------------------------------------
(* Properties.                                                             *)

\* A page that was sent the last status change, or read sensorConnected after
\* it, knows whether the sensor is connected, except while a failure waits
\* for the next frame to be noticed (ZigJS.cpp:85, ZigJS.cpp:160).
StatusKnown ==
  sensor # "invalid" =>
    \A l \in listeners : page[l] = "open" /\ ~missed[l] => told[l] = (sensor = "valid")

\* Whenever a page handles a NewFrame event, each map delivered for it is
\* that frame's map or a later one, never an older one, although the
\* attributes are stored before the event and read after it.
MapsNotOlderThanEvent ==
  \A l \in Listeners : \A e \in pending[l] : \A s \in e.streams : maps[l][s] >= e.frame

\* A listener whose page is open is not erased by what happens to others
\* (ZigJS.cpp:106 erases only the listener that threw).
OpenPagesStay ==
  [][\A l \in listeners : page[l] = "open" => l \in listeners']_vars

\* InitSensor is never tried again before the wait is over, whatever the
\* sensor did in between ("magic number needed by OpenNI", ZigJS.cpp:57).
AttemptsAreSpaced == [][OpenSensor => sinceOpen >= ReopenWait]_vars

\* While there is a page to run the frame loop, a device that stays plugged in
\* is opened again after every failure.
DeviceIsReopened == <>[](device /\ HostLives) => []<>wasConnected

\* The loop erases the listener of every destroyed object: while some page is
\* open there comes a time, again and again, when none is left (ZigJS.cpp:104).
FreedListenersAreErased == <>[]HostLives => []<>(\A l \in listeners : page[l] # "freed")

-----------------------------------------------------------------------------
(* The inductive invariant behind StatusKnown, MapsNotOlderThanEvent and      *)
(* AttemptsAreSpaced.                                                      *)

\* Between frames wasSensorConnected is what the sensor was when last seen.
StatusAgrees ==
  wasConnected = (sensor # "none")

\* A loaded page that differs from wasSensorConnected has read a failure
\* that the next frame will announce.
ToldAgrees ==
  \A l \in listeners : page[l] = "open" /\ ~missed[l] =>
    told[l] = wasConnected \/ (sensor = "invalid" /\ ~told[l])

\* No map is numbered ahead of the frame counter.
MapsNotAhead == \A l \in Listeners : \A s \in Streams : maps[l][s] <= frame

\* The counter claims no more rest than there has been.
RestIsReal == rest <= sinceOpen

IInv ==
  /\ TypeOK /\ StatusAgrees /\ ToldAgrees
  /\ MapsNotAhead /\ MapsNotOlderThanEvent /\ RestIsReal
=============================================================================
