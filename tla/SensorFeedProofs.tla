-------------------------- MODULE SensorFeedProofs --------------------------
(***************************************************************************)
(* What SensorFeed promises its pages, for any number of pages and streams *)
(* and any wait.  Type correctness is part of the inductive invariant; the *)
(* other parts say that wasSensorConnected follows s_sensor from frame to  *)
(* frame, that every page that missed nothing agrees with it, and that no  *)
(* event waits for a page with an older map.                               *)
(***************************************************************************)
EXTENDS SensorFeed, TLAPS

\* ReadFrame from the test of Valid() on keeps the types.
LEMMA ServeKeepsTypes ==
  ASSUME TypeOK, queued' \in BOOLEAN, NEW s \in {"none", "valid", "invalid"}, Serve(s),
         rest' \in 0..ReopenWait, sinceOpen' \in 0..ReopenWait
  PROVE  TypeOK'
<1> DEFINE ok == s = "valid"
<1> USE FeedAssumption
<1>1. PICK read \in (IF ok THEN {"new", "same", "failed"} ELSE {"none"}) :
        /\ read = "new" => frame < MaxFrames
        /\ frame' = IF read = "new" THEN frame + 1 ELSE frame
        /\ sensor' = IF ~ok THEN "none" ELSE IF read = "failed" THEN "invalid" ELSE s
        /\ wasConnected' = ok
        /\ ServeListeners(ok, read)
        /\ UNCHANGED <<device, streams, page, firing>>
  BY DEF Serve
<1>2. frame' \in 0..MaxFrames /\ (read = "new" => frame' \in 1..MaxFrames)
  BY <1>1 DEF TypeOK
<1>3. PICK thrown \in SUBSET {l \in listeners : page[l] = "dead" /\ (Changed(ok, read) \/ read = "new")},
           late \in SUBSET {l \in listeners : marked[l] /\ read = "new"} :
        /\ listeners' = listeners \ Dropped(thrown)
        /\ marked' = [l \in Listeners |-> marked[l] /\ l \notin late]
        /\ told' = [l \in Listeners |->
                      IF l \in {k \in listeners : Changed(ok, read) /\ Hears(k)} THEN ok ELSE told[l]]
        /\ missed' = [l \in Listeners |->
                        IF Changed(ok, read) /\ l \in listeners
                          THEN l \notin {k \in listeners : Changed(ok, read) /\ Hears(k)}
                          ELSE missed[l]]
        /\ maps' = [l \in Listeners |-> [t \in Streams |->
                      IF read = "new" /\ l \in listeners /\ TakesMaps(l) /\ t \in streams
                        THEN frame' ELSE maps[l][t]]]
        /\ pending' = [l \in Listeners |->
                         IF read = "new" /\ l \in listeners /\ FiresFrame(l, late)
                           THEN pending[l] \cup {[frame |-> frame', streams |-> streams]}
                           ELSE pending[l]]
  BY <1>1 DEF ServeListeners
<1>4. listeners' \subseteq Listeners
  BY <1>3 DEF TypeOK
<1>5. marked' \in [Listeners -> BOOLEAN]
  BY <1>3 DEF TypeOK
<1>6. told' \in [Listeners -> BOOLEAN]
  BY <1>3 DEF TypeOK
<1>7. missed' \in [Listeners -> BOOLEAN]
  BY <1>3 DEF TypeOK
<1>8. maps' \in [Listeners -> [Streams -> 0..MaxFrames]]
  BY <1>2, <1>3 DEF TypeOK
<1>9. pending' \in [Listeners -> SUBSET Events]
  <2>1. read = "new" => [frame |-> frame', streams |-> streams] \in Events
    BY <1>2 DEF TypeOK, Events
  <2> QED BY <2>1, <1>3 DEF TypeOK
<1>10. sensor' \in {"none", "valid", "invalid"} /\ wasConnected' \in BOOLEAN
  BY <1>1
<1> QED BY <1>1, <1>2, <1>4, <1>5, <1>6, <1>7, <1>8, <1>9, <1>10 DEF TypeOK

\* ReadFrame, served with the sensor it starts with or has just opened,
\* leaves every page that missed nothing in agreement with the sensor.
LEMMA ServeKeepsAgreement ==
  ASSUME IInv, NEW s \in {"none", "valid", "invalid"}, Serve(s),
         sensor = "none" \/ s = sensor
  PROVE  StatusAgrees' /\ ToldAgrees'
<1> DEFINE ok == s = "valid"
<1>1. PICK read \in (IF ok THEN {"new", "same", "failed"} ELSE {"none"}) :
        /\ sensor' = IF ~ok THEN "none" ELSE IF read = "failed" THEN "invalid" ELSE s
        /\ wasConnected' = ok
        /\ ServeListeners(ok, read)
        /\ UNCHANGED page
  BY DEF Serve
<1>2. StatusAgrees'
  BY <1>1 DEF StatusAgrees
<1>3. /\ listeners' \subseteq listeners
      /\ told' = [l \in Listeners |->
                    IF l \in {k \in listeners : Changed(ok, read) /\ Hears(k)} THEN ok ELSE told[l]]
      /\ missed' = [l \in Listeners |->
                      IF Changed(ok, read) /\ l \in listeners
                        THEN l \notin {k \in listeners : Changed(ok, read) /\ Hears(k)}
                        ELSE missed[l]]
  BY <1>1 DEF ServeListeners, Dropped
<1>4. ASSUME NEW l \in listeners', page'[l] = "open", ~missed'[l]
      PROVE  told'[l] = ok
  <2>1. l \in listeners /\ l \in Listeners /\ page[l] = "open"
    BY <1>1, <1>3, <1>4 DEF IInv, TypeOK
  <2>2. CASE Changed(ok, read)
    BY <2>1, <2>2, <1>3, <1>4
  <2>3. CASE ~Changed(ok, read)
    <3>1. ok = wasConnected
      BY <2>3 DEF Changed, IInv, TypeOK
    <3>2. told'[l] = told[l] /\ ~missed[l]
      BY <2>1, <2>3, <1>3, <1>4
    <3>3. told[l] = wasConnected \/ (sensor = "invalid" /\ ~told[l])
      BY <2>1, <3>2 DEF IInv, ToldAgrees
    <3>4. sensor = "invalid" => ok # wasConnected
      BY DEF IInv, StatusAgrees
    <3> QED BY <3>1, <3>2, <3>3, <3>4
  <2> QED BY <2>2, <2>3
<1>5. ToldAgrees'
  BY <1>1, <1>4 DEF ToldAgrees
<1> QED BY <1>2, <1>5

\* ReadFrame stores a page's maps before it fires the event for them.
LEMMA ServeKeepsMaps ==
  ASSUME IInv, NEW s \in {"none", "valid", "invalid"}, Serve(s)
  PROVE  MapsNotAhead' /\ MapsNotOlderThanEvent'
<1> USE FeedAssumption
<1> DEFINE ok == s = "valid"
<1>1. PICK read \in (IF ok THEN {"new", "same", "failed"} ELSE {"none"}) :
        /\ frame' = IF read = "new" THEN frame + 1 ELSE frame
        /\ ServeListeners(ok, read)
        /\ UNCHANGED <<page, firing, streams>>
  BY DEF Serve
<1>2. frame \in Nat /\ frame' \in Nat /\ frame' >= frame
  BY <1>1 DEF IInv, TypeOK
<1>3. PICK late \in SUBSET listeners :
        /\ maps' = [l \in Listeners |-> [t \in Streams |->
                      IF read = "new" /\ l \in listeners /\ TakesMaps(l) /\ t \in streams
                        THEN frame' ELSE maps[l][t]]]
        /\ pending' = [l \in Listeners |->
                         IF read = "new" /\ l \in listeners /\ FiresFrame(l, late)
                           THEN pending[l] \cup {[frame |-> frame', streams |-> streams]}
                           ELSE pending[l]]
  BY <1>1 DEF ServeListeners
<1>0. ASSUME NEW l \in Listeners, NEW t \in Streams
      PROVE  /\ maps'[l][t] = frame' \/ maps'[l][t] = maps[l][t]
             /\ maps[l][t] \in Nat /\ maps[l][t] <= frame /\ maps'[l][t] <= frame'
  <2>1. maps'[l][t] = frame' \/ maps'[l][t] = maps[l][t]
    BY <1>3
  <2>2. maps[l][t] \in Nat /\ maps[l][t] <= frame
    BY DEF IInv, TypeOK, MapsNotAhead
  <2> QED BY <1>2, <2>1, <2>2
<1>6. MapsNotAhead'
  BY <1>0 DEF MapsNotAhead
<1> SUFFICES ASSUME NEW l \in Listeners, NEW e \in pending'[l], NEW t \in e.streams
             PROVE  maps'[l][t] >= e.frame
  BY <1>6 DEF MapsNotOlderThanEvent
<1>4. CASE e \in pending[l]
  <2>1. e \in Events /\ t \in Streams
    BY <1>4 DEF IInv, TypeOK, Events
  <2>2. maps[l][t] >= e.frame
    BY <1>4 DEF IInv, MapsNotOlderThanEvent
  <2>3. maps[l][t] \in 0..MaxFrames /\ e.frame \in 1..MaxFrames
    BY <2>1 DEF IInv, TypeOK, Events
  <2> QED BY <1>0, <1>2, <2>1, <2>2, <2>3
<1>5. CASE e \notin pending[l]
  <2>1. /\ read = "new" /\ l \in listeners /\ FiresFrame(l, late)
        /\ e = [frame |-> frame', streams |-> streams]
    BY <1>3, <1>5
  <2>2. TakesMaps(l)
    BY <2>1 DEF FiresFrame, Hears, TakesMaps
  <2>3. t \in streams /\ t \in Streams
    BY <2>1 DEF IInv, TypeOK
  <2>4. maps'[l][t] = frame' /\ e.frame = frame'
    BY <1>3, <2>1, <2>2, <2>3
  <2> QED BY <1>2, <2>4
<1> QED BY <1>4, <1>5

\* The invariant holds before the first frame.
LEMMA InitIInv == Init => IInv
<1> SUFFICES ASSUME Init PROVE IInv
  OBVIOUS
<1> USE FeedAssumption DEF Init
<1>1. TypeOK
  <2>1. maps \in [Listeners -> [Streams -> 0..MaxFrames]] /\ pending \in [Listeners -> SUBSET Events]
    OBVIOUS
  <2>2. page \in [Listeners -> PageStates]
    BY DEF PageStates
  <2>3. rest \in 0..ReopenWait /\ sinceOpen \in 0..ReopenWait /\ frame \in 0..MaxFrames
    OBVIOUS
  <2>4. /\ device \in BOOLEAN /\ wasConnected \in BOOLEAN
        /\ told \in [Listeners -> BOOLEAN] /\ missed \in [Listeners -> BOOLEAN]
        /\ marked \in [Listeners -> BOOLEAN] /\ firing \in [Listeners -> BOOLEAN]
    OBVIOUS
  <2> QED BY <2>1, <2>2, <2>3, <2>4 DEF TypeOK
<1>2. StatusAgrees /\ ToldAgrees
  BY DEF StatusAgrees, ToldAgrees
<1>3. MapsNotAhead /\ MapsNotOlderThanEvent /\ RestIsReal
  BY DEF MapsNotAhead, MapsNotOlderThanEvent, RestIsReal
<1> QED BY <1>1, <1>2, <1>3 DEF IInv

\* One ReadFrame preserves the invariant.
LEMMA ReadFrameIInv ==
  ASSUME IInv, ReadFrame
  PROVE  IInv'
<1> USE FeedAssumption
<1>q. queued' \in BOOLEAN
  BY DEF ReadFrame
<1>t. rest' \in 0..ReopenWait /\ sinceOpen' \in 0..ReopenWait
  BY DEF IInv, TypeOK, ReadFrame, WaitToReopen, OpenSensor, ReadSensor, RestOneMore,
         RestReset, TooSoon, Tick
<1>r. RestIsReal'
  BY DEF IInv, TypeOK, RestIsReal, ReadFrame, WaitToReopen, OpenSensor, ReadSensor,
         RestOneMore, RestReset, TooSoon, Tick
<1>1. CASE WaitToReopen
  <2>1. TypeOK'
    BY <1>1, <1>q, <1>t DEF WaitToReopen, IInv, TypeOK, pageVars
  <2> QED BY <2>1, <1>r, <1>1 DEF WaitToReopen, IInv, StatusAgrees, ToldAgrees, MapsNotAhead,
                        MapsNotOlderThanEvent, pageVars
<1>2. CASE OpenSensor
  <2>1. PICK s \in {"none", "valid", "invalid"} : Serve(s)
    BY <1>2 DEF OpenSensor, Opened
  <2>2. sensor = "none"
    BY <1>2 DEF OpenSensor
  <2> QED BY <1>q, <1>t, <1>r, <2>1, <2>2, ServeKeepsTypes, ServeKeepsAgreement, ServeKeepsMaps DEF IInv
<1>3. CASE ReadSensor
  <2>1. Serve(sensor) /\ sensor \in {"none", "valid", "invalid"}
    BY <1>3 DEF ReadSensor, IInv, TypeOK
  <2> QED BY <1>q, <1>t, <1>r, <2>1, ServeKeepsTypes, ServeKeepsAgreement, ServeKeepsMaps DEF IInv
<1> QED BY <1>1, <1>2, <1>3 DEF ReadFrame

\* A step of a page, or of the device, preserves the invariant.
LEMMA OtherStepsIInv ==
  ASSUME IInv, TimerCallback \/ Plug \/ ErrorCallback \/ \E l \in Listeners : PageNext(l)
  PROVE  IInv'
<1> USE FeedAssumption DEF IInv, sensorVars, pageVars, RestIsReal
<1>1. CASE TimerCallback \/ Plug \/ ErrorCallback
  BY <1>1 DEF TimerCallback, Plug, ErrorCallback, TypeOK, StatusAgrees, ToldAgrees, MapsNotAhead,
              MapsNotOlderThanEvent
<1>2. ASSUME NEW l \in Listeners, Create(l) \/ ClosePage(l) \/ FreeObject(l)
      PROVE  IInv'
  <2>1. TypeOK'
    BY <1>2 DEF Create, ClosePage, FreeObject, TypeOK, PageStates
  <2>2. StatusAgrees' /\ MapsNotAhead' /\ RestIsReal'
    BY <1>2 DEF Create, ClosePage, FreeObject, StatusAgrees, MapsNotAhead
  <2>3. ToldAgrees'
    BY <1>2 DEF Create, ClosePage, FreeObject, TypeOK, ToldAgrees
  <2>4. MapsNotOlderThanEvent'
    BY <1>2 DEF Create, ClosePage, FreeObject, TypeOK, MapsNotOlderThanEvent
  <2> QED BY <2>1, <2>2, <2>3, <2>4
<1>3. ASSUME NEW l \in Listeners, Load(l)
      PROVE  IInv'
  <2>1. TypeOK'
    BY <1>3 DEF Load, TypeOK, PageStates, IsSensorConnected
  <2>2. ToldAgrees'
    BY <1>3 DEF Load, TypeOK, ToldAgrees, StatusAgrees, IsSensorConnected
  <2> QED BY <1>3, <2>1, <2>2 DEF Load, StatusAgrees, MapsNotAhead, MapsNotOlderThanEvent
<1>4. ASSUME NEW l \in Listeners,
             RequestStreams(l) \/ SetFiringEvents(l) \/ WatermarkChanges(l) \/ Handle(l)
      PROVE  IInv'
  <2>1. TypeOK'
    BY <1>4 DEF RequestStreams, SetFiringEvents, WatermarkChanges, Handle, TypeOK
  <2>2. StatusAgrees' /\ ToldAgrees' /\ MapsNotAhead' /\ RestIsReal'
    BY <1>4 DEF RequestStreams, SetFiringEvents, WatermarkChanges, Handle,
                StatusAgrees, ToldAgrees, MapsNotAhead
  <2>3. MapsNotOlderThanEvent'
    BY <1>4 DEF RequestStreams, SetFiringEvents, WatermarkChanges, Handle, TypeOK,
                MapsNotOlderThanEvent
  <2> QED BY <2>1, <2>2, <2>3
<1> QED BY <1>1, <1>2, <1>3, <1>4 DEF PageNext

\* The inductive invariant, with type correctness in it, holds throughout.
THEOREM InvariantHolds == Spec => []IInv
<1>1. IInv /\ [Next]_vars => IInv'
  <2> SUFFICES ASSUME IInv, [Next]_vars PROVE IInv'
    OBVIOUS
  <2>1. CASE Next
    BY <2>1, ReadFrameIInv, OtherStepsIInv DEF Next
  <2>2. CASE UNCHANGED vars
    BY <2>2 DEF vars, sensorVars, pageVars, IInv, TypeOK, StatusAgrees, ToldAgrees,
                MapsNotAhead, MapsNotOlderThanEvent, RestIsReal
  <2> QED BY <2>1, <2>2
<1> QED BY <1>1, InitIInv, PTL DEF Spec

\* A page that missed no status change knows the sensor's status, except
\* while a failure waits to be noticed (ZigJS.cpp:85).
THEOREM PagesKnowTheStatus == Spec => []StatusKnown
<1>1. IInv => StatusKnown
  BY DEF IInv, TypeOK, StatusAgrees, ToldAgrees, StatusKnown
<1> QED BY <1>1, InvariantHolds, PTL

\* A NewFrame event never finds an older map than its own (ZigJS.cpp:89-101).
THEOREM MapsKeepUp == Spec => []MapsNotOlderThanEvent
<1>1. IInv => MapsNotOlderThanEvent
  BY DEF IInv
<1> QED BY <1>1, InvariantHolds, PTL

\* InitSensor is tried only after a full wait (ZigJS.cpp:57).
THEOREM AttemptsKeepTheirDistance == Spec => AttemptsAreSpaced
<1>1. IInv /\ [Next]_vars => [OpenSensor => sinceOpen >= ReopenWait]_vars
  BY FeedAssumption DEF IInv, TypeOK, RestIsReal, OpenSensor, TooSoon
<1> QED BY <1>1, InvariantHolds, PTL DEF Spec, AttemptsAreSpaced

\* Of the listeners a frame erases, none has an open page.
LEMMA DroppedAreClosed ==
  ASSUME NEW thrown \in SUBSET {l \in listeners : page[l] = "dead"},
         NEW l \in Dropped(thrown)
  PROVE  page[l] # "open"
BY DEF Dropped

\* A listener leaves the list only when its own page is closed, never for what
\* the call of another one did (ZigJS.cpp:101-115).
THEOREM OpenPagesAreKept == Spec => OpenPagesStay
<1>1. ASSUME NEW s, Serve(s), NEW l \in listeners, page[l] = "open"
      PROVE  l \in listeners'
  <2>1. PICK thrown \in SUBSET {k \in listeners : page[k] = "dead"} :
          listeners' = listeners \ Dropped(thrown)
    BY <1>1 DEF Serve, ServeListeners
  <2> QED BY <1>1, <2>1, DroppedAreClosed
<1>2. ASSUME ReadFrame, NEW l \in listeners, page[l] = "open"
      PROVE  l \in listeners'
  BY <1>1, <1>2 DEF ReadFrame, WaitToReopen, OpenSensor, ReadSensor
<1>3. ASSUME NEW k \in Listeners, PageNext(k)
      PROVE  listeners \subseteq listeners'
  BY <1>3 DEF PageNext, Create, Load, RequestStreams, SetFiringEvents, WatermarkChanges,
              Handle, ClosePage, FreeObject
<1>4. [Next]_vars => [\A l \in listeners : page[l] = "open" => l \in listeners']_vars
  BY <1>2, <1>3 DEF Next, TimerCallback, Plug, ErrorCallback
<1> QED BY <1>4, PTL DEF Spec, OpenPagesStay
=============================================================================
