------------------------- MODULE OpenNISensorProofs -------------------------
(***************************************************************************)
(* What OpenNISensor promises for any users, hands, array size and         *)
(* time-out.  The inductive invariant ties m_pContext to the contexts that *)
(* are open, the read time to the device's silence, and the sensor's lists *)
(* to OpenNI's.                                                            *)
(***************************************************************************)
EXTENDS OpenNISensor, TLAPS

\* What is begun for a user is one of the three things OpenNI can do.
LEMMA StartTypes ==
  ASSUME skeleton \in [Users -> SUBSET {"pose", "calibrating", "tracking"}], refused \subseteq Users,
         NEW u \in Users, NEW what \in {"pose", "calibrating", "tracking"},
         NEW still \in SUBSET {"pose", "calibrating", "tracking"}, Start(u, what, still)
  PROVE  /\ skeleton' \in [Users -> SUBSET {"pose", "calibrating", "tracking"}]
         /\ refused' \subseteq Users
<1>1. still \cup {what} \in SUBSET {"pose", "calibrating", "tracking"}
  BY Zenon
<1>2. skeleton' \in [Users -> SUBSET {"pose", "calibrating", "tracking"}]
  BY <1>1 DEF Start
<1>3. refused' \subseteq Users
  BY DEF Start
<1> QED BY <1>2, <1>3

\* Every step keeps the types; a context is closed only where one is open.
LEMMA TypesKept ==
  ASSUME TypeOK, ContextHeld, [Next]_vars
  PROVE  TypeOK'
<1> USE OpenNIAssumption DEF TypeOK
<1>1. CASE ReturnActive
  BY <1>1 DEF ReturnActive, health, times, scene, event
<1>2. CASE DropActive
  <2>1. contexts' \in Nat
    BY <1>2 DEF DropActive, ContextHeld
  <2>2. users' \in [Users -> {"absent", "present", "exited"}]
    BY <1>2 DEF DropActive, EmptyScene
  <2>3. skeleton' \in [Users -> SUBSET {"pose", "calibrating", "tracking"}]
    BY <1>2 DEF DropActive, EmptyScene
  <2>4. phase' \in {"idle", "new", "first", "update", "undefined"}
    BY <1>2 DEF DropActive
  <2>5. /\ object' = FALSE /\ pointer' = "null" /\ initialized' = FALSE /\ error' = FALSE
        /\ refused' = {} /\ usersOutOfScene' = {} /\ tracked' = {} /\ handpoints' = {}
        /\ eventUsers' = {} /\ eventHands' = {}
        /\ UNCHANGED <<sensor, failedAt, fresh, stamped, since, quiet>>
    BY <1>2 DEF DropActive, EmptyScene, times
  <2> QED BY <2>1, <2>2, <2>3, <2>4, <2>5
<1>3. CASE Construct
  BY <1>3 DEF Construct, health, times, scene, event
<1>4. CASE FirstUpdate
  BY <1>4 DEF FirstUpdate, scene, event
<1>5. CASE FirstUpdateFails
  BY <1>5 DEF FirstUpdateFails, EmptyScene, ContextHeld, Updating, health, times, event
<1>6. ASSUME NEW step \in FatalSteps, ConstructFails(step) PROVE TypeOK'
  BY <1>6 DEF ConstructFails, health, times, scene, event
<1>7. CASE LoseSensor \/ Deinitialize
  BY <1>7 DEF LoseSensor, Deinitialize, health, times, scene, event
<1>8. CASE ReadBegin \/ UpdateFails
  BY <1>8 DEF ReadBegin, UpdateFails, owners, health, times, scene, event
<1>9. CASE ReadNew
  <2>1. PICK S \in SUBSET Users : eventUsers' = Listed(S)
    BY <1>9 DEF ReadNew
  <2>2. eventUsers' \subseteq Users
    BY <2>1 DEF Listed
  <2> QED BY <1>9, <2>2 DEF ReadNew, owners, health, scene
<1>10. CASE ReadSame
  BY <1>10 DEF ReadSame, owners, scene, event
<1>11. ASSUME NEW u \in Users,
              NewUser(u) \/ UserExit(u) \/ UserReEnter(u) \/ LostUser(u) \/ PoseDetected(u) \/ CalibrationEnd(u)
       PROVE  TypeOK'
  <2>1. /\ users' \in [Users -> {"absent", "present", "exited"}]
        /\ usersOutOfScene' \subseteq Users
        /\ UNCHANGED <<phase, owners, health, times, tracked, handpoints, event>>
    BY <1>11 DEF NewUser, UserExit, UserReEnter, LostUser, PoseDetected, CalibrationEnd,
                 ForgetExit, UserStep
  <2>2. /\ skeleton' \in [Users -> SUBSET {"pose", "calibrating", "tracking"}]
        /\ refused' \subseteq Users
    <3>1. ASSUME NEW what \in {"pose", "calibrating", "tracking"},
                 NEW still \in SUBSET {"pose", "calibrating", "tracking"}, Start(u, what, still)
          PROVE  /\ skeleton' \in [Users -> SUBSET {"pose", "calibrating", "tracking"}]
                 /\ refused' \subseteq Users
      BY <3>1, StartTypes
    <3>2. CASE NewUser(u)
      BY <3>1, <3>2 DEF NewUser
    <3>3. CASE UserExit(u) \/ UserReEnter(u)
      BY <3>3 DEF UserExit, UserReEnter
    <3>6. CASE LostUser(u)
      <4>1. skeleton' = [skeleton EXCEPT ![u] = {}] /\ refused' = refused \ {u}
        BY <3>6 DEF LostUser
      <4> QED BY <4>1
    <3>4. CASE PoseDetected(u)
      BY <3>1, <3>4 DEF PoseDetected
    <3>5. CASE CalibrationEnd(u)
      BY <3>1, <3>5 DEF CalibrationEnd, AfterFailure
    <3> QED BY <1>11, <3>2, <3>3, <3>4, <3>5, <3>6
  <2> QED BY <2>1, <2>2 DEF owners, health, times, event
<1>12. ASSUME NEW h \in Hands, HandCreate(h) \/ HandDestroy(h) PROVE TypeOK'
  BY <1>12 DEF HandCreate, HandDestroy, HandStep, owners, health, times, event
<1>13. CASE ErrorCallback
  BY <1>13 DEF ErrorCallback, owners, times, scene, event
<1>14. CASE DeviceFrame
  BY <1>14 DEF DeviceFrame, owners, health, scene, event
<1>15. CASE Tick
  BY <1>15 DEF Tick, Later, owners, health, scene, event
<1>16. CASE UNCHANGED vars
  BY <1>16 DEF vars, owners, health, times, scene, event
<1> QED
  BY <1>1, <1>2, <1>3, <1>4, <1>5, <1>6, <1>7, <1>8, <1>9, <1>10, <1>11, <1>12, <1>13, <1>14, <1>15, <1>16
  DEF Next, Open, Read, Callback

\* A context is opened only where none is open, and m_pContext follows it,
\* except after the hands generator was missing.
LEMMA ContextKept ==
  ASSUME TypeOK, ContextHeld, ReleasedTwiceOnlyAfterHands, [Next]_vars
  PROVE  ContextHeld' /\ ReleasedTwiceOnlyAfterHands'
<1> USE DEF ContextHeld, ReleasedTwiceOnlyAfterHands, Updating
<1>1. CASE ReturnActive
  BY <1>1 DEF ReturnActive, health
<1>2. CASE DropActive
  BY <1>2 DEF DropActive
<1>3. CASE Construct
  BY <1>3 DEF Construct, health
<1>4. CASE FirstUpdate
  BY <1>4 DEF FirstUpdate
<1>5. CASE FirstUpdateFails
  BY <1>5 DEF FirstUpdateFails, health
<1>6. ASSUME NEW step \in FatalSteps, ConstructFails(step)
      PROVE  ContextHeld' /\ ReleasedTwiceOnlyAfterHands'
  BY <1>6 DEF ConstructFails, Dangles, health
<1>7. CASE LoseSensor \/ Deinitialize
  BY <1>7 DEF LoseSensor, Deinitialize, health
<1>8. CASE ReadBegin \/ UpdateFails
  BY <1>8 DEF ReadBegin, UpdateFails, Valid, owners, health
<1>9. CASE ReadNew \/ ReadSame
  BY <1>9 DEF ReadNew, ReadSame, owners, health
<1>10. ASSUME NEW u \in Users,
              NewUser(u) \/ UserExit(u) \/ UserReEnter(u) \/ LostUser(u) \/ PoseDetected(u) \/ CalibrationEnd(u)
       PROVE  ContextHeld' /\ ReleasedTwiceOnlyAfterHands'
  BY <1>10 DEF NewUser, UserExit, UserReEnter, LostUser, PoseDetected, CalibrationEnd, UserStep, owners, health
<1>11. ASSUME NEW h \in Hands, HandCreate(h) \/ HandDestroy(h)
       PROVE  ContextHeld' /\ ReleasedTwiceOnlyAfterHands'
  BY <1>11 DEF HandCreate, HandDestroy, HandStep, owners, health
<1>12. CASE ErrorCallback \/ DeviceFrame \/ Tick
  BY <1>12 DEF ErrorCallback, DeviceFrame, Tick, owners, health
<1>13. CASE UNCHANGED vars
  BY <1>13 DEF vars, owners, health
<1> QED
  BY <1>1, <1>2, <1>3, <1>4, <1>5, <1>6, <1>7, <1>8, <1>9, <1>10, <1>11, <1>12, <1>13
  DEF Next, Open, Read, Callback

\* The read time never claims more silence than the device's.
LEMMA StampKept ==
  ASSUME TypeOK, StampIsRecent, [Next]_vars
  PROVE  StampIsRecent'
<1> USE OpenNIAssumption DEF TypeOK, StampIsRecent
<1>1. CASE ReadNew \/ ReadSame
  BY <1>1 DEF ReadNew, ReadSame
<1>2. CASE FirstUpdate \/ DeviceFrame
  BY <1>2 DEF FirstUpdate, DeviceFrame
<1>3. CASE Tick
  BY <1>3 DEF Tick, Later
<1>4. CASE UNCHANGED times
  BY <1>4 DEF times
<1>5. ASSUME NEW u \in Users,
             NewUser(u) \/ UserExit(u) \/ UserReEnter(u) \/ LostUser(u) \/ PoseDetected(u) \/ CalibrationEnd(u)
      PROVE  UNCHANGED times
  BY <1>5 DEF NewUser, UserExit, UserReEnter, LostUser, PoseDetected, CalibrationEnd, UserStep
<1>6. ASSUME NEW h \in Hands, HandCreate(h) \/ HandDestroy(h) PROVE UNCHANGED times
  BY <1>6 DEF HandCreate, HandDestroy, HandStep
<1>7. ASSUME NEW step \in FatalSteps, ConstructFails(step) PROVE UNCHANGED times
  BY <1>7 DEF ConstructFails
<1>8. CASE ReturnActive \/ DropActive \/ Construct \/ FirstUpdateFails \/ LoseSensor \/ ReadBegin
           \/ UpdateFails \/ Deinitialize \/ ErrorCallback \/ UNCHANGED vars
  BY <1>4, <1>8 DEF ReturnActive, DropActive, Construct, FirstUpdateFails, LoseSensor, ReadBegin,
                    UpdateFails, Deinitialize, ErrorCallback, vars
<1> QED
  BY <1>1, <1>2, <1>3, <1>4, <1>5, <1>6, <1>7, <1>8 DEF Next, Open, Read, Callback

\* The lists are emptied with the generators and follow each callback.
LEMMA ListsKept ==
  ASSUME TypeOK, ListsAgree, NobodyForgotten, [Next]_vars
  PROVE  ListsAgree' /\ NobodyForgotten'
<1> USE DEF TypeOK, ListsAgree, NobodyForgotten, Known
<1>1. CASE UNCHANGED scene
  BY <1>1 DEF scene
<1>2. CASE EmptyScene
  BY <1>2 DEF EmptyScene
<1>3. ASSUME NEW u \in Users, NEW what, NEW still, Start(u, what, still)
      PROVE  /\ skeleton'[u] # {} \/ u \in refused'
             /\ \A v \in Users \ {u} : skeleton'[v] = skeleton[v] /\ (v \in refused' <=> v \in refused)
  BY <1>3 DEF Start
<1>4. ASSUME NEW u \in Users, NewUser(u) PROVE ListsAgree' /\ NobodyForgotten'
  <2>1. /\ skeleton'[u] # {} \/ u \in refused'
        /\ \A v \in Users \ {u} : skeleton'[v] = skeleton[v] /\ (v \in refused' <=> v \in refused)
    BY <1>3, <1>4 DEF NewUser
  <2>2. NobodyForgotten'
    BY <1>4, <2>1 DEF NewUser
  <2>3. ListsAgree'
    BY <1>4 DEF NewUser, ForgetExit, UserStep
  <2> QED BY <2>2, <2>3
<1>5. ASSUME NEW u \in Users, UserExit(u) \/ UserReEnter(u) \/ LostUser(u)
      PROVE  ListsAgree' /\ NobodyForgotten'
  <2>1. ListsAgree'
    BY <1>5 DEF UserExit, UserReEnter, LostUser, ForgetExit, UserStep
  <2>2. NobodyForgotten'
    BY <1>5 DEF UserExit, UserReEnter, LostUser
  <2> QED BY <2>1, <2>2
<1>6. ASSUME NEW u \in Users, PoseDetected(u) \/ CalibrationEnd(u) PROVE ListsAgree' /\ NobodyForgotten'
  <2>1. /\ skeleton'[u] # {} \/ u \in refused'
        /\ \A v \in Users \ {u} : skeleton'[v] = skeleton[v] /\ (v \in refused' <=> v \in refused)
    BY <1>3, <1>6 DEF PoseDetected, CalibrationEnd, AfterFailure
  <2>2. UNCHANGED <<users, usersOutOfScene, tracked, handpoints>>
    BY <1>6 DEF PoseDetected, CalibrationEnd, UserStep
  <2> QED BY <2>1, <2>2
<1>7. ASSUME NEW h \in Hands, HandCreate(h) \/ HandDestroy(h) PROVE ListsAgree' /\ NobodyForgotten'
  BY <1>7 DEF HandCreate, HandDestroy, HandStep
<1>8. ASSUME NEW step \in FatalSteps, ConstructFails(step) PROVE UNCHANGED scene
  BY <1>8 DEF ConstructFails
<1>9. CASE DropActive \/ FirstUpdateFails
  BY <1>2, <1>9 DEF DropActive, FirstUpdateFails
<1>10. CASE ReturnActive \/ Construct \/ FirstUpdate \/ LoseSensor \/ ReadBegin \/ UpdateFails \/ ReadNew
            \/ ReadSame \/ Deinitialize \/ ErrorCallback \/ DeviceFrame \/ Tick \/ UNCHANGED vars
  BY <1>1, <1>10 DEF ReturnActive, Construct, FirstUpdate, LoseSensor, ReadBegin, UpdateFails, ReadNew,
                     ReadSame, Deinitialize, ErrorCallback, DeviceFrame, Tick, vars
<1> QED
  BY <1>1, <1>3, <1>4, <1>5, <1>6, <1>7, <1>8, <1>9, <1>10 DEF Next, Open, Read, Callback

\* The inductive invariant holds of SensorOpenNI and its owners.
THEOREM InvariantHolds == Spec => []IInv
<1>1. Init => IInv
  <2> SUFFICES ASSUME Init PROVE IInv
    OBVIOUS
  <2> USE DEF Init
  <2>1. TypeOK
    BY DEF TypeOK
  <2>2. ContextHeld /\ ReleasedTwiceOnlyAfterHands
    BY DEF ContextHeld, ReleasedTwiceOnlyAfterHands, Updating
  <2>3. StampIsRecent
    BY DEF StampIsRecent
  <2>4. ListsAgree /\ NobodyForgotten
    BY DEF ListsAgree, NobodyForgotten, Known
  <2> QED BY <2>1, <2>2, <2>3, <2>4 DEF IInv
<1>2. IInv /\ [Next]_vars => IInv'
  BY TypesKept, ContextKept, StampKept, ListsKept DEF IInv
<1> QED BY <1>1, <1>2, PTL DEF Spec

\* However an object failed and whoever held it, its context is closed
\* before GetInstance opens the next one (SensorOpenNI.cpp:13-22).
THEOREM ContextsDoNotOverlap == Spec => []OneContextAtATime
<1>1. IInv => OneContextAtATime
  BY DEF IInv, ContextHeld, OneContextAtATime
<1> QED BY <1>1, InvariantHolds, PTL

\* No failure of the constructor but the hands generator's makes the
\* destructor release a context a second time (SensorOpenNI.cpp:484-490,
\* 597-600).
THEOREM OneBranchReleasesTwice == Spec => []ReleasedTwiceOnlyAfterHands
<1>1. IInv => ReleasedTwiceOnlyAfterHands
  BY DEF IInv
<1> QED BY <1>1, InvariantHolds, PTL

\* Every user OpenNI knows is on the way to a skeleton, unless a call to
\* OpenNI failed for that user and its status was ignored
\* (SensorOpenNI.cpp:315-325, 373-410).
THEOREM EveryoneIsFollowed == Spec => []NobodyForgotten
<1>1. IInv => NobodyForgotten
  BY DEF IInv
<1> QED BY <1>1, InvariantHolds, PTL

\* The time-out of ReadFrame blames only a device that was silent for all of
\* it (SensorOpenNI.cpp:621-632).
THEOREM TimeoutIsJust == Spec => GivenUpOnlyWhenSilent
<1>1. IInv /\ [Next]_vars => [ReadSame /\ ~error /\ error' => quiet > Timeout]_vars
  BY OpenNIAssumption DEF IInv, TypeOK, StampIsRecent, ReadSame
<1> QED BY <1>1, InvariantHolds, PTL DEF Spec, GivenUpOnlyWhenSilent

\* The event data shows the scene of its own frame
\* (SensorOpenNI.cpp:175-218, 737-742).
THEOREM EventsAreCurrent == Spec => EventShowsScene
<1> DEFINE Shows == /\ eventUsers' \subseteq InScene
                    /\ Cardinality(Known) <= MaxUsers => eventUsers' = InScene
                    /\ eventHands' = tracked
<1>1. IInv /\ [Next]_vars => [ReadNew => Shows]_vars
  <2> SUFFICES ASSUME IInv, ReadNew PROVE Shows
    OBVIOUS
  <2>1. PICK S \in SUBSET Users : GetUsers(S) /\ eventUsers' = S \ usersOutOfScene
    BY DEF ReadNew, Listed
  <2>2. S \subseteq Known /\ (Cardinality(Known) <= MaxUsers => S = Known)
    BY <2>1 DEF GetUsers
  <2>3. Known \ usersOutOfScene = InScene
    BY DEF IInv, TypeOK, ListsAgree, Known, InScene
  <2>4. eventHands' = tracked
    BY DEF ReadNew, IInv, ListsAgree
  <2> QED BY <2>1, <2>2, <2>3, <2>4
<1> QED BY <1>1, InvariantHolds, PTL DEF Spec, EventShowsScene
=============================================================================
