---------------------------- MODULE OpenNISensor ----------------------------
(***************************************************************************)
(* SensorOpenNI and the part of the frame loop that owns it.               *)
(*                                                                         *)
(* Two static pointers share the object: SensorOpenNI::s_activeInstance    *)
(* and ZigJS::s_sensor.  The constructor opens an OpenNI context and, step *)
(* by step, its nodes; ReadFrame updates them without waiting, and OpenNI  *)
(* runs the callbacks for users and hands from inside that update.  All of *)
(* it happens on the main thread, except that OpenNI may report a global   *)
(* error at any time.  What the page is told of a sensor that comes and    *)
(* goes is in SensorFeed.                                                  *)
(*                                                                         *)
(* Left out: the maps (SensorFeed counts them), the image node, whose      *)
(* failure is not one, positions and joints, and the calls that only pass  *)
(* on to OpenNI: gestures, hand raise, stop tracking and conversions.      *)
(***************************************************************************)
EXTENDS Naturals, FiniteSets

CONSTANTS
  Users,      \* user ids OpenNI gives out
  Hands,      \* hand ids OpenNI gives out
  MaxUsers,   \* MAX_USERS
  Timeout     \* the 5 seconds without new data, in ticks

ASSUME OpenNIAssumption ==
  /\ IsFiniteSet(Users)
  /\ MaxUsers \in Nat /\ Timeout \in Nat

VARIABLES
  phase,       \* what the main thread is doing with the sensor
  object,      \* does s_activeInstance point to an object?
  sensor,      \* does ZigJS::s_sensor point to it, too?
  pointer,     \* what the object's m_pContext points to
  contexts,    \* OpenNI contexts that are open
  initialized, \* m_initialized
  error,       \* m_error
  failedAt,    \* the step at which the last constructor gave up
  fresh,       \* is there a frame whose id differs from m_lastFrame?
  stamped,     \* is m_lastNewDataTime a time?
  since,       \* time since m_lastNewDataTime
  quiet,       \* time since the device delivered its last frame
  users,       \* the users of the user generator
  skeleton,    \* what OpenNI does for each on the way to a tracked skeleton
  refused,     \* users for whom OpenNI failed to start the last thing asked
  usersOutOfScene, \* m_usersOutOfScene
  tracked,     \* the hands of the hands generator
  handpoints,  \* the hands in m_handpoints
  eventUsers,  \* the users in m_eventData
  eventHands   \* the hands in m_eventData

owners == <<object, sensor, pointer, contexts, failedAt>>
health == <<initialized, error>>
times == <<fresh, stamped, since, quiet>>
scene == <<users, skeleton, refused, usersOutOfScene, tracked, handpoints>>
event == <<eventUsers, eventHands>>
vars == <<phase, owners, health, times, scene, event>>

\* Steps of the constructor before the first update; the image node's may
\* fail without harm.
FatalSteps == {"xnInit", "errorCallback", "device", "depth", "gestures", "hands", "users", "generate"}

TypeOK ==
  /\ phase \in {"idle", "new", "first", "update", "undefined"}
  /\ object \in BOOLEAN /\ sensor \in BOOLEAN
  /\ pointer \in {"null", "live", "dangling"}
  /\ contexts \in Nat
  /\ failedAt \in FatalSteps \cup {"none", "update"}
  /\ initialized \in BOOLEAN /\ error \in BOOLEAN
  /\ fresh \in BOOLEAN /\ stamped \in BOOLEAN
  /\ since \in Nat /\ quiet \in Nat
  /\ users \in [Users -> {"absent", "present", "exited"}]
  /\ skeleton \in [Users -> SUBSET {"pose", "calibrating", "tracking"}]
  /\ refused \subseteq Users /\ usersOutOfScene \subseteq Users
  /\ tracked \subseteq Hands /\ handpoints \subseteq Hands
  /\ eventUsers \subseteq Users /\ eventHands \subseteq Hands

Known == {u \in Users : users[u] # "absent"}
InScene == {u \in Users : users[u] = "present"}

Valid == initialized /\ ~error

\* A new context has seen nobody; a closed one forgets them.
EmptyScene ==
  /\ users' = [u \in Users |-> "absent"]
  /\ skeleton' = [u \in Users |-> {}] /\ refused' = {}
  /\ usersOutOfScene' = {} /\ tracked' = {} /\ handpoints' = {}

Init ==
  /\ phase = "idle"
  /\ object = FALSE /\ sensor = FALSE
  /\ pointer = "null" /\ contexts = 0 /\ failedAt = "none"
  /\ initialized = FALSE /\ error = FALSE
  /\ fresh = FALSE /\ stamped = FALSE /\ since = 0 /\ quiet = 0
  /\ users = [u \in Users |-> "absent"]
  /\ skeleton = [u \in Users |-> {}] /\ refused = {}
  /\ usersOutOfScene = {} /\ tracked = {} /\ handpoints = {}
  /\ eventUsers = {} /\ eventHands = {}

-----------------------------------------------------------------------------
(* Opening: Sensor::CreateSensor, called when s_sensor is empty.           *)

\* GetInstance hands out an object that is still valid.
ReturnActive ==
  /\ phase = "idle" /\ ~sensor /\ object /\ Valid
  /\ sensor' = TRUE
  /\ UNCHANGED <<phase, object, pointer, contexts, failedAt, health, times, scene, event>>

\* Mutant: the new object is constructed before the old one is let go.
DropActiveLater ==
  /\ phase = "idle" /\ ~sensor /\ ~(object /\ Valid)
  /\ phase' = "new"
  /\ UNCHANGED <<owners, health, times, scene, event>>

\* GetInstance lets go of one that is not, and of none.  s_sensor is empty,
\* so this is the end of the object: its destructor releases the context
\* m_pContext points to, also one that is released already.
DropActive ==
  /\ phase = "idle" /\ ~sensor /\ ~(object /\ Valid)
  /\ phase' = IF pointer = "dangling" THEN "undefined" ELSE "new"
  /\ contexts' = IF pointer = "live" THEN contexts - 1 ELSE contexts
  /\ object' = FALSE /\ pointer' = "null"
  /\ initialized' = FALSE /\ error' = FALSE
  /\ EmptyScene
  /\ eventUsers' = {} /\ eventHands' = {}
  /\ UNCHANGED <<sensor, failedAt, times>>

\* Mutant: the branch for a missing device forgets to clear m_pContext.
DanglesUnlessCleared(step) == step \in {"hands", "device"}

\* Each branch that gives up releases the context; the one for the hands
\* generator does not clear m_pContext.
Dangles(step) == step = "hands"

\* The constructor gives up.  ReadFrame finds the object invalid and empties
\* s_sensor; s_activeInstance keeps the object.
ConstructFails(step) ==
  /\ phase = "new"
  /\ phase' = "idle"
  /\ object' = TRUE
  /\ pointer' = IF Dangles(step) THEN "dangling" ELSE "null"
  /\ failedAt' = step
  /\ UNCHANGED <<sensor, contexts, health, times, scene, event>>

\* The constructor gets as far as the first update, which waits for data.
Construct ==
  /\ phase = "new"
  /\ phase' = "first"
  /\ pointer' = "live"
  /\ contexts' = contexts + 1
  /\ failedAt' = "none"
  /\ UNCHANGED <<object, sensor, health, times, scene, event>>

\* The first update has data.  m_lastFrame is never initialised: the frame
\* that is there may look old or new.
FirstUpdate ==
  /\ phase = "first"
  /\ phase' = "idle"
  /\ object' = TRUE
  /\ sensor' = ~error
  /\ initialized' = TRUE
  /\ fresh' \in BOOLEAN
  /\ stamped' = FALSE /\ since' = 0 /\ quiet' = 0
  /\ UNCHANGED <<pointer, contexts, failedAt, error, scene, event>>

FirstUpdateFails ==
  /\ phase = "first"
  /\ phase' = "idle"
  /\ object' = TRUE /\ pointer' = "null"
  /\ contexts' = contexts - 1
  /\ failedAt' = "update"
  /\ EmptyScene
  /\ UNCHANGED <<sensor, health, times, event>>

-----------------------------------------------------------------------------
(* Reading: ZigJS::ReadFrame with a sensor.                                *)

\* A sensor that is no longer valid is let go by ZigJS, not by GetInstance.
LoseSensor ==
  /\ phase = "idle" /\ sensor /\ ~Valid
  /\ sensor' = FALSE
  /\ UNCHANGED <<phase, object, pointer, contexts, failedAt, health, times, scene, event>>

\* xnWaitNoneUpdateAll.
ReadBegin ==
  /\ phase = "idle" /\ sensor /\ Valid
  /\ phase' = "update"
  /\ UNCHANGED <<owners, health, times, scene, event>>

UpdateFails ==
  /\ phase = "update"
  /\ phase' = "idle"
  /\ initialized' = FALSE
  /\ UNCHANGED <<owners, error, times, scene, event>>

\* Mutant: the time of the last frame is kept, not the time of this read.
ReadNewUnstamped ==
  /\ phase = "update" /\ fresh
  /\ phase' = "idle"
  /\ fresh' = FALSE /\ stamped' = TRUE
  /\ UNCHANGED <<since, quiet, owners, health, scene, event>>

\* Mutant: users who have left the scene are listed.
ListedAll(S) == S

\* MakeUsersJsonList skips the users who have left the scene.
Listed(S) == S \ usersOutOfScene

\* xnGetUsers fills an array of MAX_USERS with the users it knows, those out
\* of the scene included.
GetUsers(S) ==
  IF Cardinality(Known) <= MaxUsers THEN S = Known
  ELSE S \subseteq Known /\ Cardinality(S) = MaxUsers

\* A new frame: the lists are written into m_eventData.
ReadNew ==
  /\ phase = "update" /\ fresh
  /\ phase' = "idle"
  /\ fresh' = FALSE /\ stamped' = TRUE /\ since' = 0
  /\ \E S \in SUBSET Users : GetUsers(S) /\ eventUsers' = Listed(S)
  /\ eventHands' = handpoints
  /\ UNCHANGED <<quiet, owners, health, scene>>

\* Mutant: no time-out.
ReadSameForEver ==
  /\ phase = "update" /\ ~fresh
  /\ phase' = "idle"
  /\ stamped' = TRUE
  /\ since' = IF stamped THEN since ELSE 0
  /\ UNCHANGED <<error, initialized, fresh, quiet, owners, scene, event>>

\* The same frame again: the first time stamps it, later ones compare.
ReadSame ==
  /\ phase = "update" /\ ~fresh
  /\ phase' = "idle"
  /\ stamped' = TRUE
  /\ since' = IF stamped THEN since ELSE 0
  /\ error' = (error \/ (stamped /\ since > Timeout))
  /\ UNCHANGED <<initialized, fresh, quiet, owners, scene, event>>

\* StaticDeinitialize empties s_sensor; s_activeInstance is static as well
\* and serves the next start of the module if the library stays loaded.
Deinitialize ==
  /\ phase = "idle" /\ sensor
  /\ sensor' = FALSE
  /\ UNCHANGED <<phase, object, pointer, contexts, failedAt, health, times, scene, event>>

-----------------------------------------------------------------------------
(* Callbacks.                                                              *)

Updating == phase \in {"first", "update"}

ForgetExit(u) == usersOutOfScene' = usersOutOfScene \ {u}

UserStep == UNCHANGED <<phase, owners, health, times, tracked, handpoints, event>>

\* The sensor asks OpenNI to begin with something for a user, for whom it does
\* what is in "still" already.  The status of the call is not looked at: when
\* it failed nothing more is done for the user, and nothing is tried again.
Start(u, what, still) ==
  \/ /\ skeleton' = [skeleton EXCEPT ![u] = still \cup {what}]
     /\ refused' = refused \ {u}
  \/ /\ skeleton' = [skeleton EXCEPT ![u] = still]
     /\ refused' = refused \cup {u}

\* OnNewUser: look for the pose, or track at once if none is needed.
NewUser(u) ==
  /\ Updating /\ users[u] = "absent"
  /\ users' = [users EXCEPT ![u] = "present"]
  /\ ForgetExit(u)
  /\ Start(u, "pose", {}) \/ Start(u, "tracking", {})
  /\ UserStep

UserExit(u) ==
  /\ Updating /\ users[u] = "present"
  /\ users' = [users EXCEPT ![u] = "exited"]
  /\ usersOutOfScene' = usersOutOfScene \cup {u}
  /\ UNCHANGED <<skeleton, refused>>
  /\ UserStep

UserReEnter(u) ==
  /\ Updating /\ users[u] = "exited"
  /\ users' = [users EXCEPT ![u] = "present"]
  /\ ForgetExit(u)
  /\ UNCHANGED <<skeleton, refused>>
  /\ UserStep

\* OnLostUser: OpenNI drops the user and the work on the skeleton, and may
\* give the id to someone else.
LostUser(u) ==
  /\ Updating /\ users[u] # "absent"
  /\ users' = [users EXCEPT ![u] = "absent"]
  /\ skeleton' = [skeleton EXCEPT ![u] = {}] /\ refused' = refused \ {u}
  /\ ForgetExit(u)
  /\ UserStep

\* OnPoseDetected: stop looking for the pose, which may fail as well, and ask
\* for a calibration.
PoseDetected(u) ==
  /\ Updating /\ "pose" \in skeleton[u]
  /\ \E still \in {skeleton[u], skeleton[u] \ {"pose"}} : Start(u, "calibrating", still)
  /\ UNCHANGED <<users, usersOutOfScene>>
  /\ UserStep

\* Mutant: a calibration that failed is not followed by another pose.
AfterFailureNothing(u, still) ==
  skeleton' = [skeleton EXCEPT ![u] = still] /\ UNCHANGED refused

AfterFailure(u, still) == Start(u, "pose", still)

\* OnCalibrationEnd.
CalibrationEnd(u) ==
  /\ Updating /\ "calibrating" \in skeleton[u]
  /\ LET still == skeleton[u] \ {"calibrating"}
     IN  Start(u, "tracking", still) \/ AfterFailure(u, still)
  /\ UNCHANGED <<users, usersOutOfScene>>
  /\ UserStep

HandStep == UNCHANGED <<phase, owners, health, times, users, skeleton, refused, usersOutOfScene, event>>

HandCreate(h) ==
  /\ Updating /\ h \notin tracked
  /\ tracked' = tracked \cup {h}
  /\ handpoints' = handpoints \cup {h}
  /\ HandStep

HandDestroy(h) ==
  /\ Updating /\ h \in tracked
  /\ tracked' = tracked \ {h}
  /\ handpoints' = handpoints \ {h}
  /\ HandStep

\* ErrorCallback, for as long as the context is open.
ErrorCallback ==
  /\ pointer = "live" /\ phase # "undefined"
  /\ error' = TRUE
  /\ UNCHANGED <<phase, owners, initialized, times, scene, event>>

-----------------------------------------------------------------------------
(* The device and the clock.                                               *)

DeviceFrame ==
  /\ pointer = "live" /\ phase # "undefined"
  /\ fresh' = TRUE /\ quiet' = 0
  /\ UNCHANGED <<phase, owners, health, stamped, since, scene, event>>

\* Time counts up to the first moment past Timeout.
Later(t) == IF t > Timeout THEN t ELSE t + 1

Tick ==
  /\ phase # "undefined"
  /\ since' = Later(since) /\ quiet' = Later(quiet)
  /\ UNCHANGED <<phase, owners, health, fresh, stamped, scene, event>>

-----------------------------------------------------------------------------
Open ==
  \/ ReturnActive \/ DropActive \/ Construct \/ FirstUpdate \/ FirstUpdateFails
  \/ \E step \in FatalSteps : ConstructFails(step)

Read == LoseSensor \/ ReadBegin \/ UpdateFails \/ ReadNew \/ ReadSame

Callback ==
  \/ \E u \in Users :
       NewUser(u) \/ UserExit(u) \/ UserReEnter(u) \/ LostUser(u) \/ PoseDetected(u) \/ CalibrationEnd(u)
  \/ \E h \in Hands : HandCreate(h) \/ HandDestroy(h)
  \/ ErrorCallback

Next == Open \/ Read \/ Deinitialize \/ Callback \/ DeviceFrame \/ Tick

Spec == Init /\ [][Next]_vars

\* The module's timer calls ReadFrame every 30 ms, an update ends, and time
\* passes; nothing obliges the device or the pages.
FairSpec == Spec /\ WF_vars(Read) /\ WF_vars(Tick)

-----------------------------------------------------------------------------
(* Properties.                                                             *)

\* GetInstance closes the old context before it opens a new one, whichever
\* of the two pointers still held the object and however it had failed
\* ("force d'tor to be called before we call the c'tor",
\* SensorOpenNI.cpp:19).
OneContextAtATime == contexts <= 1

\* A context is released twice only after the hands generator was missing,
\* the one branch of the constructor that keeps m_pContext
\* (SensorOpenNI.cpp:486).
ReleasedTwiceOnlyAfterHands == phase = "undefined" => failedAt = "hands"

\* ReadFrame gives a sensor up for want of data only when the device was
\* silent for the whole time-out, although it keeps the time of its own
\* last read, not of the frame, and starts without either.
GivenUpOnlyWhenSilent == [][ReadSame /\ ~error /\ error' => quiet > Timeout]_vars

\* The loop does not hold on to a silent sensor.
SilentSensorIsLost == []<>(~sensor \/ quiet <= Timeout \/ phase = "undefined")

\* The event data of a new frame names no user who has left the scene and,
\* unless the generator knows more users than fit the array, every user who
\* is in it; and it names the hands tracked at that moment.
EventShowsScene ==
  [][ReadNew => /\ eventUsers' \subseteq InScene
                /\ Cardinality(Known) <= MaxUsers => eventUsers' = InScene
                /\ eventHands' = tracked]_vars

\* Nobody is forgotten on the way to a skeleton, in whatever order poses,
\* calibrations, exits and losses come: OpenNI looks at each known user for
\* the pose, calibrates or tracks it, or else it was OpenNI that failed to
\* start the last thing it was asked for.  The status of those calls is
\* ignored (SensorOpenNI.cpp:321-323, 379, 405-408): such a user stays without
\* a skeleton until lost.
NobodyForgotten == \A u \in Known : skeleton[u] # {} \/ u \in refused

-----------------------------------------------------------------------------
(* The inductive invariant behind them.                                    *)

\* The object, its context and what the main thread does with them.
ContextHeld ==
  /\ contexts = IF pointer = "live" THEN 1 ELSE 0
  /\ pointer = "dangling" => failedAt = "hands"
  /\ Updating => pointer = "live"
  /\ phase = "new" => pointer = "null"
  /\ initialized => pointer = "live"
  /\ phase \in {"new", "first"} => ~initialized

\* The device has been silent at least since the last read of its last frame.
StampIsRecent == stamped /\ ~fresh => since <= quiet

\* The lists are those of the generators.
ListsAgree ==
  /\ \A u \in Users : u \in usersOutOfScene <=> users[u] = "exited"
  /\ handpoints = tracked

IInv ==
  /\ TypeOK /\ ContextHeld /\ ReleasedTwiceOnlyAfterHands
  /\ StampIsRecent /\ ListsAgree /\ NobodyForgotten
=============================================================================
