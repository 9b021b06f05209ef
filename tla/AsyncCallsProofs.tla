-------------------------- MODULE AsyncCallsProofs --------------------------
(***************************************************************************)
(* Safety of the cross-thread calls for any number of callers.             *)
(***************************************************************************)
EXTENDS AsyncCalls, TLAPS

(* The invariant holds before the first call is made.                      *)
LEMMA InitIInv == Init => IInv
<1> SUFFICES ASSUME Init PROVE IInv
  OBVIOUS
<1> USE CallsAssumption DEF Init
<1>1. TypeOK
  BY DEF TypeOK, Phases, InCall, Finished, Results
<1>2. UnknownBeforeMade /\ UndeliveredBeforePosted /\ RanMeansGone
  BY DEF UnknownBeforeMade, UndeliveredBeforePosted, RanMeansGone, NotMade, NotPosted
<1>3. OnePlace /\ AfterDestroy /\ DataDeletedOnce /\ GivenUpOnlyWhenClosed
  BY DEF OnePlace, AfterDestroy, DataDeletedOnce, GivenUpOnlyWhenClosed
<1> QED
  BY <1>1, <1>2, <1>3 DEF IInv

(* Begin keeps the invariant. *)
LEMMA BeginIInv ==
  ASSUME NEW c \in Calls, IInv, Begin(c)
  PROVE  IInv'
<1> USE CallsAssumption DEF IInv, Begin, Go, Enter, manager, effects, main
<1>1. TypeOK'
  BY DEF TypeOK, Calls, Finished, InCall, Phases, Results, Outcomes
<1>2. UnknownBeforeMade' /\ UndeliveredBeforePosted'
  BY DEF TypeOK, UnknownBeforeMade, UndeliveredBeforePosted, OnePlace,
         AfterDestroy, NotMade, NotPosted, Kept, Finished
<1>3. RanMeansGone'
  BY DEF TypeOK, UnknownBeforeMade, RanMeansGone, OnePlace, NotMade
<1>4. OnePlace'
  BY DEF TypeOK, UnknownBeforeMade, UndeliveredBeforePosted, RanMeansGone,
         OnePlace, AfterDestroy, NotMade, NotPosted, Kept, ManagerLocked
<1>5. AfterDestroy' /\ DataDeletedOnce'
  BY DEF TypeOK, UndeliveredBeforePosted, OnePlace, AfterDestroy,
         DataDeletedOnce, NotMade, NotPosted, Kept, Finished
<1>6. GivenUpOnlyWhenClosed'
  BY DEF TypeOK, UnknownBeforeMade, RanMeansGone, OnePlace, GivenUpOnlyWhenClosed,
         NotMade, Pending, Finished
<1> QED
  BY <1>1, <1>2, <1>3, <1>4, <1>5, <1>6

(* CallDirect keeps the invariant. *)
LEMMA CallDirectIInv ==
  ASSUME NEW c \in Calls, IInv, CallDirect(c)
  PROVE  IInv'
<1> USE CallsAssumption DEF IInv, CallDirect, Go, Enter, manager, effects, main
<1>1. TypeOK'
  BY DEF TypeOK, Calls, Finished, InCall, Phases, Results, Outcomes
<1>2. UnknownBeforeMade' /\ UndeliveredBeforePosted'
  BY DEF TypeOK, UnknownBeforeMade, UndeliveredBeforePosted, OnePlace,
         AfterDestroy, NotMade, NotPosted, Kept, Finished
<1>3. RanMeansGone'
  BY DEF TypeOK, UnknownBeforeMade, RanMeansGone, OnePlace, NotMade, Outcomes
<1>4. OnePlace'
  BY DEF TypeOK, UnknownBeforeMade, UndeliveredBeforePosted, RanMeansGone,
         OnePlace, AfterDestroy, NotMade, NotPosted, Kept, ManagerLocked, Outcomes, Finished
<1>5. AfterDestroy' /\ DataDeletedOnce'
  BY DEF TypeOK, UndeliveredBeforePosted, OnePlace, AfterDestroy,
         DataDeletedOnce, NotMade, NotPosted, Kept, Finished
<1>6. GivenUpOnlyWhenClosed'
  BY DEF TypeOK, UnknownBeforeMade, RanMeansGone, OnePlace, GivenUpOnlyWhenClosed,
         NotMade, Pending, Finished
<1> QED
  BY <1>1, <1>2, <1>3, <1>4, <1>5, <1>6

(* CheckShutDown keeps the invariant. *)
LEMMA CheckShutDownIInv ==
  ASSUME NEW c \in Calls, IInv, CheckShutDown(c)
  PROVE  IInv'
<1> USE CallsAssumption DEF IInv, CheckShutDown, Go, Enter, manager, effects, main
<1>1. TypeOK'
  BY DEF TypeOK, Calls, Finished, InCall, Phases, Results, Outcomes
<1>2. UnknownBeforeMade' /\ UndeliveredBeforePosted'
  BY DEF TypeOK, UnknownBeforeMade, UndeliveredBeforePosted, OnePlace,
         AfterDestroy, NotMade, NotPosted, Kept, Finished
<1>3. RanMeansGone'
  BY DEF TypeOK, UnknownBeforeMade, RanMeansGone, OnePlace, NotMade
<1>4. OnePlace'
  BY DEF TypeOK, UnknownBeforeMade, UndeliveredBeforePosted, RanMeansGone,
         OnePlace, AfterDestroy, NotMade, NotPosted, Kept, ManagerLocked
<1>5. AfterDestroy' /\ DataDeletedOnce'
  BY DEF TypeOK, UndeliveredBeforePosted, OnePlace, AfterDestroy,
         DataDeletedOnce, NotMade, NotPosted, Kept, Finished
<1>6. GivenUpOnlyWhenClosed'
  BY DEF TypeOK, UnknownBeforeMade, RanMeansGone, OnePlace, GivenUpOnlyWhenClosed,
         NotMade, Pending, Finished
<1> QED
  BY <1>1, <1>2, <1>3, <1>4, <1>5, <1>6

(* MakeCallback keeps the invariant. *)
LEMMA MakeCallbackIInv ==
  ASSUME NEW c \in Calls, IInv, MakeCallback(c)
  PROVE  IInv'
<1> USE CallsAssumption DEF IInv, MakeCallback, Go, Enter, manager, effects, main
<1>1. TypeOK'
  BY DEF TypeOK, Calls, Finished, InCall, Phases, Results, Outcomes
<1>2. UnknownBeforeMade' /\ UndeliveredBeforePosted'
  BY DEF TypeOK, UnknownBeforeMade, UndeliveredBeforePosted, OnePlace,
         AfterDestroy, NotMade, NotPosted, Kept, Finished
<1>3. RanMeansGone'
  BY DEF TypeOK, UnknownBeforeMade, RanMeansGone, OnePlace, NotMade
<1>4. OnePlace'
  BY DEF TypeOK, UnknownBeforeMade, UndeliveredBeforePosted, RanMeansGone,
         OnePlace, AfterDestroy, NotMade, NotPosted, Kept, ManagerLocked
<1>5. AfterDestroy' /\ DataDeletedOnce'
  BY DEF TypeOK, UndeliveredBeforePosted, OnePlace, AfterDestroy,
         DataDeletedOnce, NotMade, NotPosted, Kept, Finished
<1>6. GivenUpOnlyWhenClosed'
  BY DEF TypeOK, UnknownBeforeMade, RanMeansGone, OnePlace, GivenUpOnlyWhenClosed,
         NotMade, Pending, Finished
<1> QED
  BY <1>1, <1>2, <1>3, <1>4, <1>5, <1>6

(* PostCheck keeps the invariant. *)
LEMMA PostCheckIInv ==
  ASSUME NEW c \in Calls, IInv, PostCheck(c)
  PROVE  IInv'
<1> USE CallsAssumption DEF IInv, PostCheck, Go, Enter, manager, effects, main
<1>1. TypeOK'
  BY DEF TypeOK, Calls, Finished, InCall, Phases, Results, Outcomes
<1>2. UnknownBeforeMade' /\ UndeliveredBeforePosted'
  BY DEF TypeOK, UnknownBeforeMade, UndeliveredBeforePosted, OnePlace,
         AfterDestroy, NotMade, NotPosted, Kept, Finished
<1>3. RanMeansGone'
  BY DEF TypeOK, UnknownBeforeMade, RanMeansGone, OnePlace, NotMade
<1>4. OnePlace'
  BY DEF TypeOK, UnknownBeforeMade, UndeliveredBeforePosted, RanMeansGone,
         OnePlace, AfterDestroy, NotMade, NotPosted, Kept, ManagerLocked
<1>5. AfterDestroy' /\ DataDeletedOnce'
  BY DEF TypeOK, UndeliveredBeforePosted, OnePlace, AfterDestroy,
         DataDeletedOnce, NotMade, NotPosted, Kept, Finished
<1>6. GivenUpOnlyWhenClosed'
  BY DEF TypeOK, UnknownBeforeMade, RanMeansGone, OnePlace, GivenUpOnlyWhenClosed,
         NotMade, Pending, Finished
<1> QED
  BY <1>1, <1>2, <1>3, <1>4, <1>5, <1>6

(* LoadFunction keeps the invariant. *)
LEMMA LoadFunctionIInv ==
  ASSUME NEW c \in Calls, IInv, LoadFunction(c)
  PROVE  IInv'
<1> USE CallsAssumption DEF IInv, LoadFunction, Go, Enter, manager, effects, main
<1>1. TypeOK'
  BY DEF TypeOK, Calls, Finished, InCall, Phases, Results, Outcomes
<1>2. UnknownBeforeMade' /\ UndeliveredBeforePosted'
  BY DEF TypeOK, UnknownBeforeMade, UndeliveredBeforePosted, OnePlace,
         AfterDestroy, NotMade, NotPosted, Kept, Finished
<1>3. RanMeansGone'
  BY DEF TypeOK, UnknownBeforeMade, RanMeansGone, OnePlace, NotMade
<1>4. OnePlace'
  BY DEF TypeOK, UnknownBeforeMade, UndeliveredBeforePosted, RanMeansGone,
         OnePlace, AfterDestroy, NotMade, NotPosted, Kept, ManagerLocked
<1>5. AfterDestroy' /\ DataDeletedOnce'
  BY DEF TypeOK, UndeliveredBeforePosted, OnePlace, AfterDestroy,
         DataDeletedOnce, NotMade, NotPosted, Kept, Finished
<1>6. GivenUpOnlyWhenClosed'
  BY DEF TypeOK, UnknownBeforeMade, RanMeansGone, OnePlace, GivenUpOnlyWhenClosed,
         NotMade, Pending, Finished
<1> QED
  BY <1>1, <1>2, <1>3, <1>4, <1>5, <1>6

(* InvokeFunction keeps the invariant. *)
LEMMA InvokeFunctionIInv ==
  ASSUME NEW c \in Calls, IInv, InvokeFunction(c)
  PROVE  IInv'
<1> USE CallsAssumption DEF IInv, InvokeFunction, Go, Enter, manager, effects, main
<1>1. TypeOK'
  BY DEF TypeOK, Calls, Finished, InCall, Phases, Results, Outcomes
<1>2. UnknownBeforeMade' /\ UndeliveredBeforePosted'
  BY DEF TypeOK, UnknownBeforeMade, UndeliveredBeforePosted, OnePlace,
         AfterDestroy, NotMade, NotPosted, Kept, Finished
<1>3. RanMeansGone'
  BY DEF TypeOK, UnknownBeforeMade, RanMeansGone, OnePlace, NotMade
<1>4. OnePlace'
  BY DEF TypeOK, UnknownBeforeMade, UndeliveredBeforePosted, RanMeansGone,
         OnePlace, AfterDestroy, NotMade, NotPosted, Kept, ManagerLocked
<1>5. AfterDestroy' /\ DataDeletedOnce'
  BY DEF TypeOK, UndeliveredBeforePosted, OnePlace, AfterDestroy,
         DataDeletedOnce, NotMade, NotPosted, Kept, Finished
<1>6. GivenUpOnlyWhenClosed'
  BY DEF TypeOK, UnknownBeforeMade, RanMeansGone, OnePlace, GivenUpOnlyWhenClosed,
         NotMade, Pending, Finished
<1> QED
  BY <1>1, <1>2, <1>3, <1>4, <1>5, <1>6

(* InvokeNull keeps the invariant. *)
LEMMA InvokeNullIInv ==
  ASSUME NEW c \in Calls, IInv, InvokeNull(c)
  PROVE  IInv'
<1> USE CallsAssumption DEF IInv, InvokeNull, Go, Enter, manager, effects, main
<1>1. TypeOK'
  BY DEF TypeOK, Calls, Finished, InCall, Phases, Results, Outcomes
<1>2. UnknownBeforeMade' /\ UndeliveredBeforePosted'
  BY DEF TypeOK, UnknownBeforeMade, UndeliveredBeforePosted, OnePlace,
         AfterDestroy, NotMade, NotPosted, Kept, Finished
<1>3. RanMeansGone'
  BY DEF TypeOK, UnknownBeforeMade, RanMeansGone, OnePlace, NotMade
<1>4. OnePlace'
  BY DEF TypeOK, UnknownBeforeMade, UndeliveredBeforePosted, RanMeansGone,
         OnePlace, AfterDestroy, NotMade, NotPosted, Kept, ManagerLocked, Finished
<1>5. AfterDestroy' /\ DataDeletedOnce'
  BY DEF TypeOK, UndeliveredBeforePosted, OnePlace, AfterDestroy,
         DataDeletedOnce, NotMade, NotPosted, Kept, Finished
<1>6. GivenUpOnlyWhenClosed'
  BY DEF TypeOK, UnknownBeforeMade, RanMeansGone, OnePlace, GivenUpOnlyWhenClosed,
         NotMade, Pending, Finished
<1> QED
  BY <1>1, <1>2, <1>3, <1>4, <1>5, <1>6

(* RemoveCallback keeps the invariant. *)
LEMMA RemoveCallbackIInv ==
  ASSUME NEW c \in Calls, IInv, RemoveCallback(c)
  PROVE  IInv'
<1> USE CallsAssumption DEF IInv, RemoveCallback, Go, Enter, manager, effects, main
<1>1. TypeOK'
  BY DEF TypeOK, Calls, Finished, InCall, Phases, Results, Outcomes
<1>2. UnknownBeforeMade' /\ UndeliveredBeforePosted'
  BY DEF TypeOK, UnknownBeforeMade, UndeliveredBeforePosted, OnePlace,
         AfterDestroy, NotMade, NotPosted, Kept, Finished
<1>3. RanMeansGone'
  BY DEF TypeOK, UnknownBeforeMade, RanMeansGone, OnePlace, NotMade
<1>4. OnePlace'
  BY DEF TypeOK, UnknownBeforeMade, UndeliveredBeforePosted, RanMeansGone,
         OnePlace, AfterDestroy, NotMade, NotPosted, Kept, ManagerLocked
<1>5. AfterDestroy' /\ DataDeletedOnce'
  BY DEF TypeOK, UndeliveredBeforePosted, OnePlace, AfterDestroy,
         DataDeletedOnce, NotMade, NotPosted, Kept, Finished
<1>6. GivenUpOnlyWhenClosed'
  BY DEF TypeOK, UnknownBeforeMade, RanMeansGone, OnePlace, GivenUpOnlyWhenClosed,
         NotMade, Pending, Finished
<1> QED
  BY <1>1, <1>2, <1>3, <1>4, <1>5, <1>6

(* Refused keeps the invariant. *)
LEMMA RefusedIInv ==
  ASSUME NEW c \in Calls, IInv, Refused(c)
  PROVE  IInv'
<1> USE CallsAssumption DEF IInv, Refused, Go, Enter, manager, effects, main
<1>1. TypeOK'
  BY DEF TypeOK, Calls, Finished, InCall, Phases, Results, Outcomes
<1>2. UnknownBeforeMade' /\ UndeliveredBeforePosted'
  BY DEF TypeOK, UnknownBeforeMade, UndeliveredBeforePosted, OnePlace,
         AfterDestroy, NotMade, NotPosted, Kept, Finished
<1>3. RanMeansGone'
  BY DEF TypeOK, UnknownBeforeMade, RanMeansGone, OnePlace, NotMade
<1>4. OnePlace'
  BY DEF TypeOK, UnknownBeforeMade, UndeliveredBeforePosted, RanMeansGone,
         OnePlace, AfterDestroy, NotMade, NotPosted, Kept, ManagerLocked
<1>5. AfterDestroy' /\ DataDeletedOnce'
  BY DEF TypeOK, UndeliveredBeforePosted, OnePlace, AfterDestroy,
         DataDeletedOnce, NotMade, NotPosted, Kept, Finished
<1>6. GivenUpOnlyWhenClosed'
  BY DEF TypeOK, UnknownBeforeMade, RanMeansGone, OnePlace, GivenUpOnlyWhenClosed,
         NotMade, Pending, Finished
<1> QED
  BY <1>1, <1>2, <1>3, <1>4, <1>5, <1>6

(* Accepted keeps the invariant. *)
LEMMA AcceptedIInv ==
  ASSUME NEW c \in Calls, IInv, Accepted(c)
  PROVE  IInv'
<1> USE CallsAssumption DEF IInv, Accepted, Go, Enter, manager, effects, main
<1>1. TypeOK'
  BY DEF TypeOK, Calls, Finished, InCall, Phases, Results, Outcomes
<1>2. UnknownBeforeMade' /\ UndeliveredBeforePosted'
  BY DEF TypeOK, UnknownBeforeMade, UndeliveredBeforePosted, OnePlace,
         AfterDestroy, NotMade, NotPosted, Kept, Finished
<1>3. RanMeansGone'
  BY DEF TypeOK, UnknownBeforeMade, RanMeansGone, OnePlace, NotMade
<1>4. OnePlace'
  BY DEF TypeOK, UnknownBeforeMade, UndeliveredBeforePosted, RanMeansGone,
         OnePlace, AfterDestroy, NotMade, NotPosted, Kept, ManagerLocked
<1>5. AfterDestroy' /\ DataDeletedOnce'
  BY DEF TypeOK, UndeliveredBeforePosted, OnePlace, AfterDestroy,
         DataDeletedOnce, NotMade, NotPosted, Kept, Finished
<1>6. GivenUpOnlyWhenClosed'
  BY DEF TypeOK, UnknownBeforeMade, RanMeansGone, OnePlace, GivenUpOnlyWhenClosed,
         NotMade, Pending, Finished
<1> QED
  BY <1>1, <1>2, <1>3, <1>4, <1>5, <1>6

(* EndWait keeps the invariant. *)
LEMMA EndWaitIInv ==
  ASSUME NEW c \in Calls, IInv, EndWait(c)
  PROVE  IInv'
<1> USE CallsAssumption DEF IInv, EndWait, Go, Enter, manager, effects, main
<1>1. TypeOK'
  BY DEF TypeOK, Calls, Finished, InCall, Phases, Results, Outcomes
<1>2. UnknownBeforeMade' /\ UndeliveredBeforePosted'
  BY DEF TypeOK, UnknownBeforeMade, UndeliveredBeforePosted, OnePlace,
         AfterDestroy, NotMade, NotPosted, Kept, Finished
<1>3. RanMeansGone'
  BY DEF TypeOK, UnknownBeforeMade, RanMeansGone, OnePlace, NotMade
<1>4. OnePlace'
  BY DEF TypeOK, UnknownBeforeMade, UndeliveredBeforePosted, RanMeansGone,
         OnePlace, AfterDestroy, NotMade, NotPosted, Kept, ManagerLocked, Results
<1>5. AfterDestroy' /\ DataDeletedOnce'
  BY DEF TypeOK, UndeliveredBeforePosted, OnePlace, AfterDestroy,
         DataDeletedOnce, NotMade, NotPosted, Kept, Finished
<1>6. GivenUpOnlyWhenClosed'
  BY DEF TypeOK, UnknownBeforeMade, RanMeansGone, OnePlace, GivenUpOnlyWhenClosed,
         NotMade, Pending, Finished
<1> QED
  BY <1>1, <1>2, <1>3, <1>4, <1>5, <1>6

(* Deliver keeps the invariant. *)
LEMMA DeliverIInv ==
  ASSUME NEW c \in Calls, IInv, Deliver(c)
  PROVE  IInv'
<1> USE CallsAssumption DEF IInv, Deliver, Go, Enter, manager, effects, main
<1>1. TypeOK'
  BY DEF TypeOK, Calls, Finished, InCall, Phases, Results, Outcomes
<1>2. UnknownBeforeMade' /\ UndeliveredBeforePosted'
  BY DEF TypeOK, UnknownBeforeMade, UndeliveredBeforePosted, OnePlace,
         AfterDestroy, NotMade, NotPosted, Kept, Finished
<1>3. RanMeansGone'
  BY DEF TypeOK, UnknownBeforeMade, RanMeansGone, OnePlace, NotMade
<1>4. OnePlace'
  BY DEF TypeOK, UnknownBeforeMade, UndeliveredBeforePosted, RanMeansGone,
         OnePlace, AfterDestroy, NotMade, NotPosted, Kept, ManagerLocked
<1>5. AfterDestroy' /\ DataDeletedOnce'
  BY DEF TypeOK, UndeliveredBeforePosted, OnePlace, AfterDestroy,
         DataDeletedOnce, NotMade, NotPosted, Kept, Finished
<1>6. GivenUpOnlyWhenClosed'
  BY DEF TypeOK, UnknownBeforeMade, RanMeansGone, OnePlace, GivenUpOnlyWhenClosed,
         NotMade, Pending, Finished
<1> QED
  BY <1>1, <1>2, <1>3, <1>4, <1>5, <1>6

(* LockCall keeps the invariant. *)
LEMMA LockCallIInv ==
  ASSUME NEW c \in Calls, IInv, LockCall(c)
  PROVE  IInv'
<1> USE CallsAssumption DEF IInv, LockCall, Go, Enter, manager, effects, main
<1>1. TypeOK'
  BY DEF TypeOK, Calls, Finished, InCall, Phases, Results, Outcomes
<1>2. UnknownBeforeMade' /\ UndeliveredBeforePosted'
  BY DEF TypeOK, UnknownBeforeMade, UndeliveredBeforePosted, OnePlace,
         AfterDestroy, NotMade, NotPosted, Kept, Finished
<1>3. RanMeansGone'
  BY DEF TypeOK, UnknownBeforeMade, RanMeansGone, OnePlace, NotMade
<1>4. OnePlace'
  BY DEF TypeOK, UnknownBeforeMade, UndeliveredBeforePosted, RanMeansGone,
         OnePlace, AfterDestroy, NotMade, NotPosted, Kept, ManagerLocked
<1>5. AfterDestroy' /\ DataDeletedOnce'
  BY DEF TypeOK, UndeliveredBeforePosted, OnePlace, AfterDestroy,
         DataDeletedOnce, NotMade, NotPosted, Kept, Finished
<1>6. GivenUpOnlyWhenClosed'
  BY DEF TypeOK, UnknownBeforeMade, RanMeansGone, OnePlace, GivenUpOnlyWhenClosed,
         NotMade, Pending, Finished
<1> QED
  BY <1>1, <1>2, <1>3, <1>4, <1>5, <1>6

(* RunFunction keeps the invariant. *)
LEMMA RunFunctionIInv ==
  ASSUME NEW c \in Calls, IInv, RunFunction(c)
  PROVE  IInv'
<1> USE CallsAssumption DEF IInv, RunFunction, Go, Enter, manager, effects, main
<1>1. TypeOK'
  BY DEF TypeOK, Calls, Finished, InCall, Phases, Results, Outcomes
<1>2. UnknownBeforeMade' /\ UndeliveredBeforePosted'
  BY DEF TypeOK, UnknownBeforeMade, UndeliveredBeforePosted, OnePlace,
         AfterDestroy, NotMade, NotPosted, Kept, Finished
<1>3. RanMeansGone'
  BY DEF TypeOK, UnknownBeforeMade, RanMeansGone, OnePlace, NotMade, Outcomes
<1>4. OnePlace'
  BY DEF TypeOK, UnknownBeforeMade, UndeliveredBeforePosted, RanMeansGone,
         OnePlace, AfterDestroy, NotMade, NotPosted, Kept, ManagerLocked, Outcomes, Finished
<1>5. AfterDestroy' /\ DataDeletedOnce'
  BY DEF TypeOK, UndeliveredBeforePosted, OnePlace, AfterDestroy,
         DataDeletedOnce, NotMade, NotPosted, Kept, Finished
<1>6. GivenUpOnlyWhenClosed'
  BY DEF TypeOK, UnknownBeforeMade, RanMeansGone, OnePlace, GivenUpOnlyWhenClosed,
         NotMade, Pending, Finished
<1> QED
  BY <1>1, <1>2, <1>3, <1>4, <1>5, <1>6

(* FinishCall keeps the invariant. *)
LEMMA FinishCallIInv ==
  ASSUME NEW c \in Calls, IInv, FinishCall(c)
  PROVE  IInv'
<1> USE CallsAssumption DEF IInv, FinishCall, Go, Enter, manager, effects, main
<1>1. TypeOK'
  BY DEF TypeOK, Calls, Finished, InCall, Phases, Results, Outcomes
<1>2. UnknownBeforeMade' /\ UndeliveredBeforePosted'
  BY DEF TypeOK, UnknownBeforeMade, UndeliveredBeforePosted, OnePlace,
         AfterDestroy, NotMade, NotPosted, Kept, Finished
<1>3. RanMeansGone'
  BY DEF TypeOK, UnknownBeforeMade, RanMeansGone, OnePlace, NotMade
<1>4. OnePlace'
  BY DEF TypeOK, UnknownBeforeMade, UndeliveredBeforePosted, RanMeansGone,
         OnePlace, AfterDestroy, NotMade, NotPosted, Kept, ManagerLocked
<1>5. AfterDestroy' /\ DataDeletedOnce'
  BY DEF TypeOK, UndeliveredBeforePosted, OnePlace, AfterDestroy,
         DataDeletedOnce, NotMade, NotPosted, Kept, Finished
<1>6. GivenUpOnlyWhenClosed'
  BY DEF TypeOK, UnknownBeforeMade, RanMeansGone, OnePlace, GivenUpOnlyWhenClosed,
         NotMade, Pending, Finished
<1> QED
  BY <1>1, <1>2, <1>3, <1>4, <1>5, <1>6

(* LeaveCall keeps the invariant. *)
LEMMA LeaveCallIInv ==
  ASSUME NEW c \in Calls, IInv, LeaveCall(c)
  PROVE  IInv'
<1> USE CallsAssumption DEF IInv, LeaveCall, Go, Enter, manager, effects, main
<1>1. TypeOK'
  BY DEF TypeOK, Calls, Finished, InCall, Phases, Results, Outcomes
<1>2. UnknownBeforeMade' /\ UndeliveredBeforePosted'
  BY DEF TypeOK, UnknownBeforeMade, UndeliveredBeforePosted, OnePlace,
         AfterDestroy, NotMade, NotPosted, Kept, Finished
<1>3. RanMeansGone'
  BY DEF TypeOK, UnknownBeforeMade, RanMeansGone, OnePlace, NotMade
<1>4. OnePlace'
  BY DEF TypeOK, UnknownBeforeMade, UndeliveredBeforePosted, RanMeansGone,
         OnePlace, AfterDestroy, NotMade, NotPosted, Kept, ManagerLocked
<1>5. AfterDestroy' /\ DataDeletedOnce'
  BY DEF TypeOK, UndeliveredBeforePosted, OnePlace, AfterDestroy,
         DataDeletedOnce, NotMade, NotPosted, Kept, Finished
<1>6. GivenUpOnlyWhenClosed'
  BY DEF TypeOK, UnknownBeforeMade, RanMeansGone, OnePlace, GivenUpOnlyWhenClosed,
         NotMade, Pending, Finished
<1> QED
  BY <1>1, <1>2, <1>3, <1>4, <1>5, <1>6

(* DrainOne keeps the invariant. *)
LEMMA DrainOneIInv ==
  ASSUME NEW c \in Calls, IInv, DrainOne(c)
  PROVE  IInv'
<1> USE CallsAssumption DEF IInv, DrainOne, Go, Enter, manager, effects, main
<1>1. TypeOK'
  BY DEF TypeOK, Calls, Finished, InCall, Phases, Results, Outcomes
<1>2. UnknownBeforeMade' /\ UndeliveredBeforePosted'
  BY DEF TypeOK, UnknownBeforeMade, UndeliveredBeforePosted, OnePlace,
         AfterDestroy, NotMade, NotPosted, Kept, Finished
<1>3. RanMeansGone'
  BY DEF TypeOK, UnknownBeforeMade, RanMeansGone, OnePlace, NotMade
<1>4. OnePlace'
  BY DEF TypeOK, UnknownBeforeMade, UndeliveredBeforePosted, RanMeansGone,
         OnePlace, AfterDestroy, NotMade, NotPosted, Kept, ManagerLocked
<1>5. AfterDestroy' /\ DataDeletedOnce'
  BY DEF TypeOK, UndeliveredBeforePosted, OnePlace, AfterDestroy,
         DataDeletedOnce, NotMade, NotPosted, Kept, Finished
<1>6. GivenUpOnlyWhenClosed'
  BY DEF TypeOK, UnknownBeforeMade, RanMeansGone, OnePlace, GivenUpOnlyWhenClosed,
         NotMade, Pending, Finished
<1> QED
  BY <1>1, <1>2, <1>3, <1>4, <1>5, <1>6

(* ShutdownBegin keeps the invariant. *)
LEMMA ShutdownBeginIInv ==
  ASSUME IInv, ShutdownBegin
  PROVE  IInv'
<1> USE CallsAssumption DEF IInv, ShutdownBegin, Go, Enter, manager, effects, main
<1>1. TypeOK'
  BY DEF TypeOK, Calls, Finished, InCall, Phases, Results, Outcomes
<1>2. UnknownBeforeMade' /\ UndeliveredBeforePosted'
  BY DEF TypeOK, UnknownBeforeMade, UndeliveredBeforePosted, OnePlace,
         AfterDestroy, NotMade, NotPosted, Kept, Finished
<1>3. RanMeansGone'
  BY DEF TypeOK, UnknownBeforeMade, RanMeansGone, OnePlace, NotMade
<1>4. OnePlace'
  BY DEF TypeOK, UnknownBeforeMade, UndeliveredBeforePosted, RanMeansGone,
         OnePlace, AfterDestroy, NotMade, NotPosted, Kept, ManagerLocked
<1>5. AfterDestroy' /\ DataDeletedOnce'
  BY DEF TypeOK, UndeliveredBeforePosted, OnePlace, AfterDestroy,
         DataDeletedOnce, NotMade, NotPosted, Kept, Finished
<1>6. GivenUpOnlyWhenClosed'
  BY DEF TypeOK, UnknownBeforeMade, RanMeansGone, OnePlace, GivenUpOnlyWhenClosed,
         NotMade, Pending, Finished
<1> QED
  BY <1>1, <1>2, <1>3, <1>4, <1>5, <1>6

(* SetShutDown keeps the invariant. *)
LEMMA SetShutDownIInv ==
  ASSUME IInv, SetShutDown
  PROVE  IInv'
<1> USE CallsAssumption DEF IInv, SetShutDown, Go, Enter, manager, effects, main
<1>1. TypeOK'
  BY DEF TypeOK, Calls, Finished, InCall, Phases, Results, Outcomes
<1>2. UnknownBeforeMade' /\ UndeliveredBeforePosted'
  BY DEF TypeOK, UnknownBeforeMade, UndeliveredBeforePosted, OnePlace,
         AfterDestroy, NotMade, NotPosted, Kept, Finished
<1>3. RanMeansGone'
  BY DEF TypeOK, UnknownBeforeMade, RanMeansGone, OnePlace, NotMade
<1>4. OnePlace'
  BY DEF TypeOK, UnknownBeforeMade, UndeliveredBeforePosted, RanMeansGone,
         OnePlace, AfterDestroy, NotMade, NotPosted, Kept, ManagerLocked
<1>5. AfterDestroy' /\ DataDeletedOnce'
  BY DEF TypeOK, UndeliveredBeforePosted, OnePlace, AfterDestroy,
         DataDeletedOnce, NotMade, NotPosted, Kept, Finished
<1>6. GivenUpOnlyWhenClosed'
  BY DEF TypeOK, UnknownBeforeMade, RanMeansGone, OnePlace, GivenUpOnlyWhenClosed,
         NotMade, Pending, Finished
<1> QED
  BY <1>1, <1>2, <1>3, <1>4, <1>5, <1>6

(* DrainBegin keeps the invariant. *)
LEMMA DrainBeginIInv ==
  ASSUME IInv, DrainBegin
  PROVE  IInv'
<1> USE CallsAssumption DEF IInv, DrainBegin, Go, Enter, manager, effects, main
<1>1. TypeOK'
  BY DEF TypeOK, Calls, Finished, InCall, Phases, Results, Outcomes
<1>2. UnknownBeforeMade' /\ UndeliveredBeforePosted'
  BY DEF TypeOK, UnknownBeforeMade, UndeliveredBeforePosted, OnePlace,
         AfterDestroy, NotMade, NotPosted, Kept, Finished
<1>3. RanMeansGone'
  BY DEF TypeOK, UnknownBeforeMade, RanMeansGone, OnePlace, NotMade
<1>4. OnePlace'
  BY DEF TypeOK, UnknownBeforeMade, UndeliveredBeforePosted, RanMeansGone,
         OnePlace, AfterDestroy, NotMade, NotPosted, Kept, ManagerLocked
<1>5. AfterDestroy' /\ DataDeletedOnce'
  BY DEF TypeOK, UndeliveredBeforePosted, OnePlace, AfterDestroy,
         DataDeletedOnce, NotMade, NotPosted, Kept, Finished
<1>6. GivenUpOnlyWhenClosed'
  BY DEF TypeOK, UnknownBeforeMade, RanMeansGone, OnePlace, GivenUpOnlyWhenClosed,
         NotMade, Pending, Finished
<1> QED
  BY <1>1, <1>2, <1>3, <1>4, <1>5, <1>6

(* DrainEnd keeps the invariant. *)
LEMMA DrainEndIInv ==
  ASSUME IInv, DrainEnd
  PROVE  IInv'
<1> USE CallsAssumption DEF IInv, DrainEnd, Go, Enter, manager, effects, main
<1>1. TypeOK'
  BY DEF TypeOK, Calls, Finished, InCall, Phases, Results, Outcomes
<1>2. UnknownBeforeMade' /\ UndeliveredBeforePosted'
  BY DEF TypeOK, UnknownBeforeMade, UndeliveredBeforePosted, OnePlace,
         AfterDestroy, NotMade, NotPosted, Kept, Finished
<1>3. RanMeansGone'
  BY DEF TypeOK, UnknownBeforeMade, RanMeansGone, OnePlace, NotMade
<1>4. OnePlace'
  BY DEF TypeOK, UnknownBeforeMade, UndeliveredBeforePosted, RanMeansGone,
         OnePlace, AfterDestroy, NotMade, NotPosted, Kept, ManagerLocked
<1>5. AfterDestroy' /\ DataDeletedOnce'
  BY DEF TypeOK, UndeliveredBeforePosted, OnePlace, AfterDestroy,
         DataDeletedOnce, NotMade, NotPosted, Kept, Finished
<1>6. GivenUpOnlyWhenClosed'
  BY DEF TypeOK, UnknownBeforeMade, RanMeansGone, OnePlace, GivenUpOnlyWhenClosed,
         NotMade, Pending, Finished
<1> QED
  BY <1>1, <1>2, <1>3, <1>4, <1>5, <1>6

(* Destroy keeps the invariant. *)
LEMMA DestroyIInv ==
  ASSUME IInv, Destroy
  PROVE  IInv'
<1> USE CallsAssumption DEF IInv, Destroy, Go, Enter, manager, effects, main
<1>1. TypeOK'
  BY DEF TypeOK, Calls, Finished, InCall, Phases, Results, Outcomes
<1>2. UnknownBeforeMade' /\ UndeliveredBeforePosted'
  BY DEF TypeOK, UnknownBeforeMade, UndeliveredBeforePosted, OnePlace,
         AfterDestroy, NotMade, NotPosted, Kept, Finished
<1>3. RanMeansGone'
  BY DEF TypeOK, UnknownBeforeMade, RanMeansGone, OnePlace, NotMade
<1>4. OnePlace'
  BY DEF TypeOK, UnknownBeforeMade, UndeliveredBeforePosted, RanMeansGone,
         OnePlace, AfterDestroy, NotMade, NotPosted, Kept, ManagerLocked
<1>5. AfterDestroy' /\ DataDeletedOnce'
  BY DEF TypeOK, UndeliveredBeforePosted, OnePlace, AfterDestroy,
         DataDeletedOnce, NotMade, NotPosted, Kept, Finished
<1>6. GivenUpOnlyWhenClosed'
  BY DEF TypeOK, UnknownBeforeMade, RanMeansGone, OnePlace, GivenUpOnlyWhenClosed,
         NotMade, Pending, Finished
<1> QED
  BY <1>1, <1>2, <1>3, <1>4, <1>5, <1>6

(* HostGone keeps the invariant. *)
LEMMA HostGoneIInv ==
  ASSUME IInv, HostGone
  PROVE  IInv'
<1> USE CallsAssumption DEF IInv, HostGone, Go, Enter, manager, effects, main
<1>1. TypeOK'
  BY DEF TypeOK, Calls, Finished, InCall, Phases, Results, Outcomes
<1>2. UnknownBeforeMade' /\ UndeliveredBeforePosted'
  BY DEF TypeOK, UnknownBeforeMade, UndeliveredBeforePosted, OnePlace,
         AfterDestroy, NotMade, NotPosted, Kept, Finished
<1>3. RanMeansGone'
  BY DEF TypeOK, UnknownBeforeMade, RanMeansGone, OnePlace, NotMade
<1>4. OnePlace'
  BY DEF TypeOK, UnknownBeforeMade, UndeliveredBeforePosted, RanMeansGone,
         OnePlace, AfterDestroy, NotMade, NotPosted, Kept, ManagerLocked
<1>5. AfterDestroy' /\ DataDeletedOnce'
  BY DEF TypeOK, UndeliveredBeforePosted, OnePlace, AfterDestroy,
         DataDeletedOnce, NotMade, NotPosted, Kept, Finished
<1>6. GivenUpOnlyWhenClosed'
  BY DEF TypeOK, UnknownBeforeMade, RanMeansGone, OnePlace, GivenUpOnlyWhenClosed,
         NotMade, Pending, Finished
<1> QED
  BY <1>1, <1>2, <1>3, <1>4, <1>5, <1>6

(* Every step keeps the invariant.                                         *)
LEMMA NextIInv == IInv /\ [Next]_vars => IInv'
<1> SUFFICES ASSUME IInv, [Next]_vars PROVE IInv'
  OBVIOUS
<1>1. CASE UNCHANGED vars
  BY <1>1 DEF vars, manager, effects, main, IInv, TypeOK, UnknownBeforeMade,
       UndeliveredBeforePosted, RanMeansGone, OnePlace, AfterDestroy, DataDeletedOnce,
       GivenUpOnlyWhenClosed, NotMade, NotPosted, Kept, Pending
<1>2. ASSUME NEW c \in Calls, Worker(c) PROVE IInv'
  BY <1>2, CheckShutDownIInv, MakeCallbackIInv, PostCheckIInv, LoadFunctionIInv,
     InvokeFunctionIInv, InvokeNullIInv, RemoveCallbackIInv, RefusedIInv,
     AcceptedIInv, EndWaitIInv DEF Worker
<1>3. CASE MainThread
  BY <1>3, DeliverIInv, LockCallIInv, RunFunctionIInv, FinishCallIInv, LeaveCallIInv, DrainOneIInv,
     SetShutDownIInv, DrainBeginIInv, DrainEndIInv DEF MainThread
<1> QED
  BY <1>1, <1>2, <1>3, BeginIInv, CallDirectIInv, ShutdownBeginIInv, DestroyIInv,
     HostGoneIInv DEF Next

(* The invariant holds in every reachable state.                           *)
THEOREM InvariantHolds == Spec => []IInv
  BY InitIInv, NextIInv, PTL DEF Spec

(* Whatever the callers, the browser and NPP_Destroy do, the function of a *)
(* call runs at most once.                                                 *)
THEOREM RunsAtMostOnce == Spec => []RunAtMostOnce
<1>1. IInv => RunAtMostOnce
  BY DEF IInv, TypeOK, RanMeansGone, RunAtMostOnce
<1> QED
  BY <1>1, InvariantHolds, PTL

(* No _asyncCallData is deleted twice, and the browser never delivers one  *)
(* that has been deleted.                                                  *)
THEOREM DataIsDeletedOnce == Spec => []DataDeletedOnce
<1>1. IInv => DataDeletedOnce
  BY DEF IInv
<1> QED
  BY <1>1, InvariantHolds, PTL

(* A value that CallOnMainThread returns is that of a function that ran    *)
(* once and to its end, and the default value that stands for a lost       *)
(* exception comes only after a script_error.                              *)
THEOREM ReturnsOnlyWhatRan == Spec => []ReturnedMeansRan
<1>1. IInv => ReturnedMeansRan
  BY DEF IInv, TypeOK, RanMeansGone, OnePlace, ReturnedMeansRan, Calls
<1> QED
  BY <1>1, InvariantHolds, PTL

-----------------------------------------------------------------------------
(* The calls implement OneShotCalls.                                       *)

(* The status of a call nobody has made is idle.                           *)
LEMMA InitRefines == Init => OneShot!Init
<1> SUFFICES ASSUME Init PROVE OneShot!Init
  OBVIOUS
<1>1. \A c \in Calls : StatusOf(c) = "idle"
  BY CallsAssumption DEF Init, StatusOf, Pending
<1> QED
  BY <1>1 DEF Init, OneShot!Init, CallStatus

(* A step that changes the status of one call moves it.                    *)
LEMMA MoveOne ==
  ASSUME NEW c \in Calls, NEW from, NEW to,
         StatusOf(c) \in from, StatusOf(c)' = to, UNCHANGED isShutDown,
         \A d \in Calls \ {c} : StatusOf(d)' = StatusOf(d)
  PROVE  OneShot!Move(c, from, to)
<1>1. CallStatus[c] \in from
  BY DEF CallStatus
<1>2. CallStatus' = [d \in Calls |-> StatusOf(d)']
  BY DEF CallStatus
<1>3. [CallStatus EXCEPT ![c] = to] = [d \in Calls |-> IF d = c THEN to ELSE StatusOf(d)]
  BY DEF CallStatus
<1>4. CallStatus' = [CallStatus EXCEPT ![c] = to]
  BY <1>2, <1>3
<1> QED
  BY <1>1, <1>4 DEF OneShot!Move

(* A step that changes no status is a stutter of the abstract calls.       *)
LEMMA MoveNone ==
  ASSUME \A d \in Calls : StatusOf(d)' = StatusOf(d)
  PROVE  UNCHANGED CallStatus
  BY DEF CallStatus

(* A worker's step moves its own call: it registers it, gives it up, or    *)
(* leaves every status alone.                                              *)
LEMMA WorkerRefines ==
  ASSUME NEW c \in Calls, IInv, Begin(c) \/ CallDirect(c) \/ Worker(c)
  PROVE  [OneShot!Next]_<<CallStatus, isShutDown>>
<1> USE DEF IInv, TypeOK, Go, manager, effects, main, StatusOf, Pending
<1>1. CASE Begin(c)
  BY <1>1, MoveNone DEF Begin
<1>2. CASE CallDirect(c)
  <2>1. /\ StatusOf(c) = "idle" /\ StatusOf(c)' = "ran" /\ UNCHANGED isShutDown
        /\ \A d \in Calls \ {c} : StatusOf(d)' = StatusOf(d)
    BY <1>2 DEF CallDirect, UnknownBeforeMade, NotMade
  <2> QED
    BY <2>1, MoveOne DEF OneShot!Run, OneShot!Next
<1>3. CASE CheckShutDown(c)
  <2>1. CASE isShutDown
    <3>1. /\ StatusOf(c) = "idle" /\ StatusOf(c)' = "dropped" /\ UNCHANGED isShutDown
          /\ \A d \in Calls \ {c} : StatusOf(d)' = StatusOf(d)
      BY <1>3, <2>1 DEF CheckShutDown, UnknownBeforeMade, NotMade
    <3> QED
      BY <2>1, <3>1, MoveOne DEF OneShot!Drop, OneShot!Next
  <2>2. CASE ~isShutDown
    BY <1>3, <2>2, MoveNone DEF CheckShutDown
  <2> QED
    BY <2>1, <2>2
<1>4. CASE MakeCallback(c)
  <2>1. /\ StatusOf(c) = "idle" /\ StatusOf(c)' = "pending" /\ UNCHANGED isShutDown
        /\ \A d \in Calls \ {c} : StatusOf(d)' = StatusOf(d)
    BY <1>4 DEF MakeCallback, UnknownBeforeMade, NotMade
  <2> QED
    BY <2>1, MoveOne DEF OneShot!Register, OneShot!Next
<1>5. CASE RemoveCallback(c)
  <2>1. CASE c \in dataList
    <3>1. /\ StatusOf(c) = "pending" /\ StatusOf(c)' = "dropped" /\ UNCHANGED isShutDown
          /\ \A d \in Calls \ {c} : StatusOf(d)' = StatusOf(d)
      BY <1>5, <2>1 DEF RemoveCallback, RanMeansGone, OnePlace
    <3>2. isShutDown
      BY <1>5 DEF RemoveCallback, GivenUpOnlyWhenClosed
    <3> QED
      BY <3>1, <3>2, MoveOne DEF OneShot!Drop, OneShot!Next
  <2>2. CASE c \notin dataList
    BY <1>5, <2>2, MoveNone DEF RemoveCallback
  <2> QED
    BY <2>1, <2>2
<1>6. CASE PostCheck(c) \/ LoadFunction(c) \/ InvokeFunction(c) \/ InvokeNull(c)
  BY <1>6, MoveNone DEF PostCheck, LoadFunction, InvokeFunction, InvokeNull
<1>7. CASE Refused(c) \/ Accepted(c) \/ EndWait(c)
  BY <1>7, MoveNone DEF Refused, Accepted, EndWait
<1> QED
  BY <1>1, <1>2, <1>3, <1>4, <1>5, <1>6, <1>7 DEF Worker

(* The main thread runs a registered call, gives up one whose caller has   *)
(* left, or closes the host.                                               *)
LEMMA MainRefines ==
  ASSUME IInv, MainThread \/ ShutdownBegin \/ Destroy \/ HostGone
  PROVE  [OneShot!Next]_<<CallStatus, isShutDown>>
<1> USE CallsAssumption DEF IInv, TypeOK, manager, effects, main, StatusOf, Pending
<1>1. ASSUME NEW c \in Calls, Deliver(c) \/ DrainOne(c)
      PROVE  UNCHANGED <<CallStatus, isShutDown>>
  BY <1>1, MoveNone DEF Deliver, DrainOne, Enter, RanMeansGone
<1>2. ASSUME NEW c \in Calls, LockCall(c)
      PROVE  [OneShot!Next]_<<CallStatus, isShutDown>>
  <2>1. CASE pc[c] \in Finished
    <3>1. /\ StatusOf(c) = "pending" /\ StatusOf(c)' = "dropped" /\ UNCHANGED isShutDown
          /\ \A d \in Calls \ {c} : StatusOf(d)' = StatusOf(d)
      BY <1>2, <2>1 DEF LockCall, Finished, UnknownBeforeMade, NotMade, RanMeansGone, OnePlace
    <3>2. isShutDown
      BY <1>2, <2>1 DEF LockCall, Finished, RanMeansGone, OnePlace, GivenUpOnlyWhenClosed
    <3> QED
      BY <3>1, <3>2, MoveOne DEF OneShot!Drop, OneShot!Next
  <2>2. CASE pc[c] \notin Finished
    BY <1>2, <2>2, MoveNone DEF LockCall
  <2> QED
    BY <2>1, <2>2
<1>3. ASSUME NEW c \in Calls, RunFunction(c)
      PROVE  OneShot!Run(c)
  <2>1. /\ StatusOf(c) = "pending" /\ StatusOf(c)' = "ran" /\ UNCHANGED isShutDown
        /\ \A d \in Calls \ {c} : StatusOf(d)' = StatusOf(d)
    BY <1>3 DEF RunFunction, RanMeansGone
  <2> QED
    BY <2>1, MoveOne DEF OneShot!Run
<1>4. ASSUME NEW c \in Calls, FinishCall(c) \/ LeaveCall(c)
      PROVE  UNCHANGED <<CallStatus, isShutDown>>
  BY <1>4, MoveNone DEF FinishCall, LeaveCall
<1>5. CASE SetShutDown
  <2>1. UNCHANGED CallStatus
    BY <1>5, MoveNone DEF SetShutDown
  <2> QED
    BY <1>5, <2>1 DEF SetShutDown, OneShot!Close, OneShot!Next
<1>6. CASE DrainBegin \/ DrainEnd \/ ShutdownBegin \/ Destroy \/ HostGone
  BY <1>6, MoveNone DEF DrainBegin, DrainEnd, ShutdownBegin, Destroy, HostGone
<1> QED
  BY <1>1, <1>2, <1>3, <1>4, <1>5, <1>6 DEF MainThread, OneShot!Next

(* Every cross-thread call runs once or never, and only a host that is     *)
(* shutting down gives one up.                                             *)
THEOREM ImplementsOneShot == Spec => RunsOnceOrNever
<1>1. IInv /\ [Next]_vars => [OneShot!Next]_<<CallStatus, isShutDown>>
  <2> SUFFICES ASSUME IInv, [Next]_vars
               PROVE  [OneShot!Next]_<<CallStatus, isShutDown>>
    OBVIOUS
  <2>1. CASE UNCHANGED vars
    BY <2>1 DEF vars, manager, effects, main, CallStatus, StatusOf, Pending
  <2>2. CASE Next
    BY <2>2, WorkerRefines, MainRefines DEF Next
  <2> QED
    BY <2>1, <2>2
<1> QED
  BY <1>1, InitRefines, InvariantHolds, PTL DEF Spec, RunsOnceOrNever, OneShot!Spec

=============================================================================
