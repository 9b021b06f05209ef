-------------------------- MODULE WatermarkProofs --------------------------
(***************************************************************************)
(* For any plugins, tokens, limits, period and delay within the limit: a   *)
(* plugin works only when its mark was in view, or a guess of the page's   *)
(* right in time, and stops only when it was not in view for a round and a *)
(* delay.  The first rests on what a validation has seen and on the count  *)
(* of the tries, the second on how far the rounds may be behind.           *)
(***************************************************************************)
EXTENDS Watermark, TLAPS

LEMMA InitKeeps == Init => IInv
<1> SUFFICES ASSUME Init PROVE IInv
  OBVIOUS
<1> USE WatermarkAssumption DEF Init
<1>1. TypeOK
  BY DEF TypeOK
<1>2. /\ ValidatedMeansSeen /\ GuessesAreTries /\ RoundsKeepUp /\ CountsOnlyInView
      /\ OnlyOpenOnesAct
  BY DEF ValidatedMeansSeen, GuessesAreTries, RoundsKeepUp, CountsOnlyInView, OnlyOpenOnesAct
<1> QED BY <1>1, <1>2 DEF IInv

\* A count of seconds keeps its bound and its order with another.
LEMMA OlderCounts ==
  ASSUME NEW m \in 0..Limit + 1, NEW n \in 0..Limit + 1
  PROVE  /\ Older(n) \in 0..Limit + 1 /\ Older(n) <= n + 1
         /\ m <= n => Older(m) <= Older(n)
BY WatermarkAssumption DEF Older

\* At most one plugin is the first.
LEMMA FirstIsOne ==
  ASSUME NEW p \in Plugins, NEW q \in Plugins, First(p), First(q)
  PROVE  p = q
BY WatermarkAssumption DEF First

-----------------------------------------------------------------------------
\* What Watch leaves of the counts.
LEMMA WatchKeeps ==
  ASSUME TypeOK, Watch
  PROVE  /\ inView' \in [Plugins -> 0..Limit + 1]
         /\ \A p \in Plugins : inView'[p] <= inView[p]
         /\ CountsOnlyInView'
<1> USE WatermarkAssumption
<1>1. \A p \in Plugins : inView[p] \in 0..Limit + 1
  BY DEF TypeOK
<1>2. \A p \in Plugins : inView'[p] = IF FirstInView(p)' THEN inView[p] ELSE 0
  BY Zenon DEF Watch
<1>3. inView' \in [Plugins -> 0..Limit + 1]
  <2>1. inView' = [p \in Plugins |-> inView'[p]]
    BY Zenon DEF Watch
  <2>2. \A p \in Plugins : inView'[p] \in 0..Limit + 1
    BY <1>1, <1>2
  <2> QED BY <2>1, <2>2
<1>4. \A p \in Plugins : inView'[p] <= inView[p]
  BY <1>1, <1>2
<1>5. CountsOnlyInView'
  BY <1>2, Zenon DEF CountsOnlyInView
<1> QED BY <1>3, <1>4, <1>5

\* What a round of p does to the members of the plugins.
LEMMA VerifyKeeps ==
  ASSUME TypeOK, NEW p \in Plugins, token' \in [Plugins -> Tokens],
         Verify(token'[p], TriesReset(p))
  PROVE  /\ tries' \in [Plugins -> 0..MaxAttempts]
         /\ \A q \in Plugins : q # p => tries[q] <= tries'[q]
         /\ ok' \in [Plugins -> BOOLEAN]
         /\ age' \in [Plugins -> 0..Limit + 1]
         /\ \A q \in Plugins : age'[q] = age[q] \/ (age'[q] = 0 /\ mark[q] = "shown")
         /\ FirstInView(p) => age'[p] = 0
<1> USE WatermarkAssumption
<1> DEFINE count == TriesReset(p)
<1>1. /\ count \in [Plugins -> 0..MaxAttempts] /\ count[p] = 0
      /\ \A q \in Plugins : q # p => count[q] = tries[q]
  BY DEF TypeOK, TriesReset
<1>2. PICK q \in Plugins :
        /\ First(q)
        /\ \/ Seen(q) /\ Validate(q, token'[p], count)
           \/ ~Seen(q) /\ mark[q] # "none" /\ Invalidate(q) /\ tries' = count
           \/ ~Seen(q) /\ ScriptFails /\ tries' = count
  BY Zenon DEF Verify
<1> HIDE DEF count
<1>3. CASE Seen(q) /\ Validate(q, token'[p], count)
  <2>1. CASE count[q] >= MaxAttempts
    <3>1. ok' = [ok EXCEPT ![q] = FALSE] /\ tries' = count /\ age' = age
      BY <1>1, <1>3, <2>1 DEF Validate
    <3>2. ~FirstInView(p)
      BY <1>1, <1>2, <2>1, FirstIsOne DEF FirstInView
    <3>3. ok' \in [Plugins -> BOOLEAN]
      BY <3>1 DEF TypeOK
    <3>4. age' \in [Plugins -> 0..Limit + 1] /\ \A r \in Plugins : age'[r] = age[r]
      BY <3>1 DEF TypeOK
    <3>5. \A r \in Plugins : r # p => tries[r] <= tries'[r]
      BY <1>1, <3>1
    <3> QED BY <1>1, <3>1, <3>2, <3>3, <3>4, <3>5
  <2>2. CASE count[q] < MaxAttempts
    <3>1. /\ tries' = [count EXCEPT ![q] = @ + 1] /\ ok' = ok
          /\ age' = IF token'[p] = token'[q] THEN [age EXCEPT ![q] = 0] ELSE age
      BY <1>1, <1>3, <2>2 DEF Validate
    <3>2. tries' \in [Plugins -> 0..MaxAttempts]
      BY <1>1, <2>2, <3>1
    <3>3. mark[q] = "shown"
      BY <1>3 DEF Seen
    <3>4. FirstInView(p) => p = q
      BY <1>2, FirstIsOne DEF FirstInView
    <3>5. age' \in [Plugins -> 0..Limit + 1]
      BY <3>1 DEF TypeOK
    <3>6. \A r \in Plugins : age'[r] = age[r] \/ (age'[r] = 0 /\ mark[r] = "shown")
      BY <3>1, <3>3 DEF TypeOK
    <3>7. FirstInView(p) => age'[p] = 0
      BY <3>1, <3>4 DEF TypeOK
    <3>8. ok' \in [Plugins -> BOOLEAN]
      BY <3>1 DEF TypeOK
    <3>9. \A r \in Plugins : r # p => tries[r] <= tries'[r]
      BY <1>1, <3>1
    <3> QED BY <3>2, <3>5, <3>6, <3>7, <3>8, <3>9
  <2> QED BY <1>1, <2>1, <2>2
<1>4. CASE ~Seen(q) /\ tries' = count /\ (Invalidate(q) \/ ScriptFails)
  <2>1. age' = age /\ ok' \in [Plugins -> BOOLEAN]
    BY <1>4 DEF Invalidate, ScriptFails, TypeOK
  <2>2. ~FirstInView(p)
    BY <1>2, <1>4, FirstIsOne DEF FirstInView, Seen
  <2>3. age' \in [Plugins -> 0..Limit + 1] /\ \A r \in Plugins : age'[r] = age[r]
    BY <2>1 DEF TypeOK
  <2>4. \A r \in Plugins : r # p => tries[r] <= tries'[r]
    BY <1>1, <1>4
  <2> QED BY <1>1, <1>4, <2>1, <2>2, <2>3, <2>4
<1> QED BY <1>2, <1>3, <1>4

-----------------------------------------------------------------------------
LEMMA TestKeeps ==
  ASSUME IInv, NEW p \in Plugins, Test(p)
  PROVE  IInv'
<1> USE WatermarkAssumption DEF IInv
<1>1. PICK d \in posted[p] : posted' = [posted EXCEPT ![p] = @ \ {d}]
  BY Zenon DEF Test
<1>2. token' \in [Plugins -> Tokens]
  BY DEF Test, TypeOK
<1>3. Verify(token'[p], TriesReset(p))
  BY Zenon DEF Test
<1>4. /\ guesses' = [guesses EXCEPT ![p] = 0]
      /\ UNCHANGED <<state, mark, since, unproved, inView>>
  BY DEF Test
<1>5. /\ tries' \in [Plugins -> 0..MaxAttempts]
      /\ \A q \in Plugins : q # p => tries[q] <= tries'[q]
      /\ ok' \in [Plugins -> BOOLEAN]
      /\ age' \in [Plugins -> 0..Limit + 1]
      /\ \A q \in Plugins : age'[q] = age[q] \/ (age'[q] = 0 /\ mark[q] = "shown")
      /\ FirstInView(p) => age'[p] = 0
  BY <1>2, <1>3, VerifyKeeps
<1>6. posted' \in [Plugins -> SUBSET (0..MaxDelay)]
  BY <1>1 DEF TypeOK
<1>7. TypeOK'
  <2>1. guesses' \in [Plugins -> 0..MaxAttempts]
    BY <1>4 DEF TypeOK
  <2>2. /\ state' \in [Plugins -> {"new", "open", "gone"}]
        /\ mark' \in [Plugins -> {"none", "hidden", "shown"}]
        /\ since' \in [Plugins -> 0..Period] /\ unproved' \in [Plugins -> 0..Limit + 1]
        /\ inView' \in [Plugins -> 0..Limit + 1]
    BY <1>4 DEF TypeOK
  <2> QED BY <1>2, <1>5, <1>6, <2>1, <2>2 DEF TypeOK
<1>8. ValidatedMeansSeen'
  <2> SUFFICES ASSUME NEW q \in Plugins
               PROVE  /\ unproved[q] <= age'[q]
                      /\ mark[q] = "shown" => unproved[q] = 0
    BY <1>4 DEF ValidatedMeansSeen
  <2>1. unproved[q] <= age[q] /\ (mark[q] = "shown" => unproved[q] = 0)
    BY DEF ValidatedMeansSeen
  <2>2. age'[q] = age[q] \/ (age'[q] = 0 /\ mark[q] = "shown")
    BY <1>5
  <2> QED BY <2>1, <2>2
<1>9. RoundsKeepUp'
  <2> SUFFICES ASSUME NEW q \in Plugins, state[q] = "open"
               PROVE  \/ posted'[q] = {} /\ (age'[q] <= since[q] \/ inView[q] <= since[q])
                      \/ \E e \in posted'[q] : age'[q] <= Period + e \/ inView[q] <= Period + e
    BY <1>4 DEF RoundsKeepUp
  <2>1. /\ age[q] \in 0..Limit + 1 /\ age'[q] \in 0..Limit + 1
        /\ since[q] \in 0..Period /\ inView[q] \in 0..Limit + 1
        /\ posted'[q] \in SUBSET (0..MaxDelay)
    BY <1>5, <1>6 DEF TypeOK
  <2>2. age'[q] <= age[q]
    <3>1. age'[q] = age[q] \/ age'[q] = 0
      BY <1>5
    <3> QED BY <2>1, <3>1
  <2>3. CASE q = p
    <3>1. age'[p] = 0 \/ inView[p] = 0
      BY <1>5 DEF CountsOnlyInView
    <3> QED BY <2>1, <2>3, <3>1
  <2>4. CASE q # p
    <3>1. posted'[q] = posted[q]
      BY <1>1, <2>4 DEF TypeOK
    <3>2. \A n \in Nat : age[q] <= n => age'[q] <= n
      BY <2>1, <2>2
    <3>3. since[q] \in Nat /\ \A e \in posted[q] : Period + e \in Nat
      BY <2>1, <3>1
    <3>4. \/ posted[q] = {} /\ (age[q] <= since[q] \/ inView[q] <= since[q])
          \/ \E e \in posted[q] : age[q] <= Period + e \/ inView[q] <= Period + e
      BY DEF RoundsKeepUp
    <3> QED BY <3>1, <3>2, <3>3, <3>4
  <2> QED BY <2>3, <2>4
<1>10. CountsOnlyInView'
  BY <1>4 DEF CountsOnlyInView, FirstInView, First
<1>11. OnlyOpenOnesAct'
  BY <1>1, <1>4, <1>5 DEF OnlyOpenOnesAct, TypeOK
<1>12. GuessesAreTries'
  <2> SUFFICES ASSUME NEW q \in Plugins PROVE guesses'[q] <= tries'[q]
    BY DEF GuessesAreTries
  <2>1. /\ guesses[q] \in 0..MaxAttempts /\ tries[q] \in 0..MaxAttempts
        /\ tries'[q] \in 0..MaxAttempts /\ guesses[q] <= tries[q]
    BY <1>5 DEF TypeOK, GuessesAreTries
  <2>2. guesses'[q] = IF q = p THEN 0 ELSE guesses[q]
    BY <1>4 DEF TypeOK
  <2> QED BY <1>5, <2>1, <2>2
<1> QED BY <1>7, <1>8, <1>9, <1>10, <1>11, <1>12

LEMMA TimerFiresKeeps ==
  ASSUME IInv, NEW p \in Plugins, TimerFires(p)
  PROVE  IInv'
<1> USE WatermarkAssumption DEF IInv, TimerFires, memberVars
<1>1. TypeOK'
  BY DEF TypeOK
<1>2. RoundsKeepUp'
  <2> SUFFICES ASSUME NEW q \in Plugins, state[q] = "open"
               PROVE  \/ posted'[q] = {} /\ (age[q] <= since'[q] \/ inView[q] <= since'[q])
                      \/ \E e \in posted'[q] : age[q] <= Period + e \/ inView[q] <= Period + e
    BY DEF RoundsKeepUp
  <2>1. CASE q = p
    <3>1. posted'[p] = posted[p] \cup {0} /\ since[p] = Period
      BY DEF TypeOK
    <3>2. CASE posted[p] = {}
      <4>1. age[p] <= Period + 0 \/ inView[p] <= Period + 0
        BY <2>1, <3>1, <3>2 DEF RoundsKeepUp
      <4> QED BY <2>1, <3>1, <4>1
    <3>3. CASE posted[p] # {}
      BY <2>1, <3>1, <3>3 DEF RoundsKeepUp
    <3> QED BY <3>2, <3>3
  <2>2. CASE q # p
    BY <2>2 DEF RoundsKeepUp, TypeOK
  <2> QED BY <2>1, <2>2
<1>3. ValidatedMeansSeen' /\ CountsOnlyInView'
  BY DEF ValidatedMeansSeen, CountsOnlyInView, FirstInView, First
<1>4. OnlyOpenOnesAct'
  BY DEF OnlyOpenOnesAct, TypeOK
<1>5. GuessesAreTries'
  BY DEF GuessesAreTries
<1> QED BY <1>1, <1>2, <1>3, <1>4, <1>5

\* A round and a delay is as far as a plugin in view is ever behind.
LEMMA BehindBounded ==
  ASSUME IInv, NEW p \in Plugins, state[p] = "open"
  PROVE  age[p] <= Period + MaxDelay \/ inView[p] <= Period + MaxDelay
<1> USE WatermarkAssumption DEF IInv
<1>1. /\ age[p] \in 0..Limit + 1 /\ inView[p] \in 0..Limit + 1
      /\ since[p] \in 0..Period /\ \A d \in posted[p] : d \in 0..MaxDelay
  BY DEF TypeOK
<1> QED BY <1>1 DEF RoundsKeepUp

LEMMA IsOkKeeps ==
  ASSUME IInv, NEW p \in Plugins, IsOk(p)
  PROVE  IInv'
<1> USE WatermarkAssumption DEF IInv
<1>1. /\ ok' = [ok EXCEPT ![p] = ~Expired(p)]
      /\ UNCHANGED <<state, mark, token, tries, age, since, posted, guesses, unproved, inView>>
  BY DEF IsOk, timerVars
<1>2. Expired(p) \in BOOLEAN
  BY DEF Expired
<1>3. TypeOK'
  BY <1>1, <1>2 DEF TypeOK
<1>4. /\ ValidatedMeansSeen' /\ GuessesAreTries' /\ RoundsKeepUp' /\ CountsOnlyInView'
      /\ OnlyOpenOnesAct'
  BY <1>1 DEF ValidatedMeansSeen, GuessesAreTries, RoundsKeepUp, CountsOnlyInView,
              FirstInView, First, OnlyOpenOnesAct
<1> QED BY <1>3, <1>4

-----------------------------------------------------------------------------
(* The page's calls of validate and invalidate.                            *)

LEMMA PageInvalidatesKeeps ==
  ASSUME IInv, NEW p \in Plugins, PageInvalidates(p)
  PROVE  IInv'
<1> USE DEF IInv
<1>1. /\ ok' = [ok EXCEPT ![p] = FALSE]
      /\ UNCHANGED <<state, mark, token, tries, age, since, posted, guesses, unproved, inView>>
  BY DEF PageInvalidates, Invalidate, timerVars
<1>2. TypeOK'
  BY <1>1 DEF TypeOK
<1>3. /\ ValidatedMeansSeen' /\ GuessesAreTries' /\ RoundsKeepUp' /\ CountsOnlyInView'
      /\ OnlyOpenOnesAct'
  BY <1>1 DEF ValidatedMeansSeen, GuessesAreTries, RoundsKeepUp, CountsOnlyInView,
              FirstInView, First, OnlyOpenOnesAct
<1> QED BY <1>2, <1>3

\* A guess that is taken is right only within the tries, and then it is one of
\* the first: the page's calls are among the tries.
LEMMA GuessKeeps ==
  ASSUME IInv, NEW p \in Plugins, PageValidates(p)
  PROVE  /\ tries' \in [Plugins -> 0..MaxAttempts] /\ guesses' \in [Plugins -> 0..MaxAttempts]
         /\ age' \in [Plugins -> 0..Limit + 1] /\ unproved' \in [Plugins -> 0..Limit + 1]
         /\ ok' \in [Plugins -> BOOLEAN]
         /\ \A q \in Plugins : guesses'[q] <= tries'[q]
         /\ \A q \in Plugins : unproved'[q] = unproved[q] \/ unproved'[q] = 0
         /\ \A q \in Plugins : \/ age'[q] = age[q]
                               \/ age'[q] = 0 /\ unproved'[q] = 0
<1> USE WatermarkAssumption DEF IInv
<1>1. PICK key \in Tokens :
        /\ Validate(p, key, tries)
        /\ unproved' = IF key = token[p] /\ guesses[p] < MaxAttempts
                         THEN [unproved EXCEPT ![p] = 0] ELSE unproved
  BY DEF PageValidates
<1>2. /\ guesses' = [guesses EXCEPT ![p] = IF @ < MaxAttempts THEN @ + 1 ELSE @]
      /\ token' = token
  BY DEF PageValidates
<1>3. /\ guesses \in [Plugins -> 0..MaxAttempts] /\ tries \in [Plugins -> 0..MaxAttempts]
      /\ age \in [Plugins -> 0..Limit + 1] /\ unproved \in [Plugins -> 0..Limit + 1]
      /\ ok \in [Plugins -> BOOLEAN] /\ \A q \in Plugins : guesses[q] <= tries[q]
  BY DEF TypeOK, GuessesAreTries
<1>4. guesses' \in [Plugins -> 0..MaxAttempts]
  BY <1>2, <1>3
<1>5. /\ unproved' \in [Plugins -> 0..Limit + 1]
      /\ \A q \in Plugins : unproved'[q] = unproved[q] \/ unproved'[q] = 0
  BY <1>1, <1>3
<1>6. CASE tries[p] >= MaxAttempts
  <2>1. ok' = [ok EXCEPT ![p] = FALSE] /\ tries' = tries /\ age' = age
    BY <1>1, <1>3, <1>6 DEF Validate
  <2>2. \A q \in Plugins : guesses'[q] <= tries'[q]
    BY <1>2, <1>3, <1>6, <2>1
  <2>3. ok' \in [Plugins -> BOOLEAN]
    BY <1>3, <2>1
  <2> QED BY <1>3, <1>4, <1>5, <2>1, <2>2, <2>3
<1>7. CASE tries[p] < MaxAttempts
  <2>1. /\ tries' = [tries EXCEPT ![p] = @ + 1] /\ ok' = ok
        /\ age' = IF key = token[p] THEN [age EXCEPT ![p] = 0] ELSE age
    BY <1>1, <1>2, <1>3, <1>7 DEF Validate
  <2>2. tries' \in [Plugins -> 0..MaxAttempts]
    BY <1>3, <1>7, <2>1
  <2>3. \A q \in Plugins : guesses'[q] <= tries'[q]
    <3> SUFFICES ASSUME NEW q \in Plugins PROVE guesses'[q] <= tries'[q]
      OBVIOUS
    <3>1. /\ guesses[q] \in 0..MaxAttempts /\ tries[q] \in 0..MaxAttempts
          /\ guesses[q] <= tries[q]
      BY <1>3
    <3>2. guesses'[q] <= IF q = p THEN guesses[q] + 1 ELSE guesses[q]
      BY <1>2, <1>3
    <3>3. tries'[q] = IF q = p THEN tries[q] + 1 ELSE tries[q]
      BY <1>3, <2>1
    <3>4. guesses'[q] \in Nat
      BY <1>4
    <3> QED BY <3>1, <3>2, <3>3, <3>4
  <2>4. guesses[p] < MaxAttempts
    BY <1>3, <1>7
  <2>5. CASE key = token[p]
    <3>1. age' = [age EXCEPT ![p] = 0] /\ unproved' = [unproved EXCEPT ![p] = 0]
      BY <1>1, <2>1, <2>4, <2>5
    <3>2. age' \in [Plugins -> 0..Limit + 1]
      BY <1>3, <3>1
    <3>3. \A q \in Plugins : age'[q] = age[q] \/ (age'[q] = 0 /\ unproved'[q] = 0)
      BY <1>3, <3>1
    <3> QED BY <1>3, <1>4, <1>5, <2>1, <2>2, <2>3, <3>2, <3>3
  <2>6. CASE key # token[p]
    BY <1>3, <1>4, <1>5, <2>1, <2>2, <2>3, <2>6
  <2> QED BY <2>5, <2>6
<1> QED BY <1>3, <1>6, <1>7

LEMMA PageValidatesKeeps ==
  ASSUME IInv, NEW p \in Plugins, PageValidates(p)
  PROVE  IInv'
<1> USE WatermarkAssumption DEF IInv
<1>1. UNCHANGED <<state, mark, token, since, posted, inView>>
  BY DEF PageValidates, timerVars
<1>2. /\ tries' \in [Plugins -> 0..MaxAttempts] /\ guesses' \in [Plugins -> 0..MaxAttempts]
      /\ age' \in [Plugins -> 0..Limit + 1] /\ unproved' \in [Plugins -> 0..Limit + 1]
      /\ ok' \in [Plugins -> BOOLEAN]
      /\ \A q \in Plugins : guesses'[q] <= tries'[q]
      /\ \A q \in Plugins : unproved'[q] = unproved[q] \/ unproved'[q] = 0
      /\ \A q \in Plugins : age'[q] = age[q] \/ (age'[q] = 0 /\ unproved'[q] = 0)
  BY GuessKeeps
<1>3. TypeOK'
  BY <1>1, <1>2 DEF TypeOK
<1>4. GuessesAreTries'
  BY <1>2 DEF GuessesAreTries
<1>5. /\ \A q \in Plugins : age[q] \in 0..Limit + 1 /\ age'[q] \in 0..Limit + 1
      /\ \A q \in Plugins : unproved[q] \in 0..Limit + 1 /\ unproved'[q] \in 0..Limit + 1
  BY <1>2 DEF TypeOK
<1>6. ValidatedMeansSeen'
  <2> SUFFICES ASSUME NEW q \in Plugins
               PROVE  /\ unproved'[q] <= age'[q]
                      /\ mark[q] = "shown" => unproved'[q] = 0
    BY <1>1 DEF ValidatedMeansSeen
  <2>1. unproved[q] <= age[q] /\ (mark[q] = "shown" => unproved[q] = 0)
    BY DEF ValidatedMeansSeen
  <2> QED BY <1>2, <1>5, <2>1
<1>7. RoundsKeepUp'
  <2> SUFFICES ASSUME NEW q \in Plugins, state[q] = "open"
               PROVE  \/ posted[q] = {} /\ (age'[q] <= since[q] \/ inView[q] <= since[q])
                      \/ \E d \in posted[q] : age'[q] <= Period + d \/ inView[q] <= Period + d
    BY <1>1 DEF RoundsKeepUp
  <2>1. \A n \in Nat : age[q] <= n => age'[q] <= n
    BY <1>2, <1>5
  <2>2. since[q] \in Nat /\ \A d \in posted[q] : Period + d \in Nat
    BY DEF TypeOK
  <2>3. \/ posted[q] = {} /\ (age[q] <= since[q] \/ inView[q] <= since[q])
        \/ \E d \in posted[q] : age[q] <= Period + d \/ inView[q] <= Period + d
    BY DEF RoundsKeepUp
  <2> QED BY <2>1, <2>2, <2>3
<1>8. CountsOnlyInView'
  BY <1>1 DEF CountsOnlyInView, FirstInView, First
<1>9. OnlyOpenOnesAct'
  BY <1>1, <1>2 DEF OnlyOpenOnesAct
<1> QED BY <1>3, <1>4, <1>6, <1>7, <1>8, <1>9

-----------------------------------------------------------------------------
\* What the page does: the counts start again or go on, the rest stands.
LEMMA PageKeeps ==
  ASSUME IInv, Watch,
         state' \in [Plugins -> {"new", "open", "gone"}],
         mark' \in [Plugins -> {"none", "hidden", "shown"}],
         token' \in [Plugins -> Tokens], ok' \in [Plugins -> BOOLEAN],
         posted' \in [Plugins -> SUBSET (0..MaxDelay)],
         unproved' \in [Plugins -> 0..Limit + 1],
         UNCHANGED <<tries, age, since, guesses>>,
         \A q \in Plugins : unproved'[q] <= unproved[q],
         \A q \in Plugins : mark'[q] = "shown" => unproved'[q] = 0,
         \A q \in Plugins : state'[q] = "open" => posted'[q] = posted[q],
         \A q \in Plugins : state'[q] # "open" => posted'[q] = {},
         \A q \in Plugins : state'[q] = "open" => state[q] \in {"new", "open"},
         \A q \in Plugins : state'[q] = "new" => state[q] = "new"
  PROVE  IInv'
<1> USE WatermarkAssumption DEF IInv
<1>1. /\ inView' \in [Plugins -> 0..Limit + 1]
      /\ \A q \in Plugins : inView'[q] <= inView[q]
      /\ CountsOnlyInView'
  BY WatchKeeps
<1>2. TypeOK'
  BY <1>1 DEF TypeOK
<1>3. \A q \in Plugins : /\ inView[q] \in 0..Limit + 1 /\ inView'[q] \in 0..Limit + 1
                         /\ unproved[q] \in 0..Limit + 1 /\ unproved'[q] \in 0..Limit + 1
                         /\ age[q] \in 0..Limit + 1 /\ since[q] \in 0..Period
                         /\ \A d \in posted[q] : d \in 0..MaxDelay
  BY <1>1 DEF TypeOK
<1>4. ValidatedMeansSeen'
  <2> SUFFICES ASSUME NEW q \in Plugins
               PROVE  unproved'[q] <= age[q] /\ (mark'[q] = "shown" => unproved'[q] = 0)
    BY DEF ValidatedMeansSeen
  <2>1. unproved[q] <= age[q] /\ unproved'[q] <= unproved[q]
    BY DEF ValidatedMeansSeen
  <2>2. /\ unproved[q] \in Nat /\ unproved'[q] \in Nat /\ age[q] \in Nat
        /\ (mark'[q] = "shown" => unproved'[q] = 0)
    BY <1>3
  <2>3. unproved'[q] <= age[q]
    BY <2>1, <2>2
  <2> QED BY <2>2, <2>3
<1>5. RoundsKeepUp'
  <2> SUFFICES ASSUME NEW q \in Plugins, state'[q] = "open"
               PROVE  \/ posted[q] = {} /\ (age[q] <= since[q] \/ inView'[q] <= since[q])
                      \/ \E d \in posted[q] : age[q] <= Period + d \/ inView'[q] <= Period + d
    BY DEF RoundsKeepUp
  <2>1. CASE state[q] = "new"
    BY <1>3, <2>1 DEF OnlyOpenOnesAct
  <2>2. CASE state[q] = "open"
    BY <1>1, <1>3, <2>2 DEF RoundsKeepUp
  <2> QED BY <2>1, <2>2
<1>6. OnlyOpenOnesAct'
  BY DEF OnlyOpenOnesAct
<1>7. GuessesAreTries'
  BY DEF GuessesAreTries
<1> QED BY <1>1, <1>2, <1>4, <1>5, <1>6, <1>7

LEMMA CreateKeeps ==
  ASSUME IInv, NEW p \in Plugins, Create(p)
  PROVE  IInv'
<1> USE DEF IInv
<1>1. /\ state[p] = "new" /\ state' = [state EXCEPT ![p] = "open"] /\ Watch
      /\ UNCHANGED <<tries, age, since, posted, guesses, unproved>>
  BY DEF Create, timerVars
<1>2. token' \in [Plugins -> Tokens]
  BY DEF Create, TypeOK
<1>3. /\ mark' \in [Plugins -> {"none", "hidden", "shown"}]
      /\ ok' \in [Plugins -> BOOLEAN]
      /\ \A q \in Plugins : mark'[q] = "shown" => mark[q] = "shown" \/ q = p
  <2>1. CASE /\ mark' = [q \in Plugins |-> IF q = p THEN "shown"
                                          ELSE IF mark[q] = "shown" THEN "hidden"
                                          ELSE mark[q]]
             /\ ok' = ok
    BY <2>1 DEF TypeOK
  <2>2. ASSUME NEW m \in {"none", "hidden"}, mark' = [mark EXCEPT ![p] = m],
               ok' = [ok EXCEPT ![p] = FALSE]
        PROVE  /\ mark' \in [Plugins -> {"none", "hidden", "shown"}]
               /\ ok' \in [Plugins -> BOOLEAN]
               /\ \A q \in Plugins : mark'[q] = "shown" => mark[q] = "shown" \/ q = p
    BY <2>2 DEF TypeOK
  <2> QED BY <2>1, <2>2 DEF Create
<1>4. unproved[p] = 0
  BY <1>1, WatermarkAssumption DEF ValidatedMeansSeen, OnlyOpenOnesAct, TypeOK
<1>5. \A q \in Plugins : unproved'[q] <= unproved[q]
  BY <1>1, WatermarkAssumption DEF TypeOK
<1>6. \A q \in Plugins : mark'[q] = "shown" => unproved'[q] = 0
  BY <1>1, <1>3, <1>4 DEF ValidatedMeansSeen
<1>7. \A q \in Plugins : /\ state'[q] = "open" => state[q] \in {"new", "open"}
                         /\ state'[q] # "open" => posted'[q] = {}
                         /\ state'[q] = "new" => state[q] = "new"
  BY <1>1 DEF TypeOK, OnlyOpenOnesAct
<1>8. state' \in [Plugins -> {"new", "open", "gone"}]
  BY <1>1 DEF TypeOK
<1>9. unproved' \in [Plugins -> 0..Limit + 1] /\ posted' \in [Plugins -> SUBSET (0..MaxDelay)]
  BY <1>1 DEF TypeOK
<1> QED BY <1>1, <1>2, <1>3, <1>5, <1>6, <1>7, <1>8, <1>9, PageKeeps

LEMMA ShowKeeps ==
  ASSUME IInv, NEW p \in Plugins, Show(p)
  PROVE  IInv'
<1> USE DEF IInv, Show, memberVars, timerVars
<1>1. /\ mark' \in [Plugins -> {"none", "hidden", "shown"}]
      /\ unproved' \in [Plugins -> 0..Limit + 1]
      /\ \A q \in Plugins : unproved'[q] <= unproved[q]
  BY WatermarkAssumption DEF TypeOK
<1>2. \A q \in Plugins : mark'[q] = "shown" => unproved'[q] = 0
  BY DEF TypeOK, ValidatedMeansSeen
<1>3. \A q \in Plugins : state'[q] # "open" => posted'[q] = {}
  BY DEF OnlyOpenOnesAct
<1>4. /\ state' = state /\ token' = token /\ ok' = ok /\ posted' = posted /\ Watch
      /\ UNCHANGED <<tries, age, since, guesses>>
  OBVIOUS
<1> HIDE DEF Show
<1> QED BY <1>1, <1>2, <1>3, <1>4, PageKeeps DEF TypeOK

LEMMA HideKeeps ==
  ASSUME IInv, NEW p \in Plugins, Hide(p)
  PROVE  IInv'
<1> USE DEF IInv, Hide, memberVars, timerVars
<1>1. /\ mark' \in [Plugins -> {"none", "hidden", "shown"}]
      /\ \A q \in Plugins : unproved'[q] <= unproved[q]
  BY WatermarkAssumption DEF TypeOK
<1>2. \A q \in Plugins : mark'[q] = "shown" => unproved'[q] = 0
  BY DEF TypeOK, ValidatedMeansSeen
<1>3. \A q \in Plugins : state'[q] # "open" => posted'[q] = {}
  BY DEF OnlyOpenOnesAct
<1>4. /\ state' = state /\ token' = token /\ ok' = ok /\ posted' = posted /\ Watch
      /\ unproved' = unproved /\ UNCHANGED <<tries, age, since, guesses>>
  OBVIOUS
<1> HIDE DEF Hide
<1> QED BY <1>1, <1>2, <1>3, <1>4, PageKeeps DEF TypeOK

LEMMA RemoveKeeps ==
  ASSUME IInv, NEW p \in Plugins, Remove(p)
  PROVE  IInv'
<1> USE DEF IInv, Remove, memberVars
<1>1. /\ state' \in [Plugins -> {"new", "open", "gone"}]
      /\ posted' \in [Plugins -> SUBSET (0..MaxDelay)]
      /\ \A q \in Plugins : unproved'[q] <= unproved[q]
  BY WatermarkAssumption DEF TypeOK
<1>2. \A q \in Plugins : mark'[q] = "shown" => unproved'[q] = 0
  BY DEF ValidatedMeansSeen
<1>3. \A q \in Plugins : /\ state'[q] # "open" => posted'[q] = {}
                         /\ state'[q] = "open" => posted'[q] = posted[q]
                         /\ state'[q] = "open" => state[q] \in {"new", "open"}
                         /\ state'[q] = "new" => state[q] = "new"
  BY DEF OnlyOpenOnesAct, TypeOK
<1>4. /\ mark' = mark /\ token' = token /\ ok' = ok /\ Watch /\ unproved' = unproved
      /\ UNCHANGED <<tries, age, since, guesses>>
  OBVIOUS
<1> HIDE DEF Remove
<1> QED BY <1>1, <1>2, <1>3, <1>4, PageKeeps DEF TypeOK

-----------------------------------------------------------------------------
LEMMA TickKeeps ==
  ASSUME IInv, Tick
  PROVE  IInv'
<1> USE WatermarkAssumption DEF IInv
<1>1. /\ \A p \in Plugins : state[p] = "open" => since[p] < Period /\ MaxDelay \notin posted[p]
      /\ age' = [p \in Plugins |-> IF state[p] = "open" THEN Older(age[p]) ELSE age[p]]
      /\ since' = [p \in Plugins |-> IF state[p] = "open" THEN since[p] + 1 ELSE since[p]]
      /\ posted' = [p \in Plugins |-> {d + 1 : d \in posted[p]}]
      /\ unproved' = [p \in Plugins |-> IF state[p] = "open" /\ mark[p] # "shown"
                                        THEN Older(unproved[p]) ELSE unproved[p]]
      /\ inView' = [p \in Plugins |-> IF FirstInView(p) THEN Older(inView[p]) ELSE 0]
      /\ UNCHANGED <<state, mark, token, tries, ok, guesses>>
  BY DEF Tick
<1>2. \A p \in Plugins : /\ age[p] \in 0..Limit + 1 /\ unproved[p] \in 0..Limit + 1
                         /\ inView[p] \in 0..Limit + 1 /\ since[p] \in 0..Period
                         /\ posted[p] \in SUBSET (0..MaxDelay)
  BY DEF TypeOK
<1>3. \A p \in Plugins : /\ age'[p] \in 0..Limit + 1 /\ unproved'[p] \in 0..Limit + 1
                         /\ inView'[p] \in 0..Limit + 1 /\ since'[p] \in 0..Period
  <2> SUFFICES ASSUME NEW p \in Plugins
               PROVE  /\ age'[p] \in 0..Limit + 1 /\ unproved'[p] \in 0..Limit + 1
                      /\ inView'[p] \in 0..Limit + 1 /\ since'[p] \in 0..Period
    OBVIOUS
  <2>1. /\ Older(age[p]) \in 0..Limit + 1 /\ Older(unproved[p]) \in 0..Limit + 1
        /\ Older(inView[p]) \in 0..Limit + 1
    BY <1>2, OlderCounts
  <2> QED BY <1>1, <1>2, <2>1
<1>4. \A p \in Plugins : posted'[p] \in SUBSET (0..MaxDelay)
  <2> SUFFICES ASSUME NEW p \in Plugins, NEW d \in posted[p]
               PROVE  d + 1 \in 0..MaxDelay
    BY <1>1
  <2>1. state[p] = "open"
    BY DEF OnlyOpenOnesAct
  <2>2. d \in 0..MaxDelay /\ d # MaxDelay
    BY <1>1, <1>2, <2>1
  <2> QED BY <2>2
<1>5. TypeOK'
  <2>1. /\ age' \in [Plugins -> 0..Limit + 1] /\ unproved' \in [Plugins -> 0..Limit + 1]
        /\ inView' \in [Plugins -> 0..Limit + 1] /\ since' \in [Plugins -> 0..Period]
    BY <1>1, <1>3
  <2>2. posted' \in [Plugins -> SUBSET (0..MaxDelay)]
    BY <1>1, <1>4
  <2> QED BY <1>1, <2>1, <2>2 DEF TypeOK
<1>6. ValidatedMeansSeen'
  <2> SUFFICES ASSUME NEW p \in Plugins
               PROVE  /\ unproved'[p] <= age'[p]
                      /\ mark[p] = "shown" => unproved'[p] = 0
    BY <1>1 DEF ValidatedMeansSeen
  <2>1. unproved[p] <= age[p] /\ (mark[p] = "shown" => unproved[p] = 0)
    BY DEF ValidatedMeansSeen
  <2>2. Older(unproved[p]) <= Older(age[p]) /\ Older(age[p]) \in 0..Limit + 1
    BY <1>2, <2>1, OlderCounts
  <2> QED BY <1>1, <1>2, <2>1, <2>2
<1>7. RoundsKeepUp'
  <2> SUFFICES ASSUME NEW p \in Plugins, state[p] = "open"
               PROVE  \/ posted'[p] = {} /\ (age'[p] <= since'[p] \/ inView'[p] <= since'[p])
                      \/ \E d \in posted'[p] : age'[p] <= Period + d \/ inView'[p] <= Period + d
    BY <1>1 DEF RoundsKeepUp
  <2>1. /\ Older(age[p]) \in Nat /\ Older(age[p]) <= age[p] + 1
        /\ Older(inView[p]) \in Nat /\ Older(inView[p]) <= inView[p] + 1
    <3>1. age[p] \in 0..Limit + 1 /\ inView[p] \in 0..Limit + 1
      BY <1>2
    <3>2. /\ Older(age[p]) \in 0..Limit + 1 /\ Older(age[p]) <= age[p] + 1
          /\ Older(inView[p]) \in 0..Limit + 1 /\ Older(inView[p]) <= inView[p] + 1
      BY <3>1, OlderCounts
    <3> QED BY <3>2
  <2>2. /\ age'[p] = Older(age[p]) /\ since'[p] = since[p] + 1
        /\ inView'[p] = Older(inView[p]) \/ inView'[p] = 0
    BY <1>1
  <2>3. age'[p] <= age[p] + 1 /\ inView'[p] <= inView[p] + 1
    <3>1. age'[p] <= age[p] + 1
      BY <2>1, <2>2
    <3>2. 0 <= inView[p] + 1
      BY <1>2
    <3>3. inView'[p] <= inView[p] + 1
      BY <2>1, <2>2, <3>2
    <3> QED BY <3>1, <3>3
  <2>4. CASE posted[p] = {}
    <3>1. posted'[p] = {}
      BY <1>1, <2>4
    <3>2. age[p] <= since[p] \/ inView[p] <= since[p]
      BY <2>4 DEF RoundsKeepUp
    <3>3. /\ age[p] \in Nat /\ inView[p] \in Nat /\ since[p] \in Nat
          /\ age'[p] \in Nat /\ inView'[p] \in Nat
      BY <1>2, <1>3
    <3>4. since'[p] = since[p] + 1
      BY <2>2
    <3>5. age'[p] <= since'[p] \/ inView'[p] <= since'[p]
      BY <2>3, <3>2, <3>3, <3>4
    <3> QED BY <3>1, <3>5
  <2>5. CASE posted[p] # {}
    <3>1. PICK d \in posted[p] : age[p] <= Period + d \/ inView[p] <= Period + d
      BY <2>5 DEF RoundsKeepUp
    <3>2. d + 1 \in posted'[p] /\ d \in 0..MaxDelay
      BY <1>1, <1>2
    <3>3. age'[p] <= Period + (d + 1) \/ inView'[p] <= Period + (d + 1)
      <4> HIDE DEF IInv
      <4>1. /\ age[p] \in Nat /\ inView[p] \in Nat /\ d \in Nat
            /\ age'[p] \in Nat /\ inView'[p] \in Nat /\ Period \in Nat
        BY <1>2, <1>3, <3>2, WatermarkAssumption
      <4>2. CASE age[p] <= Period + d
        <5>1. age'[p] <= Period + (d + 1)
          BY <2>3, <4>1, <4>2
        <5> QED BY <5>1
      <4>3. CASE inView[p] <= Period + d
        <5>1. inView'[p] <= Period + (d + 1)
          BY <2>3, <4>1, <4>3
        <5> QED BY <5>1
      <4> QED BY <3>1, <4>2, <4>3
    <3> QED BY <3>2, <3>3
  <2> QED BY <2>4, <2>5
<1>8. CountsOnlyInView'
  BY <1>1 DEF CountsOnlyInView, FirstInView, First
<1>9. OnlyOpenOnesAct'
  BY <1>1 DEF OnlyOpenOnesAct
<1>10. GuessesAreTries'
  BY <1>1 DEF GuessesAreTries
<1> QED BY <1>5, <1>6, <1>7, <1>8, <1>9, <1>10

-----------------------------------------------------------------------------
\* The inductive invariant, with the type invariant: the last validation saw
\* the mark, and the rounds keep up (Watermark::Test, Validate, the timer).
THEOREM InvariantHolds == Spec => []IInv
<1>1. IInv /\ [Next]_vars => IInv'
  <2> SUFFICES ASSUME IInv, [Next]_vars PROVE IInv'
    OBVIOUS
  <2>1. CASE Tick
    BY <2>1, TickKeeps
  <2>2. ASSUME NEW p \in Plugins, PluginNext(p) PROVE IInv'
    <3>1. CASE Create(p)
      BY <3>1, CreateKeeps
    <3>2. CASE TimerFires(p)
      BY <3>2, TimerFiresKeeps
    <3>3. CASE Test(p)
      BY <3>3, TestKeeps
    <3>4. CASE IsOk(p)
      BY <3>4, IsOkKeeps
    <3>5. CASE Show(p)
      BY <3>5, ShowKeeps
    <3>6. CASE Hide(p)
      BY <3>6, HideKeeps
    <3>7. CASE Remove(p)
      BY <3>7, RemoveKeeps
    <3>8. CASE PageValidates(p)
      BY <3>8, PageValidatesKeeps
    <3>9. CASE PageInvalidates(p)
      BY <3>9, PageInvalidatesKeeps
    <3> QED BY <2>2, <3>1, <3>2, <3>3, <3>4, <3>5, <3>6, <3>7, <3>8, <3>9 DEF PluginNext
  <2>3. CASE UNCHANGED vars
    BY <2>3 DEF vars, memberVars, timerVars, IInv, TypeOK, ValidatedMeansSeen, GuessesAreTries,
                RoundsKeepUp, CountsOnlyInView, FirstInView, First, OnlyOpenOnesAct
  <2> QED BY <2>1, <2>2, <2>3 DEF Next
<1> QED BY <1>1, InitKeeps, PTL DEF Spec

\* IsOk says yes only when, within the limit, the mark was in view, the plugin
\* created, or one of the page's first MaxAttempts guesses of a token right
\* (Watermark.cpp:130, 227-232).
THEOREM OkMeansSeen == Spec => []WorksOnlyWhenSeen
<1>1. IInv => WorksOnlyWhenSeen
  BY WatermarkAssumption DEF IInv, WorksOnlyWhenSeen, ValidatedMeansSeen, Expired, TypeOK
<1> QED BY <1>1, InvariantHolds, PTL

\* IsOk never says no while the plugin is the first and its mark has been in
\* view for a round and a delay, whatever the page calls (Watermark.cpp:198).
THEOREM InViewMeansOk == Spec => []WorksWhileInView
<1>1. ASSUME IInv PROVE WorksWhileInView
  <2> SUFFICES ASSUME NEW p \in Plugins, state[p] = "open", age[p] > Limit
               PROVE  inView[p] <= Period + MaxDelay
    BY DEF WorksWhileInView, Expired
  <2>1. age[p] <= Period + MaxDelay \/ inView[p] <= Period + MaxDelay
    BY <1>1, BehindBounded
  <2>2. age[p] \in 0..Limit + 1
    BY <1>1 DEF IInv, TypeOK
  <2> QED BY <2>1, <2>2, WatermarkAssumption
<1> QED BY <1>1, InvariantHolds, PTL
=============================================================================
