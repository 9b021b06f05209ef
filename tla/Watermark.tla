----------------------------- MODULE Watermark -----------------------------
(***************************************************************************)
(* The watermark of each plugin on one page.  Every Period seconds a timer *)
(* schedules WatermarkTest on the main thread, which takes a new token and *)
(* has the page run a script.  The script looks for the first plugin in    *)
(* the document, which need not be the one that asks, and calls its        *)
(* validate with the token if its mark is in view, its invalidate if it is *)
(* not.  IsOk compares the time since the last good token with a limit;    *)
(* the events of a frame and the calls that set streams depend on it, what *)
(* the plugin tells of points and hands does not.                          *)
(*                                                                         *)
(* Both methods are the page's to call as well: what keeps its scripts     *)
(* from validating on their own is the token, which changes with each      *)
(* round, and the limit on the tries for one.                              *)
(*                                                                         *)
(* The script runs within Test, on the main thread, so a round is a step   *)
(* (the page's code is taken not to run within it).  Time is in whole      *)
(* seconds, as second_clock gives it; the clock is not set back or         *)
(* forward.  It is assumed of the browser that a call waits no longer than *)
(* MaxDelay for the main thread.                                           *)
(***************************************************************************)
EXTENDS Naturals

CONSTANTS
  Plugins,      \* the plugins, numbered by their place in the document
  Tokens,       \* what rand() may return
  Limit,        \* MaxDurationBetweenVerifications
  Period,       \* of m_watermarkTimer
  MaxDelay,     \* bound: how long a scheduled call waits
  MaxAttempts

ASSUME WatermarkAssumption ==
  /\ Plugins \subseteq Nat
  /\ Limit \in Nat /\ Period \in Nat \ {0} /\ MaxDelay \in Nat
  /\ Period + MaxDelay <= Limit
  /\ MaxAttempts \in Nat \ {0}

VARIABLES
  state,    \* of the plugin: "new", "open" or "gone"
  mark,     \* m_element: "none", or "hidden" or "shown" by the page
  token,    \* m_token
  tries,    \* m_tryCount
  ok,       \* m_ok
  age,      \* seconds since m_lastValidationTime, counted to Limit + 1
  since,    \* seconds since the timer was last started
  posted,   \* for each WatermarkTest scheduled, how long it has waited
  guesses,  \* the page's own calls of validate since the token was taken
  unproved, \* seconds since the mark was in view, the plugin was new, or one of
            \* the first MaxAttempts guesses was right
  inView    \* seconds the plugin has been the first, with its mark in view

memberVars == <<token, tries, ok, age>>
timerVars == <<since, posted>>
vars == <<state, mark, memberVars, timerVars, guesses, unproved, inView>>

TypeOK ==
  /\ state \in [Plugins -> {"new", "open", "gone"}]
  /\ mark \in [Plugins -> {"none", "hidden", "shown"}]
  /\ token \in [Plugins -> Tokens] /\ tries \in [Plugins -> 0..MaxAttempts]
  /\ ok \in [Plugins -> BOOLEAN] /\ age \in [Plugins -> 0..Limit + 1]
  /\ since \in [Plugins -> 0..Period]
  /\ posted \in [Plugins -> SUBSET (0..MaxDelay)]
  /\ unproved \in [Plugins -> 0..Limit + 1]
  /\ guesses \in [Plugins -> 0..MaxAttempts]
  /\ inView \in [Plugins -> 0..Limit + 1]

Init ==
  /\ state = [p \in Plugins |-> "new"] /\ mark = [p \in Plugins |-> "none"]
  /\ token \in [Plugins -> Tokens] /\ tries = [p \in Plugins |-> 0]
  /\ ok = [p \in Plugins |-> TRUE] /\ age = [p \in Plugins |-> 0]
  /\ since = [p \in Plugins |-> 0] /\ posted = [p \in Plugins |-> {}]
  /\ guesses = [p \in Plugins |-> 0]
  /\ unproved = [p \in Plugins |-> 0] /\ inView = [p \in Plugins |-> 0]

-----------------------------------------------------------------------------
(* What the script sees.                                                   *)

\* The first plugin that getElementsByTagName finds.
First(p) == state[p] = "open" /\ \A q \in Plugins : state[q] = "open" => p <= q

FirstInView(p) == First(p) /\ mark[p] = "shown"

\* The count of seconds in view starts again when they are interrupted.
Watch == inView' = [p \in Plugins |-> IF FirstInView(p)' THEN inView[p] ELSE 0]

\* The mark is the element at its centre, or near it, and opaque.
Seen(p) == mark[p] = "shown"

-----------------------------------------------------------------------------
(* A round.                                                                *)

\* Mutant: the tries are counted but not limited.
ValidateUnlimited(p, key, count) ==
  /\ tries' = [count EXCEPT ![p] = IF @ < MaxAttempts THEN @ + 1 ELSE @]
  /\ age' = IF key = token'[p] THEN [age EXCEPT ![p] = 0] ELSE age
  /\ UNCHANGED ok

\* An attempt, count being the tries so far.
Validate(p, key, count) ==
  \/ /\ count[p] >= MaxAttempts
     /\ ok' = [ok EXCEPT ![p] = FALSE] /\ tries' = count /\ UNCHANGED age
  \/ /\ count[p] < MaxAttempts
     /\ tries' = [count EXCEPT ![p] = @ + 1]
     /\ age' = IF key = token'[p] THEN [age EXCEPT ![p] = 0] ELSE age
     /\ UNCHANGED ok

\* With no element at the mark's place, or no mark, the script ends with an
\* exception and nobody is told.
ScriptFails == UNCHANGED <<ok, age>>

Invalidate(p) == ok' = [ok EXCEPT ![p] = FALSE] /\ UNCHANGED age

Verify(key, count) ==
  \E p \in Plugins :
    /\ First(p)
    /\ \/ Seen(p) /\ Validate(p, key, count)
       \/ ~Seen(p) /\ mark[p] # "none" /\ Invalidate(p) /\ tries' = count
       \/ ~Seen(p) /\ ScriptFails /\ tries' = count

\* Mutant: the tries are counted from the first round on.
TriesKept(p) == tries

TriesReset(p) == [tries EXCEPT ![p] = 0]

\* WatermarkTest, called for the oldest request.
Test(p) ==
  /\ state[p] = "open"
  /\ \E d \in posted[p] :
       /\ \A e \in posted[p] : e <= d
       /\ posted' = [posted EXCEPT ![p] = @ \ {d}]
  /\ \E t \in Tokens : token' = [token EXCEPT ![p] = t]
  /\ Verify(token'[p], TriesReset(p))
  /\ guesses' = [guesses EXCEPT ![p] = 0]
  /\ UNCHANGED <<state, mark, since, unproved, inView>>

\* The timer starts itself again and schedules the test.
TimerFires(p) ==
  /\ state[p] = "open" /\ since[p] = Period
  /\ since' = [since EXCEPT ![p] = 0]
  /\ posted' = [posted EXCEPT ![p] = @ \cup {0}]
  /\ UNCHANGED <<state, mark, memberVars, guesses, unproved, inView>>

Expired(p) == age[p] > Limit

\* IsOk decides by the time alone, whatever m_ok was before, and returns what
\* m_ok then is.
IsOk(p) ==
  /\ state[p] = "open"
  /\ ok' = [ok EXCEPT ![p] = ~Expired(p)]
  /\ UNCHANGED <<state, mark, token, tries, age, timerVars, guesses, unproved, inView>>

-----------------------------------------------------------------------------
(* The page and the clock.                                                 *)

\* A script of the page's own calls validate, with a guess.
PageValidates(p) ==
  /\ state[p] = "open" /\ UNCHANGED token
  /\ \E key \in Tokens :
       /\ Validate(p, key, tries)
       /\ unproved' = IF key = token[p] /\ guesses[p] < MaxAttempts
                        THEN [unproved EXCEPT ![p] = 0] ELSE unproved
  /\ guesses' = [guesses EXCEPT ![p] = IF @ < MaxAttempts THEN @ + 1 ELSE @]
  /\ UNCHANGED <<state, mark, timerVars, inView>>

\* It calls invalidate.
PageInvalidates(p) ==
  /\ state[p] = "open" /\ Invalidate(p)
  /\ UNCHANGED <<state, mark, token, tries, timerVars, guesses, unproved, inView>>

\* The constructor puts the mark in its corner, over those that are there,
\* or fails and leaves none or an empty one.
Create(p) ==
  /\ state[p] = "new"
  /\ state' = [state EXCEPT ![p] = "open"]
  /\ \/ /\ mark' = [q \in Plugins |-> IF q = p THEN "shown"
                                      ELSE IF mark[q] = "shown" THEN "hidden"
                                      ELSE mark[q]]
        /\ UNCHANGED ok
     \/ /\ \E m \in {"none", "hidden"} : mark' = [mark EXCEPT ![p] = m]
        /\ ok' = [ok EXCEPT ![p] = FALSE]
  /\ \E t \in Tokens : token' = [token EXCEPT ![p] = t]
  /\ Watch
  /\ UNCHANGED <<tries, age, timerVars, guesses, unproved>>

\* The page moves or covers a mark, or brings it back.
Show(p) ==
  /\ state[p] = "open" /\ mark[p] = "hidden"
  /\ mark' = [mark EXCEPT ![p] = "shown"]
  /\ unproved' = [unproved EXCEPT ![p] = 0]
  /\ UNCHANGED <<state, memberVars, timerVars, guesses>>
  /\ Watch

Hide(p) ==
  /\ state[p] = "open" /\ mark[p] = "shown"
  /\ mark' = [mark EXCEPT ![p] = "hidden"]
  /\ UNCHANGED <<state, memberVars, timerVars, guesses, unproved>>
  /\ Watch

\* The plugin leaves the page: its timer stops, what is scheduled is dropped.
\* The mark stays where it is and covers what it covered.
Remove(p) ==
  /\ state[p] = "open"
  /\ state' = [state EXCEPT ![p] = "gone"]
  /\ posted' = [posted EXCEPT ![p] = {}]
  /\ UNCHANGED <<mark, memberVars, since, guesses, unproved>>
  /\ Watch

Older(n) == IF n <= Limit THEN n + 1 ELSE n

\* A second passes, unless a timer or a call that has waited long enough is due.
Tick ==
  /\ \A p \in Plugins : state[p] = "open" => since[p] < Period /\ MaxDelay \notin posted[p]
  /\ age' = [p \in Plugins |-> IF state[p] = "open" THEN Older(age[p]) ELSE age[p]]
  /\ since' = [p \in Plugins |-> IF state[p] = "open" THEN since[p] + 1 ELSE since[p]]
  /\ posted' = [p \in Plugins |-> {d + 1 : d \in posted[p]}]
  /\ unproved' = [p \in Plugins |-> IF state[p] = "open" /\ mark[p] # "shown"
                                    THEN Older(unproved[p]) ELSE unproved[p]]
  /\ inView' = [p \in Plugins |-> IF FirstInView(p) THEN Older(inView[p]) ELSE 0]
  /\ UNCHANGED <<state, mark, token, tries, ok, guesses>>

PluginNext(p) ==
  \/ Create(p) \/ TimerFires(p) \/ Test(p) \/ IsOk(p)
  \/ PageValidates(p) \/ PageInvalidates(p) \/ Show(p) \/ Hide(p) \/ Remove(p)

Next == Tick \/ \E p \in Plugins : PluginNext(p)

Spec == Init /\ [][Next]_vars

-----------------------------------------------------------------------------
(* Properties: of what IsOk says whenever it is asked.                     *)

\* The plugin works only for a page that has shown its mark, or created the
\* plugin, or guessed a token with one of the first MaxAttempts calls since it
\* was taken, within the time limit, whatever rounds, delays, other plugins and
\* calls of validate and invalidate there were ("15 seconds without
\* verification is the max we allow", Watermark.cpp:16).
WorksOnlyWhenSeen ==
  \A p \in Plugins :
    state[p] = "open" /\ ~Expired(p) => unproved[p] <= Limit

\* The plugin stops only if, for the time of one round and the wait for the
\* main thread, its mark was not in view or another plugin came first: it
\* never stops for a page that shows it all the time, and works again in time
\* for one that shows it again, whatever calls of validate and invalidate the
\* page makes (IsOk, Test and the timer, ZigJSAPI.cpp:61).
WorksWhileInView ==
  \A p \in Plugins :
    state[p] = "open" /\ Expired(p) => inView[p] <= Period + MaxDelay

-----------------------------------------------------------------------------
(* The inductive invariant behind both.                                    *)

\* A validation found the mark in view, or was one of the first guesses.
ValidatedMeansSeen ==
  \A p \in Plugins : /\ unproved[p] <= age[p]
                     /\ mark[p] = "shown" => unproved[p] = 0

\* The page's calls are among the tries.
GuessesAreTries == \A p \in Plugins : guesses[p] <= tries[p]

\* While the plugin is in view, the last validation is not older than the last
\* round: than the timer's start when no round waits, else than the round
\* before one that does.
RoundsKeepUp ==
  \A p \in Plugins : state[p] = "open" =>
    \/ posted[p] = {} /\ (age[p] <= since[p] \/ inView[p] <= since[p])
    \/ \E d \in posted[p] : age[p] <= Period + d \/ inView[p] <= Period + d

CountsOnlyInView == \A p \in Plugins : ~FirstInView(p) => inView[p] = 0

\* Nothing happens to a plugin before it is created or after it is gone.
OnlyOpenOnesAct ==
  \A p \in Plugins : /\ state[p] # "open" => posted[p] = {}
                     /\ state[p] = "new" => age[p] = 0

IInv ==
  /\ TypeOK /\ ValidatedMeansSeen /\ GuessesAreTries /\ RoundsKeepUp
  /\ CountsOnlyInView /\ OnlyOpenOnesAct
=============================================================================
