------------------------- MODULE ScriptObjectsProofs -------------------------
(***************************************************************************)
(* What ScriptObjects promises for any addresses, script objects and       *)
(* threads: the browser's counts are right, and a plugin object that was   *)
(* given out lives as long as its wrapper.  The inductive invariant says   *)
(* where an NPObjectAPI can be, who keeps a plugin object alive, and that  *)
(* a wrapper has an entry of its own in m_retainedObjects.                 *)
(***************************************************************************)
EXTENDS ScriptObjects, FiniteSetTheorems, TLAPS

-----------------------------------------------------------------------------
(* The references the plugin owes.                                         *)

Used(o) == {h \in Handles : obj[h] = o /\ reg[h] # "free"}

\* What is owed is a number, and whoever has a reference finds it counted.
LEMMA OwedCounts ==
  ASSUME TypeOK, NEW o \in Objs
  PROVE  /\ IsFiniteSet(Used(o)) /\ Owed(o) = Cardinality(Used(o)) /\ Owed(o) \in Nat
         /\ (\E h \in Handles : obj[h] = o /\ reg[h] # "free") => Owed(o) > 0
<1>1. IsFiniteSet(Used(o))
  BY FS_Subset, ScriptObjectsAssumption DEF Used
<1>2. Owed(o) = Cardinality(Used(o))
  BY DEF Used, Owed
<1>3. Owed(o) \in Nat
  BY <1>1, <1>2, FS_CardinalityType
<1>4. ASSUME NEW h \in Handles, obj[h] = o, reg[h] # "free"
      PROVE  Owed(o) > 0
  <2>1. Used(o) # {}
    BY <1>4 DEF Used
  <2>2. Cardinality(Used(o)) # 0
    BY <1>1, <2>1, FS_EmptySet
  <2> QED BY <1>2, <1>3, <2>2
<1> QED BY <1>1, <1>2, <1>3, <1>4

\* Moving an NPObjectAPI about changes nothing of it.
LEMMA SameOwed ==
  ASSUME NEW o, obj' = obj, \A h \in Handles : reg'[h] = "free" <=> reg[h] = "free"
  PROVE  Owed(o)' = Owed(o)
  BY DEF Owed

\* A death moves NPObjectAPIs from an event map to a stack.
LEMMA DieMoves ==
  ASSUME TypeOK, NEW t \in Threads, NEW D \in SUBSET Apis,
         NEW r \in [Handles -> Apis \cup Places], Die(t, D, r)
  PROVE  /\ live' \in [Apis -> BOOLEAN]
         /\ reg' \in [Handles -> Apis \cup Places]
         /\ held' \in [Threads -> SUBSET Handles]
         /\ \A a \in Apis : live'[a] <=> live[a] /\ a \notin D
         /\ \A h \in Handles : reg'[h] = IF r[h] \in D THEN "none" ELSE r[h]
         /\ \A h \in Handles : reg'[h] = "free" <=> r[h] = "free"
         /\ \A u \in Threads : held'[u] = IF u = t THEN held[t] \cup {h \in Handles : r[h] \in D} ELSE held[u]
<1>1. live' \in [Apis -> BOOLEAN] /\ \A a \in Apis : live'[a] <=> live[a] /\ a \notin D
  BY Zenon DEF Die, TypeOK
<1>2. reg' \in [Handles -> Apis \cup Places] /\ \A h \in Handles : reg'[h] = IF r[h] \in D THEN "none" ELSE r[h]
  BY DEF Die, TypeOK, Places
<1>3. \A h \in Handles : reg'[h] = "free" <=> r[h] = "free"
  BY <1>2, ScriptObjectsAssumption DEF Places
<1>4. held' \in [Threads -> SUBSET Handles]
      /\ \A u \in Threads : held'[u] = IF u = t THEN held[t] \cup {h \in Handles : r[h] \in D} ELSE held[u]
  BY DEF Die, TypeOK
<1> QED BY <1>1, <1>2, <1>3, <1>4

\* Of the plugin objects, those in D and no others die.
LEMMA DieKills ==
  ASSUME TypeOK, NEW t, NEW D, NEW r, Die(t, D, r)
  PROVE  \A a \in Apis : live'[a] <=> live[a] /\ a \notin D
BY Zenon DEF Die, TypeOK

\* The main thread is one of the threads, and what is owed on it is counted.
LEMMA ReleaseObjectDoes ==
  ASSUME TypeOK, NEW o \in Objs, refs[o] > 0,
         NEW r \in [Handles -> Apis \cup Places], ReleaseObject(o, r)
  PROVE  \E D \in SUBSET Apis :
         /\ Die(Main, D, r)
         /\ refs' \in [Objs -> Nat] /\ retained' \in [Apis -> Nat]
         /\ \A p \in Objs : refs'[p] = IF p = o THEN refs[p] - 1 ELSE refs[p]
         /\ \A a \in Apis : IF a = o /\ TellsHost(a) /\ retained[a] > 0
                            THEN /\ retained'[a] = retained[a] - 1
                                 /\ a \in D <=> retained[a] = 1 /\ ~own[a] /\ ~Pinned(a)
                            ELSE retained'[a] = retained[a] /\ a \notin D
<1> DEFINE found == {a \in {o} \cap Apis : TellsHost(a) /\ retained[a] > 0}
           D == {a \in found : retained[a] = 1 /\ ~own[a] /\ ~Pinned(a)}
<1>1. Die(Main, D, r)
  BY DEF ReleaseObject
<1>2. refs' \in [Objs -> Nat] /\ \A p \in Objs : refs'[p] = IF p = o THEN refs[p] - 1 ELSE refs[p]
  BY DEF ReleaseObject, TypeOK
<1>3. retained' = [a \in Apis |-> IF a \in found THEN retained[a] - 1 ELSE retained[a]]
  BY DEF ReleaseObject
<1>4. retained' \in [Apis -> Nat]
  BY <1>3 DEF TypeOK
<1>5. \A a \in Apis : a \in found <=> a = o /\ TellsHost(a) /\ retained[a] > 0
  OBVIOUS
<1>6. D \in SUBSET Apis
  OBVIOUS
<1> HIDE DEF found
<1>7. \A a \in Apis : IF a = o /\ TellsHost(a) /\ retained[a] > 0
                      THEN /\ retained'[a] = retained[a] - 1
                           /\ a \in D <=> retained[a] = 1 /\ ~own[a] /\ ~Pinned(a)
                      ELSE retained'[a] = retained[a] /\ a \notin D
  BY <1>3, <1>5
<1> HIDE DEF D
<1> QED BY <1>1, <1>2, <1>4, <1>6, <1>7

\* What is forgotten is owed before and lost after.
LEMMA LoseDoes ==
  ASSUME TypeOK, NEW S \in SUBSET Handles, \A h \in S : reg[h] # "free", obj' = obj, Lose(S),
         \A h \in Handles : reg'[h] = "free" <=> h \in S \/ reg[h] = "free"
  PROVE  /\ lost' \in [Objs -> Nat]
         /\ \A o \in Objs : Owed(o) + lost[o] = Owed(o)' + lost'[o]
<1>2. ASSUME NEW o \in Objs
      PROVE  lost'[o] \in Nat /\ Owed(o) + lost[o] = Owed(o)' + lost'[o]
  <2> DEFINE G == {h \in S : obj[h] = o}
  <2>1. lost'[o] = lost[o] + Cardinality(G)
    BY DEF Lose
  <2>2. G \subseteq Used(o)
    BY DEF Used
  <2>3. IsFiniteSet(Used(o)) /\ Owed(o) = Cardinality(Used(o)) /\ Owed(o) \in Nat
    BY OwedCounts
  <2>4. {h \in Handles : obj'[h] = o /\ reg'[h] # "free"} = Used(o) \ G
    BY DEF Used
  <2>5. IsFiniteSet(G) /\ Used(o) \cap G = G
    BY <2>2, <2>3, FS_Subset
  <2>6. Cardinality(Used(o) \ G) = Cardinality(Used(o)) - Cardinality(G)
    <3> HIDE DEF G
    <3>1. Cardinality(Used(o) \ G) = Cardinality(Used(o)) - Cardinality(Used(o) \cap G)
      BY <2>3, FS_Difference
    <3> QED BY <2>5, <3>1
  <2>7. Owed(o)' = Owed(o) - Cardinality(G)
    BY <2>3, <2>4, <2>6 DEF Owed
  <2>8. Cardinality(G) \in Nat /\ lost[o] \in Nat
    BY <2>5, FS_CardinalityType DEF TypeOK
  <2>9. Owed(o)' \in Int
    BY <2>3, <2>7, <2>8
  <2> HIDE DEF G
  <2> QED BY <2>1, <2>3, <2>7, <2>8, <2>9
<1>3. lost' \in [Objs -> Nat]
  <2>1. lost' = [o \in Objs |-> lost[o] + Cardinality({h \in S : obj[h] = o})]
    BY DEF Lose
  <2>2. lost' = [o \in Objs |-> lost'[o]]
    BY <2>1
  <2> QED BY <1>2, <2>2
<1> QED BY <1>2, <1>3

LEMMA ForgetDoes ==
  ASSUME TypeOK, NEW S \in SUBSET Handles, \A h \in S : reg[h] # "free", obj' = obj, Forget(S)
  PROVE  /\ Lose(S) /\ lost' \in [Objs -> Nat] /\ reg' \in [Handles -> Apis \cup Places]
         /\ \A h \in Handles : reg'[h] = IF h \in S THEN "free" ELSE reg[h]
         /\ \A h \in Handles : reg'[h] = "free" <=> h \in S \/ reg[h] = "free"
<1>1. /\ reg' \in [Handles -> Apis \cup Places]
      /\ \A h \in Handles : reg'[h] = IF h \in S THEN "free" ELSE reg[h]
  BY DEF Forget, Freed, TypeOK, Places
<1>2. \A h \in Handles : reg'[h] = "free" <=> h \in S \/ reg[h] = "free"
  BY <1>1
<1>3. Lose(S)
  BY DEF Forget
<1>4. lost' \in [Objs -> Nat]
  BY <1>2, <1>3, LoseDoes
<1> QED BY <1>1, <1>2, <1>3, <1>4

\* The host goes: what its queue held is lost, and what its list alone kept
\* alive dies on the thread it goes on.
LEMMA HostEndsDoes ==
  ASSUME TypeOK, NEW t \in Threads, NEW S \in SUBSET Handles, \A h \in S : reg[h] # "free",
         obj' = obj, HostEnds(t, S)
  PROVE  /\ lost' \in [Objs -> Nat] /\ retained' \in [Apis -> Nat]
         /\ live' \in [Apis -> BOOLEAN] /\ reg' \in [Handles -> Apis \cup Places]
         /\ held' \in [Threads -> SUBSET Handles]
         /\ Lose(S) /\ Freed(S) \in [Handles -> Apis \cup Places]
         /\ \A h \in Handles : reg'[h] = "free" <=> h \in S \/ reg[h] = "free"
         /\ \A a \in Apis : retained'[a] = 0
         /\ \A a \in Apis : live'[a] <=> live[a] /\ ~(live[a] /\ ~own[a] /\ ~Pinned(a))
         /\ \E D \in SUBSET Apis : Die(t, D, Freed(S))
<1> DEFINE D == {a \in Apis : live[a] /\ ~own[a] /\ ~Pinned(a)}
<1>1. Lose(S) /\ Die(t, D, Freed(S)) /\ retained' = [a \in Apis |-> 0]
  BY DEF HostEnds
<1>2. /\ Freed(S) \in [Handles -> Apis \cup Places]
      /\ \A h \in Handles : Freed(S)[h] = IF h \in S THEN "free" ELSE reg[h]
  BY DEF Freed, TypeOK, Places
<1>3. D \in SUBSET Apis /\ \A a \in Apis : a \in D <=> live[a] /\ ~own[a] /\ ~Pinned(a)
  OBVIOUS
<1> HIDE DEF D
<1>4. /\ live' \in [Apis -> BOOLEAN] /\ reg' \in [Handles -> Apis \cup Places]
      /\ held' \in [Threads -> SUBSET Handles]
      /\ \A a \in Apis : live'[a] <=> live[a] /\ a \notin D
      /\ \A h \in Handles : reg'[h] = "free" <=> Freed(S)[h] = "free"
  <2>1. /\ live' \in [Apis -> BOOLEAN] /\ reg' \in [Handles -> Apis \cup Places]
        /\ held' \in [Threads -> SUBSET Handles]
    BY <1>1, <1>2, <1>3, DieMoves
  <2> DEFINE r == Freed(S)
  <2>f. r \in [Handles -> Apis \cup Places] /\ Die(t, D, r)
    BY <1>1, <1>2
  <2> HIDE DEF r
  <2>g. \A h \in Handles : reg'[h] = "free" <=> r[h] = "free"
    <3>1. D \in SUBSET Apis
      BY <1>3
    <3> QED BY <2>f, <3>1, DieMoves, Zenon
  <2>2. \A h \in Handles : reg'[h] = "free" <=> Freed(S)[h] = "free"
    BY <2>g DEF r
  <2>3. \A a \in Apis : live'[a] <=> live[a] /\ a \notin D
    BY <1>1, DieKills
  <2> QED BY <2>1, <2>2, <2>3
<1>5. \A h \in Handles : reg'[h] = "free" <=> h \in S \/ reg[h] = "free"
  BY <1>2, <1>4
<1>6. lost' \in [Objs -> Nat]
  BY <1>1, <1>5, LoseDoes
<1>7. retained' \in [Apis -> Nat] /\ \A a \in Apis : retained'[a] = 0
  BY <1>1
<1>8. \A a \in Apis : live'[a] <=> live[a] /\ ~(live[a] /\ ~own[a] /\ ~Pinned(a))
  BY <1>3, <1>4, Zenon
<1> QED BY <1>1, <1>2, <1>3, <1>4, <1>5, <1>6, <1>7, <1>8

\* Counts that agree leave something to give back.
LEMMA RefsPositive ==
  ASSUME TypeOK, CountsAgree, NEW o \in Objs
  PROVE  /\ script[o] > 0 => refs[o] > 0
         /\ lost[o] > 0 => refs[o] > 0
         /\ (\E h \in Handles : obj[h] = o /\ reg[h] # "free") => refs[o] > 0
  BY OwedCounts DEF CountsAgree, TypeOK

-----------------------------------------------------------------------------
(* Types.                                                                  *)

LEMMA TypesKept ==
  ASSUME IInv, [Next]_vars
  PROVE  TypeOK'
<1> USE DEF TypeOK
<1>0. TypeOK /\ CountsAgree /\ EndedOnce /\ \A o \in Objs : script[o] > 0 => refs[o] > 0
  BY RefsPositive DEF IInv
<1>r. reg \in [Handles -> Apis \cup Places]
  BY <1>0
<1>o. Apis \subseteq Objs /\ Scripts \subseteq Objs /\ Main \in Threads /\ Workers \subseteq Threads
  BY DEF Objs, Threads
<1>1. ASSUME NEW a \in Apis, Create(a) PROVE TypeOK'
  BY <1>0, <1>1 DEF Create, wrappers, counts, handles, threads
<1>2. ASSUME NEW a \in Apis, Drop(a) PROVE TypeOK'
  <2>1. Die(Main, {b \in {a} : retained[a] = 0 /\ ~Pinned(a)}, reg)
    BY <1>2 DEF Drop
  <2>2. /\ live' \in [Apis -> BOOLEAN] /\ reg' \in [Handles -> Apis \cup Places]
        /\ held' \in [Threads -> SUBSET Handles]
    BY <1>0, <1>r, <1>o, <2>1, DieMoves
  <2> QED BY <1>0, <1>2, <2>2 DEF Drop, wrappers, counts
<1>3. ASSUME NEW a \in Apis, GiveOut(a) \/ GiveOutWeak(a) PROVE TypeOK'
  <2>1. PICK strong \in BOOLEAN : Wrap(a, strong)
    BY <1>3 DEF GiveOut, GiveOutWeak
  <2>2. given' \in [Apis -> BOOLEAN]
    BY <1>0, <2>1 DEF Wrap
  <2>3. /\ refs' \in [Objs -> Nat] /\ script' \in [Objs -> Nat]
        /\ wrapped' \in [Apis -> Nat]
    BY <1>0, <1>o, <2>1 DEF Wrap
  <2>4. retained' \in [Apis -> Nat] /\ UNCHANGED <<live, gen, own>>
    <3>1. CASE retained' = [retained EXCEPT ![a] = @ + 1] /\ UNCHANGED <<live, gen, own>>
      BY <1>0, <3>1
    <3>2. CASE UNCHANGED apis
      BY <1>0, <3>2 DEF apis
    <3> QED BY <1>3, <3>1, <3>2 DEF GiveOut, GiveOutWeak
  <2> QED BY <1>0, <1>3, <2>2, <2>3, <2>4 DEF GiveOut, GiveOutWeak, handles, threads
<1>4. ASSUME NEW o \in Objs, ScriptDrops(o) PROVE TypeOK'
  <2>1. refs[o] > 0 /\ ReleaseObject(o, reg)
    BY <1>0, <1>4 DEF ScriptDrops
  <2>2. PICK D \in SUBSET Apis : Die(Main, D, reg)
        /\ refs' \in [Objs -> Nat] /\ retained' \in [Apis -> Nat]
    BY <1>0, <1>r, <2>1, ReleaseObjectDoes
  <2>3. /\ live' \in [Apis -> BOOLEAN] /\ reg' \in [Handles -> Apis \cup Places]
        /\ held' \in [Threads -> SUBSET Handles]
    BY <1>0, <1>r, <1>o, <2>2, DieMoves
  <2>4. draining' \in BOOLEAN /\ script' \in [Objs -> Nat]
    BY <1>0, <1>4 DEF ScriptDrops
  <2> QED BY <1>0, <1>4, <2>2, <2>3, <2>4 DEF ScriptDrops, wrappers
<1>5. ASSUME NEW a \in Apis, NEW o \in Objs, NEW h \in Handles, Register(a, o, h) PROVE TypeOK'
  BY <1>0, <1>5 DEF Register, apis, wrappers, threads
<1>6. ASSUME NEW a \in Apis, NEW o \in Apis, RegisterDead(a, o) PROVE TypeOK'
  BY <1>0, <1>6, <1>o DEF RegisterDead, apis, wrappers, handles, threads
<1>7. ASSUME NEW h \in Handles, Unregister(h) PROVE TypeOK'
  BY <1>0, <1>7, <1>o DEF Unregister, apis, wrappers, counts, Places
<1>8. ASSUME NEW t \in Threads, NEW h \in Handles, LetCopyGo(t, h) PROVE TypeOK'
  BY <1>0, <1>8 DEF LetCopyGo, apis, wrappers, counts, handles
<1>9. ASSUME NEW h \in Handles, MainLetsGo(h) PROVE TypeOK'
  <2>1. CASE HostAlive
    BY <1>0, <1>9, <2>1 DEF MainLetsGo, apis, wrappers, Places
  <2>2. CASE ~HostAlive
    <3>1. Forget({h}) /\ reg[h] # "free" /\ obj' = obj
      BY <1>9, <2>2 DEF MainLetsGo, Last
    <3>2. lost' \in [Objs -> Nat] /\ reg' \in [Handles -> Apis \cup Places]
      BY <1>0, <3>1, ForgetDoes
    <3> QED BY <1>0, <1>9, <2>2, <3>2 DEF MainLetsGo, apis, wrappers
  <2> QED BY <2>1, <2>2
<1>10. ASSUME NEW h \in Handles, Pop(h) PROVE TypeOK'
  <2>1. obj[h] \in Objs /\ ReleaseObject(obj[h], [reg EXCEPT ![h] = "free"])
    BY <1>0, <1>10 DEF Pop
  <2>2. refs[obj[h]] > 0
    BY <1>0, <1>10, <2>1, RefsPositive DEF Pop
  <2>3. [reg EXCEPT ![h] = "free"] \in [Handles -> Apis \cup Places]
    BY <1>0 DEF Places
  <2>4. PICK D \in SUBSET Apis : Die(Main, D, [reg EXCEPT ![h] = "free"])
        /\ refs' \in [Objs -> Nat] /\ retained' \in [Apis -> Nat]
    BY <1>0, <2>1, <2>2, <2>3, ReleaseObjectDoes
  <2>5. /\ live' \in [Apis -> BOOLEAN] /\ reg' \in [Handles -> Apis \cup Places]
        /\ held' \in [Threads -> SUBSET Handles]
    BY <1>0, <1>o, <2>3, <2>4, DieMoves
  <2> QED BY <1>0, <1>10, <2>4, <2>5 DEF Pop, wrappers
<1>11. CASE DrainEnds
  <2>1. CASE UNCHANGED <<live, retained, lost, reg, held>>
    BY <1>0, <1>11, <2>1 DEF DrainEnds, wrappers
  <2>2. CASE HostEnds(Main, {})
    <3>1. obj' = obj
      BY <1>11 DEF DrainEnds
    <3>2. /\ lost' \in [Objs -> Nat] /\ retained' \in [Apis -> Nat]
          /\ live' \in [Apis -> BOOLEAN] /\ reg' \in [Handles -> Apis \cup Places]
          /\ held' \in [Threads -> SUBSET Handles]
      BY <1>0, <1>o, <2>2, <3>1, HostEndsDoes
    <3> QED BY <1>0, <1>11, <3>2 DEF DrainEnds, wrappers
  <2> QED BY <1>11, <2>1, <2>2 DEF DrainEnds
<1>12. ASSUME NEW w \in Workers, NEW h \in Handles, CheckExpired(w, h) PROVE TypeOK'
  <2>1. held' \in [Threads -> SUBSET Handles] /\ obj' = obj
    BY <1>0, <1>12 DEF CheckExpired
  <2>2. CASE HostAlive
    BY <1>0, <1>12, <2>1, <2>2 DEF CheckExpired, apis, wrappers
  <2>3. CASE ~HostAlive
    <3>1. Forget({h}) /\ reg[h] # "free"
      BY <1>12, <2>3 DEF CheckExpired, Last
    <3>2. lost' \in [Objs -> Nat] /\ reg' \in [Handles -> Apis \cup Places]
      BY <1>0, <2>1, <3>1, ForgetDoes
    <3> QED BY <1>0, <1>12, <2>1, <2>3, <3>2 DEF CheckExpired, apis, wrappers
  <2> QED BY <2>2, <2>3
<1>13. ASSUME NEW w \in Workers, GetHost(w) PROVE TypeOK'
  <2>1. CASE HostAlive
    BY <1>0, <1>13, <2>1 DEF GetHost, apis, wrappers
  <2>2. CASE ~HostAlive
    <3>1. Forget(letting[w]) /\ obj' = obj /\ letting[w] \in SUBSET Handles
      BY <1>0, <1>13, <2>2 DEF GetHost
    <3>2. \A h \in letting[w] : reg[h] # "free"
      BY <1>0 DEF EndedOnce
    <3>3. lost' \in [Objs -> Nat] /\ reg' \in [Handles -> Apis \cup Places]
      BY <1>0, <3>1, <3>2, ForgetDoes
    <3> QED BY <1>0, <1>13, <2>2, <3>3 DEF GetHost, apis, wrappers
  <2> QED BY <2>1, <2>2
<1>14. ASSUME NEW w \in Workers, DeferredRelease(w) PROVE TypeOK'
  <2>1. stage' \in [Workers -> {"idle", "checked", "pinned"}] /\ letting' \in [Workers -> SUBSET Handles]
    BY <1>0, <1>14 DEF DeferredRelease
  <2>2. /\ lost' \in [Objs -> Nat] /\ retained' \in [Apis -> Nat]
        /\ live' \in [Apis -> BOOLEAN] /\ reg' \in [Handles -> Apis \cup Places]
        /\ held' \in [Threads -> SUBSET Handles]
    <3>1. CASE /\ reg' = [h \in Handles |-> IF h \in letting[w] THEN "queued" ELSE reg[h]]
               /\ UNCHANGED <<live, retained, lost, held>>
      BY <1>0, <3>1 DEF Places
    <3>2. CASE HostEnds(w, Queued \cup letting[w])
      <4>1. /\ Queued \cup letting[w] \in SUBSET Handles /\ obj' = obj
            /\ \A h \in Queued \cup letting[w] : reg[h] # "free"
        BY <1>0, <1>14 DEF EndedOnce, Queued, DeferredRelease
      <4> QED BY <1>0, <1>o, <3>2, <4>1, HostEndsDoes
    <3> QED BY <1>14, <3>1, <3>2 DEF DeferredRelease
  <2> QED BY <1>0, <1>14, <2>1, <2>2 DEF DeferredRelease, wrappers
<1>15. ASSUME NEW w \in Workers, NEW a \in Apis, Fire(w, a) PROVE TypeOK'
  BY <1>0, <1>15, <1>o DEF Fire, Listeners, apis, wrappers, counts, handles
<1>16. ASSUME NEW w \in Workers, NEW a \in Apis, FireEnds(w, a) PROVE TypeOK'
  <2>1. Die(w, {b \in {a} : ~own[a] /\ retained[a] = 0 /\ \A u \in Workers \ {w} : a \notin pin[u]}, reg)
    BY <1>16 DEF FireEnds
  <2>2. /\ live' \in [Apis -> BOOLEAN] /\ reg' \in [Handles -> Apis \cup Places]
        /\ held' \in [Threads -> SUBSET Handles]
    BY <1>0, <1>r, <1>o, <2>1, DieMoves
  <2> QED BY <1>0, <1>16, <2>2 DEF FireEnds, wrappers, counts
<1>17. CASE FreeRetained
  <2>1. Die(Main, {a \in Apis : live[a] /\ ~own[a] /\ ~Pinned(a)}, reg)
    BY <1>17 DEF FreeRetained
  <2>2. /\ live' \in [Apis -> BOOLEAN] /\ reg' \in [Handles -> Apis \cup Places]
        /\ held' \in [Threads -> SUBSET Handles]
    BY <1>0, <1>r, <1>o, <2>1, DieMoves
  <2> QED BY <1>0, <1>17, <2>2 DEF FreeRetained, wrappers, counts
<1>18. CASE ResetHtml
  BY <1>0, <1>18, <1>o, ScriptObjectsAssumption DEF ResetHtml, apis, wrappers, counts, Places
<1>19. CASE DeletePlugin
  <2>1. Die(Main, {a \in Apis : live[a] /\ retained[a] = 0 /\ ~Pinned(a)}, reg)
    BY <1>19 DEF DeletePlugin
  <2>2. /\ live' \in [Apis -> BOOLEAN] /\ reg' \in [Handles -> Apis \cup Places]
        /\ held' \in [Threads -> SUBSET Handles]
    BY <1>0, <1>r, <1>o, <2>1, DieMoves
  <2> QED BY <1>0, <1>19, <2>2 DEF DeletePlugin, wrappers, counts
<1>20. CASE DropHost
  <2>1. CASE UNCHANGED <<live, retained, lost, reg, held>>
    BY <1>0, <1>20, <2>1 DEF DropHost, wrappers
  <2>2. CASE HostEnds(Main, Queued)
    <3>1. Queued \in SUBSET Handles /\ \A h \in Queued : reg[h] # "free"
      BY DEF Queued
    <3>2. obj' = obj
      BY <1>20 DEF DropHost
    <3>3. /\ lost' \in [Objs -> Nat] /\ retained' \in [Apis -> Nat]
          /\ live' \in [Apis -> BOOLEAN] /\ reg' \in [Handles -> Apis \cup Places]
          /\ held' \in [Threads -> SUBSET Handles]
      BY <1>0, <1>o, <2>2, <3>1, <3>2, HostEndsDoes
    <3> QED BY <1>0, <1>20, <3>3 DEF DropHost, wrappers
  <2> QED BY <1>20, <2>1, <2>2 DEF DropHost
<1>21. CASE UNCHANGED vars
  BY <1>0, <1>21 DEF vars, apis, wrappers, counts, handles, threads
<1>22. ASSUME NEW a \in Apis, DrainRetains(a) PROVE TypeOK'
  BY <1>0, <1>22 DEF DrainRetains, wrappers, counts, handles, threads
<1> QED
  BY <1>o, <1>1, <1>2, <1>3, <1>4, <1>5, <1>6, <1>7, <1>8, <1>9, <1>10, <1>11, <1>12, <1>13, <1>14, <1>15,
     <1>16, <1>17, <1>18, <1>19, <1>20, <1>21, <1>22
  DEF Next, Page, Finish, Destroy, Worker

-----------------------------------------------------------------------------
(* The browser's counts.                                                   *)

\* NPObjectAPIs change hands; the counts stay.
LEMMA CountsStay ==
  ASSUME CountsAgree, UNCHANGED counts, obj' = obj,
         \A h \in Handles : reg'[h] = "free" <=> reg[h] = "free"
  PROVE  CountsAgree'
  BY SameOwed DEF CountsAgree, counts

\* References are forgotten.
LEMMA CountsForget ==
  ASSUME TypeOK, CountsAgree, NEW S \in SUBSET Handles, \A h \in S : reg[h] # "free",
         Lose(S), \A h \in Handles : reg'[h] = "free" <=> h \in S \/ reg[h] = "free",
         UNCHANGED <<obj, refs, script>>
  PROVE  CountsAgree'
<1>1. ASSUME NEW o \in Objs PROVE refs'[o] = script'[o] + Owed(o)' + lost'[o]
  <2>1. Owed(o) + lost[o] = Owed(o)' + lost'[o] /\ lost'[o] \in Nat
    BY LoseDoes
  <2>2. refs[o] = script[o] + Owed(o) + lost[o] /\ script[o] \in Nat /\ lost[o] \in Nat
    BY DEF CountsAgree, TypeOK
  <2>3. Owed(o) \in Nat
    BY OwedCounts
  <2>4. Owed(o)' \in Nat
    <3>1. {h \in Handles : obj'[h] = o /\ reg'[h] # "free"} \in SUBSET Handles
      OBVIOUS
    <3>2. IsFiniteSet({h \in Handles : obj'[h] = o /\ reg'[h] # "free"})
      BY <3>1, FS_Subset, ScriptObjectsAssumption
    <3> QED BY <3>2, FS_CardinalityType DEF Owed
  <2> QED BY <2>1, <2>2, <2>3, <2>4
<1> QED BY <1>1 DEF CountsAgree

\* One NPObjectAPI ends, and the browser has its reference back.
LEMMA CountsPop ==
  ASSUME IInv, NEW h \in Handles, Pop(h)
  PROVE  CountsAgree'
<1>1. TypeOK /\ CountsAgree /\ obj[h] \in Objs /\ reg[h] = "queued"
  BY DEF IInv, TypeOK, Pop
<1>2. refs[obj[h]] > 0
  BY <1>1, RefsPositive
<1> DEFINE r == [reg EXCEPT ![h] = "free"]
<1>3. r \in [Handles -> Apis \cup Places] /\ \A g \in Handles : r[g] = IF g = h THEN "free" ELSE reg[g]
  BY <1>1 DEF TypeOK, Places
<1>4. ReleaseObject(obj[h], r)
  BY DEF Pop
<1> HIDE DEF r
<1>5. PICK D \in SUBSET Apis : /\ Die(Main, D, r)
        /\ \A p \in Objs : refs'[p] = IF p = obj[h] THEN refs[p] - 1 ELSE refs[p]
  BY <1>1, <1>2, <1>3, <1>4, ReleaseObjectDoes
<1>6. \A g \in Handles : reg'[g] = "free" <=> r[g] = "free"
  <2>1. Main \in Threads /\ TypeOK /\ D \in SUBSET Apis /\ Die(Main, D, r)
    BY <1>1, <1>5 DEF Threads
  <2>2. r \in [Handles -> Apis \cup Places]
    BY <1>3
  <2> QED BY <2>1, <2>2, DieMoves
<1>7. obj' = obj /\ script' = script /\ lost' = lost
  BY DEF Pop
<1>8. ASSUME NEW o \in Objs PROVE refs'[o] = script'[o] + Owed(o)' + lost'[o]
  <2>1. /\ refs[o] = script[o] + Owed(o) + lost[o]
        /\ refs[o] \in Nat /\ script[o] \in Nat /\ lost[o] \in Nat /\ Owed(o) \in Nat
        /\ IsFiniteSet(Used(o)) /\ Owed(o) = Cardinality(Used(o))
    BY <1>1, OwedCounts DEF CountsAgree, TypeOK
  <2>2. CASE o = obj[h]
    <3>1. h \in Used(o)
      BY <1>1, <2>2 DEF Used
    <3>2. {g \in Handles : obj'[g] = o /\ reg'[g] # "free"} = Used(o) \ {h}
      BY <1>3, <1>6, <1>7 DEF Used
    <3>3. Cardinality(Used(o) \ {h}) = Cardinality(Used(o)) - 1
      BY <2>1, <3>1, FS_RemoveElement
    <3>4. Owed(o)' = Owed(o) - 1
      BY <2>1, <3>2, <3>3 DEF Owed
    <3> QED BY <1>5, <1>7, <2>1, <2>2, <3>4
  <2>3. CASE o # obj[h]
    <3>1. {g \in Handles : obj'[g] = o /\ reg'[g] # "free"} = Used(o)
      BY <1>3, <1>6, <1>7, <2>3 DEF Used
    <3>2. Owed(o)' = Owed(o)
      BY <3>1, <2>1 DEF Owed
    <3> QED BY <1>5, <1>7, <2>1, <2>3, <3>2
  <2> QED BY <2>2, <2>3
<1> QED BY <1>8 DEF CountsAgree

\* A new NPObjectAPI takes a reference.
LEMMA CountsRegister ==
  ASSUME IInv, NEW a \in Apis, NEW p \in Objs, NEW h \in Handles, Register(a, p, h)
  PROVE  CountsAgree'
<1>1. TypeOK /\ CountsAgree /\ reg[h] = "free" /\ a # "free"
  BY ScriptObjectsAssumption DEF IInv, Register, Places
<1>2. /\ \A g \in Handles : obj'[g] = IF g = h THEN p ELSE obj[g]
      /\ \A g \in Handles : reg'[g] = IF g = h THEN a ELSE reg[g]
      /\ \A o \in Objs : refs'[o] = IF o = p THEN refs[o] + 1 ELSE refs[o]
      /\ script' = script /\ lost' = lost
  BY <1>1 DEF Register, TypeOK
<1>3. ASSUME NEW o \in Objs PROVE refs'[o] = script'[o] + Owed(o)' + lost'[o]
  <2>1. /\ refs[o] = script[o] + Owed(o) + lost[o]
        /\ refs[o] \in Nat /\ script[o] \in Nat /\ lost[o] \in Nat /\ Owed(o) \in Nat
        /\ IsFiniteSet(Used(o)) /\ Owed(o) = Cardinality(Used(o))
    BY <1>1, OwedCounts DEF CountsAgree, TypeOK
  <2>2. CASE o = p
    <3>1. h \notin Used(o)
      BY <1>1 DEF Used
    <3>2. {g \in Handles : obj'[g] = o /\ reg'[g] # "free"} = Used(o) \cup {h}
      BY <1>1, <1>2, <2>2 DEF Used
    <3>3. Cardinality(Used(o) \cup {h}) = Cardinality(Used(o)) + 1
      BY <2>1, <3>1, FS_AddElement
    <3>4. Owed(o)' = Owed(o) + 1
      BY <2>1, <3>2, <3>3 DEF Owed
    <3> QED BY <1>2, <2>1, <2>2, <3>4
  <2>3. CASE o # p
    <3>1. {g \in Handles : obj'[g] = o /\ reg'[g] # "free"} = Used(o)
      BY <1>1, <1>2, <2>3 DEF Used
    <3>2. Owed(o)' = Owed(o)
      BY <3>1, <2>1 DEF Owed
    <3> QED BY <1>2, <2>1, <2>3, <3>2
  <2> QED BY <2>2, <2>3
<1> QED BY <1>3 DEF CountsAgree

LEMMA CountsKept ==
  ASSUME IInv, [Next]_vars
  PROVE  CountsAgree'
<1>0. /\ TypeOK /\ CountsAgree /\ EndedOnce
      /\ reg \in [Handles -> Apis \cup Places] /\ \A a \in Apis : a # "free"
  BY ScriptObjectsAssumption DEF IInv, TypeOK, Places
<1>o. Apis \subseteq Objs /\ Main \in Threads /\ Workers \subseteq Threads
  BY DEF Objs, Threads
<1>n. ASSUME NEW o \in Objs
      PROVE  refs[o] = script[o] + Owed(o) + lost[o] /\ Owed(o) \in Nat
             /\ refs[o] \in Nat /\ script[o] \in Nat /\ lost[o] \in Nat
  BY <1>0, OwedCounts DEF CountsAgree, TypeOK
<1>1. ASSUME UNCHANGED <<counts, handles>> PROVE CountsAgree'
  BY <1>0, <1>1, CountsStay DEF handles
<1>2. ASSUME NEW t \in Threads, NEW D \in SUBSET Apis, Die(t, D, reg), UNCHANGED <<counts, obj>>
      PROVE  CountsAgree'
  <2>1. \A h \in Handles : reg'[h] = "free" <=> reg[h] = "free"
    BY <1>0, <1>2, DieMoves
  <2> QED BY <1>0, <1>2, <2>1, CountsStay
<1>e. ASSUME NEW t \in Threads, NEW S \in SUBSET Handles, \A h \in S : reg[h] # "free",
             HostEnds(t, S), UNCHANGED <<obj, refs, script>>
      PROVE  CountsAgree'
  <2>1. Lose(S) /\ \A h \in Handles : reg'[h] = "free" <=> h \in S \/ reg[h] = "free"
    BY <1>0, <1>e, HostEndsDoes
  <2> QED BY <1>0, <1>e, <2>1, CountsForget
<1>3. ASSUME NEW a \in Apis, Drop(a) PROVE CountsAgree'
  BY <1>2, <1>3, <1>o DEF Drop
<1>4. ASSUME NEW w \in Workers, NEW a \in Apis, FireEnds(w, a) PROVE CountsAgree'
  BY <1>2, <1>4, <1>o DEF FireEnds
<1>5. CASE FreeRetained \/ DeletePlugin
  BY <1>2, <1>5, <1>o DEF FreeRetained, DeletePlugin
<1>6. ASSUME NEW a \in Apis, GiveOut(a) \/ GiveOutWeak(a) PROVE CountsAgree'
  <2>1. /\ \A o \in Objs : refs'[o] = IF o = a THEN refs[o] + 1 ELSE refs[o]
        /\ \A o \in Objs : script'[o] = IF o = a THEN script[o] + 1 ELSE script[o]
        /\ lost' = lost /\ obj' = obj /\ reg' = reg
    BY <1>0, <1>6 DEF GiveOut, GiveOutWeak, Wrap, TypeOK, handles
  <2>2. \A o \in Objs : Owed(o)' = Owed(o)
    BY <2>1, SameOwed
  <2> QED BY <1>n, <2>1, <2>2 DEF CountsAgree
<1>7. ASSUME NEW p \in Objs, ScriptDrops(p) PROVE CountsAgree'
  <2>1. refs[p] > 0 /\ script[p] > 0 /\ ReleaseObject(p, reg)
    BY <1>0, <1>7, RefsPositive DEF ScriptDrops
  <2>2. PICK D \in SUBSET Apis : /\ Die(Main, D, reg)
          /\ \A o \in Objs : refs'[o] = IF o = p THEN refs[o] - 1 ELSE refs[o]
    BY <1>0, <2>1, ReleaseObjectDoes
  <2>3. \A h \in Handles : reg'[h] = "free" <=> reg[h] = "free"
    BY <1>0, <1>o, <2>2, DieMoves
  <2>4. /\ \A o \in Objs : script'[o] = IF o = p THEN script[o] - 1 ELSE script[o]
        /\ lost' = lost /\ obj' = obj
    BY <1>0, <1>7 DEF ScriptDrops, TypeOK
  <2>5. \A o \in Objs : Owed(o)' = Owed(o)
    BY <2>3, <2>4, SameOwed
  <2> QED BY <1>n, <2>1, <2>2, <2>4, <2>5 DEF CountsAgree
<1>8. ASSUME NEW a \in Apis, NEW p \in Apis, RegisterDead(a, p) PROVE CountsAgree'
  <2>1. /\ \A o \in Objs : refs'[o] = IF o = p THEN refs[o] + 1 ELSE refs[o]
        /\ \A o \in Objs : lost'[o] = IF o = p THEN lost[o] + 1 ELSE lost[o]
        /\ script' = script /\ obj' = obj /\ reg' = reg
    BY <1>0, <1>8 DEF RegisterDead, TypeOK, handles
  <2>2. \A o \in Objs : Owed(o)' = Owed(o)
    BY <2>1, SameOwed
  <2> QED BY <1>n, <2>1, <2>2 DEF CountsAgree
<1>9. ASSUME NEW h \in Handles, Unregister(h) \/ MainLetsGo(h) PROVE CountsAgree'
  <2>1. CASE reg[h] # "free" /\ UNCHANGED <<counts, obj>>
             /\ \E x \in {"none", "queued"} : reg' = [reg EXCEPT ![h] = x]
    BY <1>0, <2>1, CountsStay
  <2>2. CASE MainLetsGo(h) /\ ~HostAlive
    <3>1. /\ Forget({h}) /\ UNCHANGED <<obj, refs, script>> /\ {h} \in SUBSET Handles
          /\ \A g \in {h} : reg[g] # "free"
      BY <2>2 DEF MainLetsGo, Last
    <3> QED BY <1>0, <3>1, ForgetDoes, CountsForget
  <2> QED BY <1>0, <1>9, <2>1, <2>2 DEF Unregister, MainLetsGo, Last, counts
<1>10. ASSUME NEW w \in Workers, NEW h \in Handles, CheckExpired(w, h) PROVE CountsAgree'
  <2>1. CASE HostAlive
    BY <1>1, <1>10, <2>1 DEF CheckExpired, counts, handles
  <2>2. CASE ~HostAlive
    <3>1. /\ Forget({h}) /\ UNCHANGED <<obj, refs, script>> /\ {h} \in SUBSET Handles
          /\ \A g \in {h} : reg[g] # "free"
      BY <1>10, <2>2 DEF CheckExpired, Last
    <3> QED BY <1>0, <3>1, ForgetDoes, CountsForget
  <2> QED BY <2>1, <2>2
<1>11. ASSUME NEW w \in Workers, GetHost(w) PROVE CountsAgree'
  <2>1. CASE HostAlive
    BY <1>1, <1>11, <2>1 DEF GetHost, counts, handles
  <2>2. CASE ~HostAlive
    <3>1. letting[w] \in SUBSET Handles /\ \A h \in letting[w] : reg[h] # "free"
      BY <1>0 DEF EndedOnce, TypeOK
    <3>2. Forget(letting[w]) /\ UNCHANGED <<obj, refs, script>>
      BY <1>11, <2>2 DEF GetHost
    <3> QED BY <1>0, <3>1, <3>2, ForgetDoes, CountsForget
  <2> QED BY <2>1, <2>2
<1>12. ASSUME NEW w \in Workers, DeferredRelease(w) PROVE CountsAgree'
  <2>1. letting[w] \in SUBSET Handles /\ \A h \in letting[w] : reg[h] = "none"
    BY <1>0 DEF EndedOnce, TypeOK
  <2>2. CASE /\ reg' = [h \in Handles |-> IF h \in letting[w] THEN "queued" ELSE reg[h]]
             /\ UNCHANGED lost
    BY <1>0, <1>12, <2>1, <2>2, CountsStay DEF DeferredRelease, counts
  <2>3. CASE HostEnds(w, Queued \cup letting[w])
    <3>1. Queued \cup letting[w] \in SUBSET Handles /\ \A h \in Queued \cup letting[w] : reg[h] # "free"
      BY <2>1 DEF Queued
    <3>2. UNCHANGED <<obj, refs, script>>
      BY <1>12 DEF DeferredRelease
    <3> QED BY <1>e, <1>o, <2>3, <3>1, <3>2
  <2> QED BY <1>12, <2>2, <2>3 DEF DeferredRelease
<1>13. CASE ResetHtml
  <2>1. reg[Html] = "host" /\ reg' = [reg EXCEPT ![Html] = "none"] /\ UNCHANGED <<counts, obj>>
    BY <1>0, <1>13 DEF ResetHtml, EndedOnce
  <2> QED BY <1>0, <2>1, CountsStay
<1>14. CASE DropHost \/ DrainEnds
  <2>1. Queued \in SUBSET Handles /\ (\A h \in Queued : reg[h] # "free") /\ {} \in SUBSET Handles
    BY DEF Queued
  <2>2. CASE UNCHANGED <<lost, reg>>
    BY <1>1, <1>14, <2>2 DEF DropHost, DrainEnds, counts, handles
  <2>3. CASE HostEnds(Main, Queued) \/ HostEnds(Main, {})
    <3>1. UNCHANGED <<obj, refs, script>>
      BY <1>14 DEF DropHost, DrainEnds
    <3>2. PICK S \in SUBSET Handles : HostEnds(Main, S) /\ \A h \in S : reg[h] # "free"
      BY <2>1, <2>3
    <3> QED BY <1>e, <1>o, <3>1, <3>2
  <2> QED BY <1>14, <2>2, <2>3 DEF DropHost, DrainEnds
<1>15. ASSUME NEW a \in Apis, Create(a) PROVE CountsAgree'
  BY <1>1, <1>15 DEF Create
<1>16. ASSUME NEW t \in Threads, NEW h \in Handles, LetCopyGo(t, h) PROVE CountsAgree'
  BY <1>1, <1>16 DEF LetCopyGo
<1>17. ASSUME NEW w \in Workers, NEW a \in Apis, Fire(w, a) PROVE CountsAgree'
  BY <1>1, <1>17 DEF Fire
<1>18. CASE UNCHANGED vars
  BY <1>1, <1>18 DEF vars
<1>19. ASSUME NEW a \in Apis, DrainRetains(a) PROVE CountsAgree'
  BY <1>1, <1>19 DEF DrainRetains
<1> QED
  BY <1>o, <1>3, <1>4, <1>5, <1>6, <1>7, <1>8, <1>9, <1>10, <1>11, <1>12, <1>13, <1>14, <1>15, <1>16, <1>17, <1>18,
     <1>19, CountsPop, CountsRegister
  DEF Next, Page, Finish, Destroy, Worker

-----------------------------------------------------------------------------
(* Every NPObjectAPI ends once.                                            *)

\* A death, and NPObjectAPIs that no thread has and that end, disturb no other.
LEMMA EndedDie ==
  ASSUME TypeOK, EndedOnce, NEW t \in Threads, NEW D \in SUBSET Apis,
         NEW r \in [Handles -> Apis \cup Places],
         \A h \in Handles : r[h] # reg[h] =>
           /\ reg[h] # "host" /\ \A u \in Threads : h \notin held[u]
           /\ \A w \in Workers : h \notin letting'[w],
         Die(t, D, r), \A w \in Workers : letting'[w] \subseteq letting[w],
         phase' \in {"open", "freed"} => phase \in {"open", "freed"}
  PROVE  EndedOnce'
<1>1. /\ \A h \in Handles : reg'[h] = IF r[h] \in D THEN "none" ELSE r[h]
      /\ \A u \in Threads : held'[u] = IF u = t THEN held[t] \cup {h \in Handles : r[h] \in D} ELSE held[u]
      /\ held \in [Threads -> SUBSET Handles] /\ letting \in [Workers -> SUBSET Handles]
  <2>1. held \in [Threads -> SUBSET Handles] /\ letting \in [Workers -> SUBSET Handles]
    BY DEF TypeOK
  <2>2. \A h \in Handles : reg'[h] = IF r[h] \in D THEN "none" ELSE r[h]
    BY DieMoves
  <2>3. \A u \in Threads : held'[u] = IF u = t THEN held[t] \cup {h \in Handles : r[h] \in D} ELSE held[u]
    BY <2>1 DEF Die
  <2> QED BY <2>1, <2>2, <2>3
<1>2. "queued" \notin Apis /\ "none" \notin Apis /\ "host" \notin Apis /\ Html \in Handles
  BY ScriptObjectsAssumption DEF Places
<1>3. ASSUME NEW u \in Threads, NEW h \in held'[u] PROVE reg'[h] \in Apis \cup {"none"}
  <2>1. CASE h \in held[u]
    <3>1. h \in Handles /\ reg[h] \in Apis \cup {"none"} /\ r[h] = reg[h]
      BY <1>1, <2>1 DEF EndedOnce
    <3> QED BY <1>1, <1>2, <3>1
  <2>2. CASE h \in Handles /\ r[h] \in D
    BY <1>1, <2>2
  <2> QED BY <1>1, <1>3, <2>1, <2>2
<1>4. ASSUME NEW w \in Workers, NEW h \in letting'[w]
      PROVE  /\ reg'[h] = "none" /\ \A u \in Threads : h \notin held'[u]
             /\ \A u \in Workers \ {w} : h \notin letting'[u]
  <2>0. h \in letting[w]
    BY <1>4
  <2>1. /\ h \in Handles /\ reg[h] = "none" /\ \A u \in Threads : h \notin held[u]
        /\ \A u \in Workers \ {w} : h \notin letting[u]
    BY <1>1, <2>0 DEF EndedOnce
  <2>2. r[h] = "none"
    BY <1>4, <2>1
  <2>3. reg'[h] = "none" /\ \A u \in Threads : h \notin held'[u]
    <3>1. r[h] \notin D /\ reg'[h] = "none"
      BY <1>1, <1>2, <2>1, <2>2
    <3>2. ASSUME NEW u \in Threads PROVE h \notin held'[u]
      <4>1. h \notin held[u]
        BY <2>1
      <4>2. held'[u] \subseteq held[u] \cup {g \in Handles : r[g] \in D}
        BY <1>1
      <4> QED BY <3>1, <4>1, <4>2
    <3> QED BY <3>1, <3>2
  <2>4. ASSUME NEW u \in Workers \ {w} PROVE h \notin letting'[u]
    <3>1. h \notin letting[u] /\ letting'[u] \subseteq letting[u]
      BY <2>1
    <3> QED BY <3>1
  <2> QED BY <2>3, <2>4
<1>5. phase' \in {"open", "freed"} => reg'[Html] = "host"
  <2>1. ASSUME phase' \in {"open", "freed"} PROVE reg'[Html] = "host"
    <3>1. reg[Html] = "host"
      BY <2>1 DEF EndedOnce
    <3>2. r[Html] = "host"
      BY <1>2, <3>1
    <3> QED BY <1>1, <1>2, <3>2
  <2> QED BY <2>1
<1> QED BY <1>3, <1>4, <1>5 DEF EndedOnce

\* Threads hand NPObjectAPIs on one at a time.
LEMMA EndedOnceKept ==
  ASSUME IInv, [Next]_vars
  PROVE  EndedOnce'
<1>0. /\ TypeOK /\ CountsAgree /\ EndedOnce
      /\ reg \in [Handles -> Apis \cup Places] /\ held \in [Threads -> SUBSET Handles]
      /\ letting \in [Workers -> SUBSET Handles]
  BY DEF IInv, TypeOK
<1>o. Main \in Threads /\ Workers \subseteq Threads /\ Main \notin Workers
  BY ScriptObjectsAssumption DEF Threads
<1>s. /\ "queued" \notin Apis /\ "none" \notin Apis /\ "host" \notin Apis /\ "free" \notin Apis
      /\ Html \in Handles
  BY ScriptObjectsAssumption DEF Places
<1>1. ASSUME NEW t \in Threads, NEW D \in SUBSET Apis, Die(t, D, reg), letting' = letting,
             phase' \in {"open", "freed"} => phase \in {"open", "freed"}
      PROVE  EndedOnce'
  BY <1>0, <1>1, EndedDie
<1>e. ASSUME NEW t \in Threads, NEW S \in SUBSET Handles, HostEnds(t, S), obj' = obj,
             \A h \in S :
               /\ reg[h] \notin {"free", "host"} /\ \A u \in Threads : h \notin held[u]
               /\ \A w \in Workers : h \notin letting'[w],
             \A w \in Workers : letting'[w] \subseteq letting[w],
             phase' \in {"open", "freed"} => phase \in {"open", "freed"}
      PROVE  EndedOnce'
  <2>1. \A h \in S : reg[h] # "free"
    BY <1>e
  <2>2. PICK D \in SUBSET Apis : Die(t, D, Freed(S))
    BY <1>0, <1>e, <2>1, HostEndsDoes
  <2>3. Freed(S) \in [Handles -> Apis \cup Places]
    BY <1>0, <1>e, <2>1, HostEndsDoes
  <2>4. \A h \in Handles : Freed(S)[h] # reg[h] => h \in S
    BY DEF Freed
  <2>5. \A h \in Handles : Freed(S)[h] # reg[h] =>
          /\ reg[h] # "host" /\ \A u \in Threads : h \notin held[u]
          /\ \A w \in Workers : h \notin letting'[w]
    BY <1>e, <2>4
  <2> QED BY <1>0, <1>e, <2>2, <2>3, <2>5, EndedDie
<1>q. /\ Queued \in SUBSET Handles
      /\ \A h \in Queued :
           /\ reg[h] \notin {"free", "host"} /\ \A u \in Threads : h \notin held[u]
           /\ \A w \in Workers : h \notin letting[w]
  BY <1>0, <1>s DEF EndedOnce, Queued
<1>2. ASSUME UNCHANGED <<phase, handles, held, letting>> PROVE EndedOnce'
  BY <1>0, <1>2 DEF EndedOnce, handles
<1>3. ASSUME NEW a \in Apis, Drop(a) PROVE EndedOnce'
  BY <1>1, <1>3, <1>o DEF Drop
<1>4. ASSUME NEW w \in Workers, NEW a \in Apis, FireEnds(w, a) PROVE EndedOnce'
  BY <1>1, <1>4, <1>o DEF FireEnds
<1>5. CASE FreeRetained \/ DeletePlugin
  BY <1>1, <1>5, <1>o DEF FreeRetained, DeletePlugin
<1>6. ASSUME NEW o \in Objs, ScriptDrops(o) PROVE EndedOnce'
  <2>1. refs[o] > 0 /\ ReleaseObject(o, reg)
    BY <1>0, <1>6, RefsPositive DEF ScriptDrops
  <2>2. PICK D \in SUBSET Apis : Die(Main, D, reg)
    BY <1>0, <2>1, ReleaseObjectDoes
  <2> QED BY <1>1, <1>6, <1>o, <2>2 DEF ScriptDrops
<1>7. ASSUME NEW h \in Handles, Pop(h) PROVE EndedOnce'
  <2>1. /\ obj[h] \in Objs /\ reg[h] = "queued" /\ refs[obj[h]] > 0
        /\ ReleaseObject(obj[h], [reg EXCEPT ![h] = "free"])
    BY <1>0, <1>7, RefsPositive DEF Pop, TypeOK
  <2>2. [reg EXCEPT ![h] = "free"] \in [Handles -> Apis \cup Places]
    BY <1>0 DEF Places
  <2>3. PICK D \in SUBSET Apis : Die(Main, D, [reg EXCEPT ![h] = "free"])
    BY <1>0, <2>1, <2>2, ReleaseObjectDoes
  <2>4. \A g \in Handles : [reg EXCEPT ![h] = "free"][g] # reg[g] =>
          /\ reg[g] # "host" /\ \A u \in Threads : g \notin held[u]
          /\ \A w \in Workers : g \notin letting[w]
    BY <1>0, <1>s, <2>1 DEF EndedOnce
  <2>5. letting' = letting /\ phase' = phase
    BY <1>7 DEF Pop
  <2> QED BY <1>0, <1>o, <2>2, <2>3, <2>4, <2>5, EndedDie
<1>8. ASSUME NEW a \in Apis, NEW o \in Objs, NEW h \in Handles, Register(a, o, h) PROVE EndedOnce'
  <2>1. /\ reg[h] = "free" /\ \A g \in Handles : reg'[g] = IF g = h THEN a ELSE reg[g]
        /\ UNCHANGED <<phase, held, letting>>
    BY <1>0, <1>8 DEF Register, threads
  <2>2. \A t \in Threads : h \notin held[t]
    BY <1>0, <1>s, <2>1 DEF EndedOnce
  <2>3. \A w \in Workers : h \notin letting[w]
    BY <1>0, <2>1 DEF EndedOnce
  <2> QED BY <1>0, <1>s, <2>1, <2>2, <2>3 DEF EndedOnce
<1>9. ASSUME NEW h \in Handles, NEW H, \A t \in Threads : held'[t] = IF t = Main THEN held[Main] \cup {h} ELSE held[t],
             reg[h] = H, H \in Apis \cup {"host"}, reg' = [reg EXCEPT ![h] = "none"], letting' = letting,
             phase' \in {"open", "freed"} => phase \in {"open", "freed"} /\ h # Html
      PROVE  EndedOnce'
  <2>1. \A g \in Handles : reg'[g] = IF g = h THEN "none" ELSE reg[g]
    BY <1>0, <1>9
  <2>2. \A w \in Workers : h \notin letting[w]
    BY <1>0, <1>s, <1>9 DEF EndedOnce
  <2>3. \A t \in Threads : \A g \in held'[t] : g \in Handles /\ reg'[g] \in Apis \cup {"none"}
    BY <1>0, <1>9, <2>1 DEF EndedOnce
  <2> QED BY <1>0, <1>9, <1>s, <2>1, <2>2, <2>3 DEF EndedOnce
<1>10. ASSUME NEW h \in Handles, Unregister(h) PROVE EndedOnce'
  <2>1. reg[h] \in Apis /\ phase = "open" /\ phase' = phase /\ letting' = letting
        /\ reg' = [reg EXCEPT ![h] = "none"]
        /\ \A t \in Threads : held'[t] = IF t = Main THEN held[Main] \cup {h} ELSE held[t]
    BY <1>0, <1>10 DEF Unregister
  <2>2. h # Html
    BY <1>0, <1>s, <2>1 DEF EndedOnce
  <2> QED BY <1>9, <2>1, <2>2
<1>11. CASE ResetHtml
  <2>1. reg[Html] = "host" /\ phase' = "shut" /\ letting' = letting
        /\ reg' = [reg EXCEPT ![Html] = "none"]
        /\ \A t \in Threads : held'[t] = IF t = Main THEN held[Main] \cup {Html} ELSE held[t]
    BY <1>0, <1>11 DEF ResetHtml, EndedOnce
  <2> QED BY <1>9, <1>s, <2>1
<1>12. ASSUME NEW t \in Threads, NEW h \in Handles, LetCopyGo(t, h) PROVE EndedOnce'
  <2>1. UNCHANGED <<phase, reg, letting>> /\ \A u \in Threads : held'[u] \subseteq held[u]
    BY <1>0, <1>12 DEF LetCopyGo, handles
  <2> QED BY <1>0, <2>1 DEF EndedOnce
<1>13. ASSUME NEW h \in Handles, MainLetsGo(h), HostAlive PROVE EndedOnce'
  <2>1. /\ \A g \in Handles : reg'[g] = IF g = h THEN "queued" ELSE reg[g]
        /\ \A u \in Threads : held'[u] = IF u = Main THEN held[u] \ {h} ELSE held[u]
        /\ UNCHANGED <<phase, letting>> /\ reg[h] = "none" /\ h \in held[Main]
        /\ \A u \in Threads \ {Main} : h \notin held[u]
    BY <1>0, <1>13 DEF MainLetsGo, Last
  <2>2. \A w \in Workers : h \notin letting[w]
    BY <1>0, <1>o, <2>1 DEF EndedOnce
  <2>3. \A u \in Threads : h \notin held'[u]
    BY <2>1
  <2>4. ASSUME NEW u \in Threads, NEW g \in held'[u]
        PROVE  g \in Handles /\ reg'[g] \in Apis \cup {"none"}
    <3>1. g \in held[u] /\ g # h
      BY <2>1, <2>3, <2>4
    <3>2. g \in Handles /\ reg[g] \in Apis \cup {"none"}
      BY <1>0, <3>1 DEF EndedOnce
    <3> QED BY <2>1, <3>1, <3>2
  <2>5. ASSUME NEW w \in Workers, NEW g \in letting'[w]
        PROVE  /\ reg'[g] = "none" /\ \A u \in Threads : g \notin held'[u]
               /\ \A u \in Workers \ {w} : g \notin letting'[u]
    <3>1. /\ g \in Handles /\ g # h /\ reg[g] = "none" /\ \A u \in Threads : g \notin held[u]
          /\ \A u \in Workers \ {w} : g \notin letting[u]
      BY <1>0, <2>1, <2>2, <2>5 DEF EndedOnce
    <3> QED BY <2>1, <3>1
  <2>6. phase' \in {"open", "freed"} => reg'[Html] = "host"
    BY <1>0, <1>s, <2>1 DEF EndedOnce
  <2> QED BY <2>4, <2>5, <2>6 DEF EndedOnce
<1>14. ASSUME NEW S \in SUBSET Handles, \A h \in S : reg[h] \notin {"free", "host"},
              \A h \in S : \A t \in Threads : h \notin held'[t],
              \A h \in S : \A w \in Workers : h \notin letting'[w],
              \E x \in {"free", "queued"} : reg' = [h \in Handles |-> IF h \in S THEN x ELSE reg[h]],
              \A t \in Threads : held'[t] \subseteq held[t],
              \A w \in Workers : letting'[w] \subseteq letting[w],
              phase' \in {"open", "freed"} => phase \in {"open", "freed"}
       PROVE  EndedOnce'
  <2>1. \A g \in Handles \ S : reg'[g] = reg[g]
    BY <1>14
  <2>2. \A t \in Threads : \A g \in held'[t] : g \in Handles \ S /\ reg[g] \in Apis \cup {"none"}
    BY <1>0, <1>14 DEF EndedOnce
  <2>3. \A w \in Workers : \A g \in letting'[w] :
          /\ g \in Handles \ S /\ reg[g] = "none"
          /\ \A t \in Threads : g \notin held'[t]
          /\ \A u \in Workers \ {w} : g \notin letting'[u]
    BY <1>0, <1>14 DEF EndedOnce
  <2>4. phase' \in {"open", "freed"} => Html \notin S /\ reg[Html] = "host"
    BY <1>0, <1>14 DEF EndedOnce
  <2> QED BY <1>s, <2>1, <2>2, <2>3, <2>4 DEF EndedOnce
<1>f. ASSUME NEW t \in Threads, NEW h \in held[t], reg[h] = "none", \A u \in Threads \ {t} : h \notin held[u],
             held' = [held EXCEPT ![t] = @ \ {h}], Forget({h}), UNCHANGED <<phase, letting>>
      PROVE  EndedOnce'
  <2> DEFINE S == {h}
  <2>1. \A u \in Threads : held'[u] = IF u = t THEN held[u] \ {h} ELSE held[u]
    BY <1>0, <1>f
  <2>2. reg' = [g \in Handles |-> IF g \in S THEN "free" ELSE reg[g]]
    BY <1>f DEF Forget, Freed
  <2>3. h \in Handles /\ \A w \in Workers : h \notin letting[w]
    BY <1>0, <1>f DEF EndedOnce
  <2>4. /\ S \in SUBSET Handles /\ \A g \in S : reg[g] \notin {"free", "host"}
        /\ \A g \in S : \A u \in Threads : g \notin held'[u]
        /\ \A g \in S : \A u \in Workers : g \notin letting'[u]
    BY <1>f, <2>1, <2>3
  <2>5. (\A u \in Threads : held'[u] \subseteq held[u]) /\ \A u \in Workers : letting'[u] \subseteq letting[u]
    BY <1>f, <2>1
  <2> HIDE DEF S
  <2> QED BY <1>14, <1>f, <2>2, <2>4, <2>5
<1>m. ASSUME NEW h \in Handles, MainLetsGo(h), ~HostAlive PROVE EndedOnce'
  BY <1>f, <1>m, <1>o DEF MainLetsGo, Last
<1>15. ASSUME NEW w \in Workers, NEW h \in Handles, CheckExpired(w, h) PROVE EndedOnce'
  <2>1. /\ \A u \in Threads : held'[u] = IF u = w THEN held[u] \ {h} ELSE held[u]
        /\ reg[h] = "none" /\ h \in held[w] /\ phase' = phase
        /\ \A u \in Threads \ {w} : h \notin held[u]
    BY <1>0, <1>15 DEF CheckExpired, Last
  <2>2. \A u \in Workers : h \notin letting[u]
    BY <1>0, <1>o, <2>1 DEF EndedOnce
  <2>3. \A u \in Threads : h \notin held'[u]
    BY <2>1
  <2>4. CASE HostAlive
    <3>1. reg' = reg /\ \A u \in Workers : letting'[u] = IF u = w THEN {h} ELSE letting[u]
      BY <1>0, <1>15, <2>4 DEF CheckExpired
    <3>2. \A u \in Threads : \A g \in held'[u] : g \in Handles /\ g \in held[u] /\ g # h
      BY <1>0, <2>1, <2>3
    <3>3. \A u \in Threads : \A g \in held'[u] : reg'[g] \in Apis \cup {"none"}
      BY <1>0, <3>1, <3>2 DEF EndedOnce
    <3>4. ASSUME NEW v \in Workers, NEW g \in letting'[v]
          PROVE  /\ reg'[g] = "none" /\ \A u \in Threads : g \notin held'[u]
                 /\ \A u \in Workers \ {v} : g \notin letting'[u]
      <4>1. CASE g = h
        BY <2>1, <2>2, <2>3, <3>1, <3>4, <4>1
      <4>2. CASE g # h
        <5>1. g \in letting[v] /\ v # w
          BY <2>2, <3>1, <3>4, <4>2
        <5>2. /\ reg[g] = "none" /\ \A u \in Threads : g \notin held[u]
              /\ \A u \in Workers \ {v} : g \notin letting[u]
          BY <1>0, <5>1 DEF EndedOnce
        <5> QED BY <2>1, <3>1, <3>2, <4>2, <5>2
      <4> QED BY <4>1, <4>2
    <3>5. phase' \in {"open", "freed"} => reg'[Html] = "host"
      BY <1>0, <2>1, <3>1 DEF EndedOnce
    <3> QED BY <3>3, <3>4, <3>5 DEF EndedOnce
  <2>5. CASE ~HostAlive
    <3>1. Forget({h}) /\ letting' = letting /\ held' = [held EXCEPT ![w] = @ \ {h}]
      BY <1>15, <2>5 DEF CheckExpired
    <3> QED BY <1>f, <1>o, <2>1, <3>1
  <2> QED BY <2>4, <2>5
<1>16. ASSUME NEW w \in Workers, GetHost(w) \/ DeferredRelease(w) PROVE EndedOnce'
  <2>1. phase' = phase /\ obj' = obj
    BY <1>16 DEF GetHost, DeferredRelease
  <2>2. \A h \in letting[w] :
          /\ h \in Handles /\ reg[h] = "none"
          /\ \A t \in Threads : h \notin held[t]
          /\ \A u \in Workers \ {w} : h \notin letting[u]
    BY <1>0 DEF EndedOnce
  <2>l. ASSUME \A u \in Workers : letting'[u] = IF u = w THEN {} ELSE letting[u],
               NEW h \in letting[w], NEW u \in Workers
        PROVE  h \notin letting'[u]
    <3>1. CASE u = w
      BY <2>l, <3>1
    <3>2. CASE u # w
      <4>1. h \notin letting[u]
        BY <2>2, <2>l, <3>2
      <4>2. letting'[u] = letting[u]
        BY <2>l, <3>2
      <4> QED BY <4>1, <4>2
    <3> QED BY <3>1, <3>2
  <2>3. CASE UNCHANGED <<reg, letting, held>>
    BY <1>2, <2>1, <2>3 DEF handles
  <2>4. ASSUME letting' = [letting EXCEPT ![w] = {}], held' = held,
               \E x \in {"free", "queued"} : reg' = [h \in Handles |-> IF h \in letting[w] THEN x ELSE reg[h]]
        PROVE  EndedOnce'
    <3>1. \A u \in Workers : letting'[u] = IF u = w THEN {} ELSE letting[u]
      BY <1>0, <2>4
    <3>2. letting[w] \in SUBSET Handles /\ \A h \in letting[w] : reg[h] \notin {"free", "host"}
      BY <1>0, <2>2
    <3>3. \A h \in letting[w] : \A u \in Workers : h \notin letting'[u]
      BY <2>l, <3>1
    <3>4. \A h \in letting[w] : \A t \in Threads : h \notin held'[t]
      BY <2>2, <2>4
    <3> QED BY <1>14, <2>1, <2>4, <3>1, <3>2, <3>3, <3>4
  <2>5. CASE letting' = [letting EXCEPT ![w] = {}] /\ HostEnds(w, Queued \cup letting[w])
    <3>1. \A u \in Workers : letting'[u] = IF u = w THEN {} ELSE letting[u]
      BY <1>0, <2>5
    <3>2. \A h \in letting[w] : \A u \in Workers : h \notin letting'[u]
      BY <2>l, <3>1
    <3>3. \A h \in Queued : \A u \in Workers : h \notin letting'[u]
      BY <1>q, <3>1
    <3>4. Queued \cup letting[w] \in SUBSET Handles
      BY <1>q, <2>2
    <3>5. \A h \in Queued \cup letting[w] :
            /\ reg[h] \notin {"free", "host"} /\ \A u \in Threads : h \notin held[u]
            /\ \A u \in Workers : h \notin letting'[u]
      BY <1>q, <2>2, <3>2, <3>3
    <3>6. \A u \in Workers : letting'[u] \subseteq letting[u]
      BY <3>1
    <3> QED BY <1>e, <1>o, <2>1, <2>5, <3>4, <3>5, <3>6
  <2>6. CASE DeferredRelease(w)
    BY <2>4, <2>5, <2>6 DEF DeferredRelease
  <2>7. CASE GetHost(w)
    BY <2>3, <2>4, <2>7 DEF GetHost, Forget, Freed
  <2> QED BY <1>16, <2>6, <2>7
<1>17. CASE DropHost \/ DrainEnds
  <2>1. /\ letting' = letting /\ obj' = obj
        /\ phase' \in {"open", "freed"} => phase \in {"open", "freed"}
    BY <1>17 DEF DropHost, DrainEnds
  <2>2. CASE UNCHANGED <<reg, held>>
    BY <1>0, <2>1, <2>2 DEF EndedOnce
  <2>3. CASE HostEnds(Main, Queued)
    BY <1>e, <1>o, <1>q, <2>1, <2>3
  <2>4. CASE HostEnds(Main, {})
    BY <1>e, <1>o, <2>1, <2>4
  <2> QED BY <1>17, <2>2, <2>3, <2>4 DEF DropHost, DrainEnds
<1>18. ASSUME NEW w \in Workers, NEW a \in Apis, Fire(w, a) PROVE EndedOnce'
  <2>1. UNCHANGED <<phase, reg, letting>>
        /\ \A t \in Threads : held'[t] = IF t = w THEN Listeners(a) ELSE held[t]
    BY <1>0, <1>o, <1>18 DEF Fire, handles
  <2>2. \A h \in Listeners(a) : reg[h] \in Apis
    BY DEF Listeners
  <2> QED BY <1>0, <1>s, <2>1, <2>2 DEF EndedOnce
<1>19. ASSUME NEW a \in Apis, Create(a) \/ GiveOut(a) \/ GiveOutWeak(a) PROVE EndedOnce'
  BY <1>2, <1>19 DEF Create, GiveOut, GiveOutWeak, threads
<1>20. ASSUME NEW a \in Apis, NEW o \in Apis, RegisterDead(a, o) PROVE EndedOnce'
  BY <1>2, <1>20 DEF RegisterDead, threads
<1>21. CASE UNCHANGED vars
  BY <1>2, <1>21 DEF vars, threads
<1>22. ASSUME NEW a \in Apis, DrainRetains(a) PROVE EndedOnce'
  BY <1>2, <1>22 DEF DrainRetains, threads
<1> QED
  BY <1>o, <1>3, <1>4, <1>5, <1>6, <1>7, <1>8, <1>10, <1>11, <1>12, <1>13, <1>m, <1>15, <1>16, <1>17, <1>18, <1>19,
     <1>20, <1>21, <1>22
  DEF Next, Page, Finish, Destroy, Worker

-----------------------------------------------------------------------------
(* Who is alive.                                                           *)

\* A reference given back takes an object along only if nobody else has it.
LEMMA HeldRelease ==
  ASSUME TypeOK, HeldIsAlive, NEW o \in Objs, refs[o] > 0, NEW r \in [Handles -> Apis \cup Places],
         ReleaseObject(o, r), UNCHANGED <<own, pin>>
  PROVE  HeldIsAlive'
<1>1. PICK D \in SUBSET Apis :
        /\ Die(Main, D, r)
        /\ \A a \in Apis : IF a = o /\ TellsHost(a) /\ retained[a] > 0
                           THEN /\ retained'[a] = retained[a] - 1
                                /\ a \in D <=> retained[a] = 1 /\ ~own[a] /\ ~Pinned(a)
                           ELSE retained'[a] = retained[a] /\ a \notin D
  BY ReleaseObjectDoes
<1>2. \A a \in Apis : live'[a] <=> live[a] /\ a \notin D
  <2>1. Die(Main, D, r) /\ Main \in Threads
    BY <1>1 DEF Threads
  <2> QED BY <2>1, DieMoves
<1>3. ASSUME NEW a \in Apis PROVE live'[a] <=> own'[a] \/ retained'[a] > 0 \/ Pinned(a)'
  <2>1. own'[a] = own[a] /\ (Pinned(a)' <=> Pinned(a)) /\ retained[a] \in Nat
    BY DEF Pinned, TypeOK
  <2>2. live[a] <=> own[a] \/ retained[a] > 0 \/ Pinned(a)
    BY DEF HeldIsAlive
  <2>3. CASE a = o /\ TellsHost(a) /\ retained[a] > 0
    <3>1. retained'[a] = retained[a] - 1
      BY <1>1, <2>3
    <3>2. a \in D <=> retained[a] = 1 /\ ~own[a] /\ ~Pinned(a)
      BY <1>1, <2>3
    <3>3. retained'[a] > 0 <=> retained[a] # 1
      BY <2>1, <2>3, <3>1
    <3> QED BY <1>2, <2>1, <2>2, <2>3, <3>2, <3>3
  <2>4. CASE ~(a = o /\ TellsHost(a) /\ retained[a] > 0)
    <3>1. retained'[a] = retained[a] /\ a \notin D
      BY <1>1, <2>4
    <3> QED BY <1>2, <2>1, <2>2, <3>1
  <2> QED BY <2>3, <2>4
<1> QED BY <1>3 DEF HeldIsAlive

LEMMA HeldKept ==
  ASSUME IInv, [Next]_vars
  PROVE  HeldIsAlive'
<1>0. /\ TypeOK /\ CountsAgree /\ HeldIsAlive
      /\ reg \in [Handles -> Apis \cup Places] /\ retained \in [Apis -> Nat]
      /\ own \in [Apis -> BOOLEAN] /\ pin \in [Workers -> SUBSET Apis]
  BY DEF IInv, TypeOK
<1>o. Main \in Threads /\ Workers \subseteq Threads
  BY DEF Threads
<1>1. ASSUME UNCHANGED <<live, own, retained, pin>> PROVE HeldIsAlive'
  BY <1>0, <1>1 DEF HeldIsAlive, Pinned
<1>e. ASSUME NEW t \in Threads, NEW S \in SUBSET Handles, \A h \in S : reg[h] # "free",
             HostEnds(t, S), UNCHANGED <<obj, own, pin>>
      PROVE  HeldIsAlive'
  <2>1. /\ \A a \in Apis : retained'[a] = 0
        /\ \A a \in Apis : live'[a] <=> live[a] /\ ~(live[a] /\ ~own[a] /\ ~Pinned(a))
    BY <1>0, <1>e, HostEndsDoes
  <2>2. \A a \in Apis : Pinned(a)' <=> Pinned(a)
    BY <1>e DEF Pinned
  <2>3. \A a \in Apis : ~(retained'[a] > 0)
    BY <2>1
  <2> QED BY <1>0, <1>e, <2>1, <2>2, <2>3, Zenon DEF HeldIsAlive
<1>2. ASSUME NEW a \in Apis, Create(a) PROVE HeldIsAlive'
  <2>1. /\ live' = [live EXCEPT ![a] = TRUE] /\ own' = [own EXCEPT ![a] = TRUE]
        /\ UNCHANGED <<retained, pin>>
    BY <1>2 DEF Create, threads
  <2>2. \A b \in Apis : Pinned(b)' <=> Pinned(b)
    BY <2>1 DEF Pinned
  <2>3. /\ live'[a] /\ own'[a] /\ \A b \in Apis \ {a} : (live'[b] <=> live[b]) /\ (own'[b] <=> own[b])
    BY <1>0, <2>1, Zenon DEF TypeOK
  <2> QED BY <1>0, <2>1, <2>2, <2>3, Zenon DEF HeldIsAlive
<1>3. ASSUME NEW a \in Apis, Drop(a) PROVE HeldIsAlive'
  <2>1. /\ Die(Main, {b \in {a} : retained[a] = 0 /\ ~Pinned(a)}, reg)
        /\ own' = [own EXCEPT ![a] = FALSE] /\ UNCHANGED <<retained, pin>>
    BY <1>3 DEF Drop
  <2>2. \A b \in Apis : live'[b] <=> live[b] /\ ~(b = a /\ retained[a] = 0 /\ ~Pinned(a))
    BY SMTT(30), <1>0, <1>o, <2>1, DieMoves
  <2>3. \A b \in Apis : Pinned(b)' <=> Pinned(b)
    BY <2>1 DEF Pinned
  <2>4. ~own'[a] /\ \A b \in Apis \ {a} : own'[b] <=> own[b]
    BY <1>0, <2>1, Zenon
  <2>5. \A b \in Apis : retained[b] > 0 <=> retained[b] # 0
    BY <1>0
  <2> QED BY <1>0, <2>1, <2>2, <2>3, <2>4, <2>5, Zenon DEF HeldIsAlive
<1>4. ASSUME NEW a \in Apis, GiveOut(a) PROVE HeldIsAlive'
  <2>1. /\ \A b \in Apis : retained'[b] = IF b = a THEN retained[b] + 1 ELSE retained[b]
        /\ UNCHANGED <<live, own, pin>>
    BY <1>0, <1>4 DEF GiveOut, threads
  <2>2. own[a]
    BY <1>4 DEF GiveOut
  <2>3. \A b \in Apis : Pinned(b)' <=> Pinned(b)
    BY <2>1 DEF Pinned
  <2>4. \A b \in Apis \ {a} : retained'[b] = retained[b]
    BY <2>1
  <2> QED BY <1>0, <2>1, <2>2, <2>3, <2>4, Zenon DEF HeldIsAlive
<1>5. ASSUME NEW o \in Objs, ScriptDrops(o) PROVE HeldIsAlive'
  <2>1. refs[o] > 0 /\ ReleaseObject(o, reg) /\ UNCHANGED <<own, pin>>
    BY <1>0, <1>5, RefsPositive DEF ScriptDrops
  <2> QED BY <1>0, <2>1, HeldRelease
<1>6. ASSUME NEW h \in Handles, Pop(h) PROVE HeldIsAlive'
  <2>1. /\ obj[h] \in Objs /\ refs[obj[h]] > 0 /\ UNCHANGED <<own, pin>>
        /\ ReleaseObject(obj[h], [reg EXCEPT ![h] = "free"])
    BY <1>0, <1>6, RefsPositive DEF Pop, TypeOK
  <2>2. [reg EXCEPT ![h] = "free"] \in [Handles -> Apis \cup Places]
    BY <1>0 DEF Places
  <2> QED BY <1>0, <2>1, <2>2, HeldRelease
<1>7. ASSUME NEW w \in Workers, NEW a \in Apis, Fire(w, a) PROVE HeldIsAlive'
  <2>1. live[a] /\ pin' = [pin EXCEPT ![w] = {a}] /\ pin[w] = {} /\ UNCHANGED <<live, own, retained>>
    BY <1>7 DEF Fire, apis
  <2>2. \A b \in Apis : Pinned(b)' <=> Pinned(b) \/ b = a
    BY <1>0, <2>1 DEF Pinned
  <2> QED BY <1>0, <2>1, <2>2, Zenon DEF HeldIsAlive
<1>8. ASSUME NEW w \in Workers, NEW a \in Apis, FireEnds(w, a) PROVE HeldIsAlive'
  <2> DEFINE only == ~own[a] /\ retained[a] = 0 /\ \A u \in Workers \ {w} : a \notin pin[u]
  <2>1. /\ Die(w, {b \in {a} : only}, reg) /\ pin' = [pin EXCEPT ![w] = @ \ {a}]
        /\ a \in pin[w] /\ UNCHANGED <<own, retained>>
    BY <1>8 DEF FireEnds
  <2>2. {b \in {a} : only} \in SUBSET Apis /\ w \in Threads
    BY <1>o
  <2> HIDE DEF only
  <2>3. \A b \in Apis : live'[b] <=> live[b] /\ ~(b = a /\ only)
    <3>1. \A b \in Apis : live'[b] <=> live[b] /\ b \notin {c \in {a} : only}
      BY <1>0, <2>1, DieKills
    <3> QED BY <3>1
  <2>4. \A u \in Workers : pin'[u] = IF u = w THEN pin[w] \ {a} ELSE pin[u]
    BY <1>0, <2>1
  <2>5. \A b \in Apis : retained[b] > 0 <=> retained[b] # 0
    BY <1>0
  <2>6. \A b \in Apis : b # a => (Pinned(b)' <=> Pinned(b))
    BY <2>4 DEF Pinned
  <2>7. live'[a] <=> own'[a] \/ retained'[a] > 0 \/ Pinned(a)'
    <3>1. live[a]
      BY <1>0, <2>1 DEF HeldIsAlive, Pinned
    <3>2. Pinned(a)' <=> \E u \in Workers \ {w} : a \in pin[u]
      BY <2>4 DEF Pinned
    <3>3. only <=> ~(own[a] \/ retained[a] > 0 \/ Pinned(a)')
      BY <2>5, <3>2 DEF only
    <3>4. live'[a] <=> ~only
      BY <2>3, <3>1
    <3>5. own'[a] = own[a] /\ retained'[a] = retained[a]
      BY <2>1
    <3> QED BY <3>3, <3>4, <3>5
  <2>8. ASSUME NEW b \in Apis, b # a PROVE live'[b] <=> own'[b] \/ retained'[b] > 0 \/ Pinned(b)'
    <3>1. live'[b] <=> live[b]
      BY <2>3, <2>8
    <3>2. own'[b] = own[b] /\ retained'[b] = retained[b]
      BY <2>1
    <3>3. live[b] <=> own[b] \/ retained[b] > 0 \/ Pinned(b)
      BY <1>0 DEF HeldIsAlive
    <3> QED BY <2>6, <2>8, <3>1, <3>2, <3>3
  <2> QED BY <2>7, <2>8 DEF HeldIsAlive
<1>9. CASE FreeRetained
  <2>1. /\ Die(Main, {a \in Apis : live[a] /\ ~own[a] /\ ~Pinned(a)}, reg)
        /\ \A a \in Apis : retained'[a] = 0
        /\ UNCHANGED <<own, pin>>
    BY <1>9 DEF FreeRetained
  <2>2. {a \in Apis : live[a] /\ ~own[a] /\ ~Pinned(a)} \in SUBSET Apis
    OBVIOUS
  <2>3. \A a \in Apis : live'[a] <=> live[a] /\ ~(live[a] /\ ~own[a] /\ ~Pinned(a))
    BY <1>0, <1>o, <2>1, <2>2, DieMoves
  <2>4. \A a \in Apis : Pinned(a)' <=> Pinned(a)
    BY <2>1 DEF Pinned
  <2>5. \A a \in Apis : ~(retained'[a] > 0)
    BY <2>1
  <2> QED BY <1>0, <2>1, <2>3, <2>4, <2>5, Zenon DEF HeldIsAlive
<1>10. CASE DeletePlugin
  <2>1. /\ Die(Main, {a \in Apis : live[a] /\ retained[a] = 0 /\ ~Pinned(a)}, reg)
        /\ own' = [a \in Apis |-> FALSE] /\ UNCHANGED <<retained, pin>>
    BY <1>10 DEF DeletePlugin
  <2>2. {a \in Apis : live[a] /\ retained[a] = 0 /\ ~Pinned(a)} \in SUBSET Apis
    OBVIOUS
  <2>3. \A a \in Apis : live'[a] <=> live[a] /\ ~(live[a] /\ retained[a] = 0 /\ ~Pinned(a))
    <3>1. \A a \in Apis : live'[a] <=> live[a] /\ a \notin {b \in Apis : live[b] /\ retained[b] = 0 /\ ~Pinned(b)}
      BY <1>0, <2>1, DieKills
    <3> QED BY <3>1, Zenon
  <2>4. \A a \in Apis : (Pinned(a)' <=> Pinned(a)) /\ ~own'[a]
    BY <2>1 DEF Pinned
  <2>5. \A a \in Apis : retained'[a] > 0 <=> retained[a] # 0
    BY <1>0, <2>1
  <2>6. \A a \in Apis : retained[a] > 0 <=> retained[a] # 0
    BY <1>0
  <2> QED BY <1>0, <2>3, <2>4, <2>5, <2>6, Zenon DEF HeldIsAlive
<1>11. ASSUME NEW a \in Apis, GiveOutWeak(a) PROVE HeldIsAlive'
  BY <1>1, <1>11 DEF GiveOutWeak, apis, threads
<1>12. ASSUME NEW a \in Apis, NEW o \in Objs, NEW h \in Handles, Register(a, o, h) PROVE HeldIsAlive'
  BY <1>1, <1>12 DEF Register, apis, threads
<1>13. ASSUME NEW a \in Apis, NEW o \in Apis, RegisterDead(a, o) PROVE HeldIsAlive'
  BY <1>1, <1>13 DEF RegisterDead, apis, threads
<1>14. ASSUME NEW h \in Handles, Unregister(h) \/ MainLetsGo(h) PROVE HeldIsAlive'
  BY <1>1, <1>14 DEF Unregister, MainLetsGo, apis
<1>15. ASSUME NEW t \in Threads, NEW h \in Handles, LetCopyGo(t, h) PROVE HeldIsAlive'
  BY <1>1, <1>15 DEF LetCopyGo, apis
<1>16. ASSUME NEW w \in Workers, NEW h \in Handles, CheckExpired(w, h) PROVE HeldIsAlive'
  BY <1>1, <1>16 DEF CheckExpired, apis
<1>17. ASSUME NEW w \in Workers, GetHost(w) \/ DeferredRelease(w) PROVE HeldIsAlive'
  <2>1. CASE UNCHANGED <<live, retained>>
    BY <1>1, <1>17, <2>1 DEF GetHost, DeferredRelease, apis
  <2>2. CASE DeferredRelease(w) /\ HostEnds(w, Queued \cup letting[w])
    <3>1. UNCHANGED <<obj, own, pin>>
      BY <2>2 DEF DeferredRelease
    <3>2. \A h \in letting[w] : h \in Handles /\ reg[h] = "none"
      BY <1>0 DEF IInv, EndedOnce, TypeOK
    <3>3. Queued \cup letting[w] \in SUBSET Handles /\ \A h \in Queued \cup letting[w] : reg[h] # "free"
      BY <3>2 DEF Queued
    <3> QED BY <1>e, <1>o, <2>2, <3>1, <3>3
  <2> QED BY <1>17, <2>1, <2>2 DEF GetHost, DeferredRelease, apis
<1>18. CASE ResetHtml \/ UNCHANGED vars
  BY <1>1, <1>18 DEF ResetHtml, vars, apis, threads
<1>19. CASE DropHost \/ DrainEnds
  <2>1. UNCHANGED <<obj, own, pin>>
    BY <1>19 DEF DropHost, DrainEnds
  <2>2. CASE UNCHANGED <<live, retained>>
    BY <1>1, <2>1, <2>2
  <2>3. CASE HostEnds(Main, Queued) \/ HostEnds(Main, {})
    <3>1. Queued \in SUBSET Handles /\ (\A h \in Queued : reg[h] # "free") /\ {} \in SUBSET Handles
      BY DEF Queued
    <3>2. PICK S \in SUBSET Handles : HostEnds(Main, S) /\ \A h \in S : reg[h] # "free"
      BY <2>3, <3>1
    <3> QED BY <1>e, <1>o, <2>1, <3>2
  <2> QED BY <1>19, <2>2, <2>3 DEF DropHost, DrainEnds
<1>20. ASSUME NEW a \in Apis, DrainRetains(a) PROVE HeldIsAlive'
  <2>1. /\ \A b \in Apis : retained'[b] = IF b = a THEN retained[b] + 1 ELSE retained[b]
        /\ UNCHANGED <<live, own, pin>> /\ live[a]
    BY <1>0, <1>20 DEF DrainRetains, threads
  <2>2. retained'[a] > 0
    BY <1>0, <2>1
  <2>3. \A b \in Apis : Pinned(b)' <=> Pinned(b)
    BY <2>1 DEF Pinned
  <2>4. \A b \in Apis \ {a} : retained'[b] = retained[b]
    BY <2>1
  <2> QED BY <1>0, <2>1, <2>2, <2>3, <2>4, Zenon DEF HeldIsAlive
<1> QED
  BY <1>o, <1>2, <1>3, <1>4, <1>5, <1>6, <1>7, <1>8, <1>9, <1>10, <1>11, <1>12, <1>13, <1>14, <1>15, <1>16, <1>17, <1>18,
     <1>19, <1>20
  DEF Next, Page, Finish, Destroy, Worker
-----------------------------------------------------------------------------
(* What was given out, and what is lost.                                   *)

\* The gens of an address only grow.
LEMMA WrappedKept ==
  ASSUME TypeOK, WrappedExisted, [Next]_vars
  PROVE  WrappedExisted'
<1>0. gen \in [Apis -> Nat] /\ wrapped \in [Apis -> Nat] /\ \A a \in Apis : wrapped[a] <= gen[a]
  BY DEF TypeOK, WrappedExisted
<1>1. ASSUME UNCHANGED <<gen, wrapped>> PROVE WrappedExisted'
  BY <1>0, <1>1 DEF WrappedExisted
<1>2. ASSUME NEW a \in Apis, Create(a) PROVE WrappedExisted'
  <2>1. wrapped' = wrapped /\ \A b \in Apis : gen'[b] = IF b = a THEN gen[b] + 1 ELSE gen[b]
    BY <1>0, <1>2 DEF Create, wrappers
  <2> QED BY <1>0, <2>1 DEF WrappedExisted
<1>3. ASSUME NEW a \in Apis, GiveOut(a) \/ GiveOutWeak(a) PROVE WrappedExisted'
  <2>1. gen' = gen /\ \A b \in Apis : wrapped'[b] \in {wrapped[b], gen[b]}
    BY <1>0, <1>3 DEF GiveOut, GiveOutWeak, Wrap, apis
  <2> QED BY <1>0, <2>1 DEF WrappedExisted
<1>4. ASSUME NEW o \in Objs, ScriptDrops(o) PROVE WrappedExisted'
  BY <1>1, <1>4 DEF ScriptDrops, wrappers
<1>5. ASSUME NEW a \in Apis, Drop(a) PROVE WrappedExisted'
  BY <1>1, <1>5 DEF Drop, wrappers
<1>6. ASSUME NEW a \in Apis, NEW o \in Objs, NEW h \in Handles, Register(a, o, h) PROVE WrappedExisted'
  BY <1>1, <1>6 DEF Register, wrappers, apis
<1>7. ASSUME NEW a \in Apis, NEW o \in Apis, RegisterDead(a, o) PROVE WrappedExisted'
  BY <1>1, <1>7 DEF RegisterDead, wrappers, apis
<1>8. ASSUME NEW h \in Handles, Unregister(h) \/ MainLetsGo(h) \/ Pop(h) PROVE WrappedExisted'
  BY <1>1, <1>8 DEF Unregister, MainLetsGo, Pop, wrappers, apis
<1>9. ASSUME NEW t \in Threads, NEW h \in Handles, LetCopyGo(t, h) PROVE WrappedExisted'
  BY <1>1, <1>9 DEF LetCopyGo, wrappers, apis
<1>10. ASSUME NEW w \in Workers, NEW h \in Handles, CheckExpired(w, h) PROVE WrappedExisted'
  BY <1>1, <1>10 DEF CheckExpired, wrappers, apis
<1>15. ASSUME NEW a \in Apis, DrainRetains(a) PROVE WrappedExisted'
  BY <1>1, <1>15 DEF DrainRetains, wrappers
<1>11. ASSUME NEW w \in Workers, GetHost(w) \/ DeferredRelease(w) PROVE WrappedExisted'
  BY <1>1, <1>11 DEF GetHost, DeferredRelease, wrappers, apis
<1>12. ASSUME NEW w \in Workers, NEW a \in Apis, Fire(w, a) \/ FireEnds(w, a) PROVE WrappedExisted'
  BY <1>1, <1>12 DEF Fire, FireEnds, wrappers, apis
<1>13. CASE FreeRetained \/ ResetHtml \/ DeletePlugin \/ DropHost
  BY <1>1, <1>13 DEF FreeRetained, ResetHtml, DeletePlugin, DropHost, wrappers, apis
<1>14. CASE DrainEnds \/ UNCHANGED vars
  BY <1>1, <1>14 DEF DrainEnds, vars, wrappers, apis
<1> QED
  BY <1>2, <1>3, <1>4, <1>5, <1>6, <1>7, <1>8, <1>9, <1>10, <1>11, <1>12, <1>13, <1>14, <1>15
  DEF Next, Page, Finish, Destroy, Worker, Threads

\* What GivenIsRetained and LostOnlyAtTheEnd say of one address.
GivenKeeps(a) == given[a] /\ refs[a] > 0 => retained[a] > 0 /\ gen[a] = wrapped[a]
LostIsDead(a) == lost[a] > 0 => ~given[a] /\ ~ApiAlive(a)

LEMMA OpenMeans ==
  (phase = "open" => (\A a \in Apis : GivenKeeps(a) /\ LostIsDead(a)) /\ \A o \in Scripts : ~(lost[o] > 0))
    <=> GivenIsRetained /\ LostOnlyAtTheEnd
BY ScriptObjectsAssumption DEF GivenKeeps, LostIsDead, GivenIsRetained, LostOnlyAtTheEnd, Objs

LEMMA OpenMeansNext ==
  (phase' = "open" => (\A a \in Apis : GivenKeeps(a)' /\ LostIsDead(a)') /\ \A o \in Scripts : ~(lost'[o] > 0))
    <=> GivenIsRetained' /\ LostOnlyAtTheEnd'
BY ScriptObjectsAssumption DEF GivenKeeps, LostIsDead, GivenIsRetained, LostOnlyAtTheEnd, Objs

\* A reference given back: if it was the last, nobody has the wrapper.
LEMMA GivenRelease ==
  ASSUME TypeOK, NEW o \in Objs, refs[o] > 0, NEW r \in [Handles -> Apis \cup Places],
         ReleaseObject(o, r), UNCHANGED <<gen, wrapped, given, lost>>,
         NEW a \in Apis, GivenKeeps(a), LostIsDead(a)
  PROVE  GivenKeeps(a)' /\ LostIsDead(a)'
<1>1. PICK D \in SUBSET Apis :
        /\ Die(Main, D, r)
        /\ \A p \in Objs : refs'[p] = IF p = o THEN refs[p] - 1 ELSE refs[p]
        /\ \A b \in Apis : ~(b = o /\ TellsHost(b) /\ retained[b] > 0) => retained'[b] = retained[b]
  BY ReleaseObjectDoes
<1>2. refs[a] \in Nat /\ refs'[a] = IF a = o THEN refs[a] - 1 ELSE refs[a]
  BY <1>1 DEF TypeOK, Objs
<1>3. live'[a] => live[a]
  BY <1>1, DieKills
<1>4. refs'[a] > 0 => refs[a] > 0 /\ retained'[a] = retained[a]
  BY <1>1, <1>2 DEF TellsHost
<1>5. GivenKeeps(a)'
  BY <1>4 DEF GivenKeeps
<1>6. LostIsDead(a)'
  BY <1>3 DEF LostIsDead, ApiAlive
<1> QED BY <1>5, <1>6
LEMMA GivenKept ==
  ASSUME IInv, [Next]_vars
  PROVE  GivenIsRetained' /\ LostOnlyAtTheEnd'
<1> SUFFICES ASSUME phase' = "open"
             PROVE  (\A a \in Apis : GivenKeeps(a)' /\ LostIsDead(a)') /\ \A o \in Scripts : ~(lost'[o] > 0)
  BY OpenMeansNext
<1> DEFINE Goal == (\A a \in Apis : GivenKeeps(a)' /\ LostIsDead(a)') /\ \A o \in Scripts : ~(lost'[o] > 0)
<1>t. /\ TypeOK /\ CountsAgree /\ HeldIsAlive /\ WrappedExisted
      /\ gen \in [Apis -> Nat] /\ wrapped \in [Apis -> Nat] /\ retained \in [Apis -> Nat]
      /\ given \in [Apis -> BOOLEAN] /\ refs \in [Objs -> Nat] /\ lost \in [Objs -> Nat]
      /\ script \in [Objs -> Nat] /\ live \in [Apis -> BOOLEAN]
  BY DEF IInv, TypeOK
<1>f. CASE FreeRetained \/ ResetHtml \/ DeletePlugin \/ DropHost \/ \E a \in Apis : DrainRetains(a)
  BY <1>f DEF FreeRetained, ResetHtml, DeletePlugin, DropHost, DrainRetains
<1>g. CASE ~(FreeRetained \/ ResetHtml \/ DeletePlugin \/ DropHost \/ \E a \in Apis : DrainRetains(a))
  <2>p. phase = "open" /\ HostAlive
    <3>1. phase' = phase
      BY <1>g DEF Next, Page, Finish, Destroy, Worker, Create, Drop, GiveOut, GiveOutWeak, ScriptDrops, Register,
         RegisterDead, Unregister, LetCopyGo, MainLetsGo, Pop, DrainEnds, CheckExpired, GetHost, DeferredRelease,
         Fire, FireEnds, vars
    <3> QED BY <3>1 DEF HostAlive
  <2>k. (\A a \in Apis : GivenKeeps(a) /\ LostIsDead(a)) /\ \A o \in Scripts : ~(lost[o] > 0)
    BY <2>p, OpenMeans DEF IInv
  <2>1. ASSUME UNCHANGED <<gen, wrapped, given, refs, retained, lost>>, \A a \in Apis : live'[a] => live[a]
        PROVE  Goal
    BY <2>k, <2>1 DEF GivenKeeps, LostIsDead, ApiAlive
  <2>2. ASSUME NEW a \in Apis, Create(a) PROVE Goal
    <3>1. /\ UNCHANGED <<wrapped, given, refs, retained, lost>> /\ ~live[a]
          /\ gen' = [gen EXCEPT ![a] = @ + 1] /\ live' = [live EXCEPT ![a] = TRUE]
      BY <2>2 DEF Create, wrappers, counts
    <3>2. ~(given[a] /\ refs[a] > 0)
      BY <1>t, <2>k, <3>1 DEF GivenKeeps, HeldIsAlive
    <3>3. gen'[a] # wrapped'[a]
      BY <1>t, <3>1 DEF WrappedExisted
    <3>4. ~(given'[a] /\ refs'[a] > 0)
      BY <3>1, <3>2
    <3>5. LostIsDead(a)'
      BY <2>k, <3>1, <3>3 DEF LostIsDead, ApiAlive
    <3>6. ASSUME NEW b \in Apis, b # a PROVE GivenKeeps(b)' /\ LostIsDead(b)'
      <4>1. gen'[b] = gen[b] /\ (live'[b] <=> live[b])
        BY <1>t, <3>1, <3>6, Zenon
      <4> QED BY <2>k, <3>1, <4>1 DEF GivenKeeps, LostIsDead, ApiAlive
    <3>7. GivenKeeps(a)'
      BY <3>4 DEF GivenKeeps
    <3> QED BY <2>k, <3>1, <3>5, <3>6, <3>7
  <2>w. ASSUME NEW a \in Apis, NEW strong \in BOOLEAN, Wrap(a, strong), UNCHANGED <<live, gen, lost>>,
               \A b \in Apis \ {a} : retained'[b] = retained[b],
               strong => retained'[a] > 0,
               retained[a] > 0 => retained'[a] > 0
        PROVE  Goal
    <3>1. a \in Objs /\ (lost[a] > 0 => refs[a] > 0)
      BY <1>t, RefsPositive DEF Objs
    <3>2. \A b \in Apis \ {a} : b \in Objs /\ refs'[b] = refs[b] /\ wrapped'[b] = wrapped[b] /\ given'[b] = given[b]
      BY <1>t, <2>w DEF Wrap, Objs
    <3>3. ASSUME NEW b \in Apis, b # a PROVE GivenKeeps(b)' /\ LostIsDead(b)'
      BY <2>k, <2>w, <3>2, <3>3 DEF GivenKeeps, LostIsDead, ApiAlive
    <3>4. CASE refs[a] > 0
      <4>1. wrapped' = wrapped /\ (given'[a] <=> given[a] \/ (strong /\ ApiAlive(a)))
        BY <1>t, <2>w, <3>4 DEF Wrap
      <4>2. ApiAlive(a)' <=> ApiAlive(a)
        BY <2>w, <4>1 DEF ApiAlive
      <4>3. LostIsDead(a)'
        BY <2>k, <2>w, <4>1, <4>2 DEF LostIsDead
      <4>4. given[a] => retained[a] > 0 /\ gen[a] = wrapped[a]
        BY <2>k, <3>4 DEF GivenKeeps
      <4>5. GivenKeeps(a)'
        BY <2>w, <4>1, <4>4 DEF GivenKeeps, ApiAlive
      <4> QED BY <2>k, <2>w, <3>3, <4>3, <4>5
    <3>5. CASE ~(refs[a] > 0)
      <4>1. wrapped'[a] = gen[a] /\ given'[a] = strong
        BY <1>t, <2>w, <3>5 DEF Wrap
      <4>2. GivenKeeps(a)'
        BY <2>w, <4>1 DEF GivenKeeps
      <4>3. LostIsDead(a)'
        BY <2>w, <3>1, <3>5 DEF LostIsDead
      <4> QED BY <2>k, <2>w, <3>3, <4>2, <4>3
    <3> QED BY <3>4, <3>5
  <2>3. ASSUME NEW a \in Apis, GiveOut(a) PROVE Goal
    <3>1. /\ Wrap(a, TRUE) /\ UNCHANGED <<live, gen, lost>>
          /\ \A b \in Apis : retained'[b] = IF b = a THEN retained[b] + 1 ELSE retained[b]
      BY <1>t, <2>3 DEF GiveOut
    <3>2. retained'[a] > 0 /\ \A b \in Apis \ {a} : retained'[b] = retained[b]
      BY <1>t, <3>1
    <3> QED BY <2>w, <3>1, <3>2
  <2>4. ASSUME NEW a \in Apis, GiveOutWeak(a) PROVE Goal
    <3>1. Wrap(a, FALSE) /\ UNCHANGED <<live, gen, lost, retained>>
      BY <2>4 DEF GiveOutWeak, apis
    <3> QED BY <2>w, <3>1
  <2>r. ASSUME NEW o \in Objs, refs[o] > 0, NEW r \in [Handles -> Apis \cup Places], ReleaseObject(o, r),
               UNCHANGED <<gen, wrapped, given, lost>>
        PROVE  Goal
    <3>1. ASSUME NEW a \in Apis PROVE GivenKeeps(a)' /\ LostIsDead(a)'
      BY <1>t, <2>k, <2>r, <3>1, GivenRelease
    <3> QED BY <2>k, <2>r, <3>1
  <2>5. ASSUME NEW o \in Objs, ScriptDrops(o) PROVE Goal
    <3>1. refs[o] > 0 /\ ReleaseObject(o, reg) /\ UNCHANGED <<gen, wrapped, given, lost>>
      BY <1>t, <2>5, RefsPositive DEF ScriptDrops, wrappers
    <3>2. reg \in [Handles -> Apis \cup Places]
      BY <1>t DEF TypeOK
    <3> QED BY <2>r, <3>1, <3>2
  <2>6. ASSUME NEW h \in Handles, Pop(h) PROVE Goal
    <3>1. /\ obj[h] \in Objs /\ refs[obj[h]] > 0 /\ UNCHANGED <<gen, wrapped, given, lost>>
          /\ ReleaseObject(obj[h], [reg EXCEPT ![h] = "free"])
      BY <1>t, <2>6, RefsPositive DEF Pop, TypeOK, wrappers
    <3>2. [reg EXCEPT ![h] = "free"] \in [Handles -> Apis \cup Places]
      BY <1>t DEF TypeOK, Places
    <3> QED BY <2>r, <3>1, <3>2
  <2>7. ASSUME NEW a \in Apis, NEW o \in Objs, NEW h \in Handles, Register(a, o, h) PROVE Goal
    <3>1. /\ UNCHANGED <<live, gen, retained, wrapped, given, lost>> /\ refs[o] > 0
          /\ \A p \in Objs : refs'[p] = IF p = o THEN refs[p] + 1 ELSE refs[p]
      BY <1>t, <2>7, RefsPositive DEF Register, apis, wrappers
    <3>2. \A b \in Apis : refs'[b] > 0 => refs[b] > 0
      BY <3>1 DEF Objs
    <3> QED BY <2>k, <3>1, <3>2 DEF GivenKeeps, LostIsDead, ApiAlive
  <2>8. ASSUME NEW a \in Apis, NEW o \in Apis, RegisterDead(a, o) PROVE Goal
    <3>1. /\ UNCHANGED <<live, gen, retained, wrapped, given>> /\ ~ApiAlive(o) /\ o \in Objs /\ refs[o] > 0
          /\ \A p \in Objs : refs'[p] = IF p = o THEN refs[p] + 1 ELSE refs[p]
          /\ \A p \in Objs : lost'[p] = IF p = o THEN lost[p] + 1 ELSE lost[p]
      BY <1>t, <2>8, RefsPositive DEF RegisterDead, apis, wrappers, Objs
    <3>2. \A b \in Apis : refs'[b] > 0 => refs[b] > 0
      BY <3>1 DEF Objs
    <3>3. ~given[o]
      BY <1>t, <2>k, <3>1 DEF GivenKeeps, HeldIsAlive, ApiAlive
    <3>4. \A b \in Apis : GivenKeeps(b)'
      BY <2>k, <3>1, <3>2 DEF GivenKeeps
    <3>5. \A b \in Apis : lost'[b] > 0 => b = o \/ lost[b] > 0
      BY <3>1 DEF Objs
    <3>6. \A b \in Apis : LostIsDead(b)'
      BY <2>k, <3>1, <3>3, <3>5 DEF LostIsDead, ApiAlive
    <3>7. \A p \in Scripts : lost'[p] = lost[p]
      BY <3>1, ScriptObjectsAssumption DEF Objs
    <3> QED BY <2>k, <3>4, <3>6, <3>7
  <2>9. ASSUME NEW a \in Apis, Drop(a) PROVE Goal
    <3>1. UNCHANGED <<gen, wrapped, given, refs, retained, lost>>
      BY <2>9 DEF Drop, wrappers, counts
    <3>2. \A b \in Apis : live'[b] => live[b]
      BY <1>t, <2>9, DieKills DEF Drop
    <3> QED BY <2>1, <3>1, <3>2
  <2>10. ASSUME NEW w \in Workers, NEW a \in Apis, FireEnds(w, a) PROVE Goal
    <3>1. UNCHANGED <<gen, wrapped, given, refs, retained, lost>>
      BY <2>10 DEF FireEnds, wrappers, counts
    <3>2. \A b \in Apis : live'[b] => live[b]
      BY <1>t, <2>10, DieKills DEF FireEnds
    <3> QED BY <2>1, <3>1, <3>2
  <2>s. ASSUME UNCHANGED <<apis, wrappers, counts>> PROVE Goal
    BY <2>1, <2>s DEF apis, wrappers, counts
  <2>11. ASSUME NEW w \in Workers, NEW a \in Apis, Fire(w, a) PROVE Goal
    BY <2>s, <2>11 DEF Fire
  <2>12. ASSUME NEW h \in Handles, Unregister(h) \/ MainLetsGo(h) PROVE Goal
    BY <2>p, <2>s, <2>12 DEF Unregister, MainLetsGo, counts
  <2>13. ASSUME NEW t \in Threads, NEW h \in Handles, LetCopyGo(t, h) PROVE Goal
    BY <2>s, <2>13 DEF LetCopyGo
  <2>14. ASSUME NEW w \in Workers, NEW h \in Handles, CheckExpired(w, h) PROVE Goal
    BY <2>p, <2>s, <2>14 DEF CheckExpired, counts
  <2>15. ASSUME NEW w \in Workers, GetHost(w) \/ DeferredRelease(w) PROVE Goal
    BY <2>p, <2>s, <2>15 DEF GetHost, DeferredRelease, apis, counts
  <2>16. ASSUME DrainEnds \/ UNCHANGED vars PROVE Goal
    BY <2>p, <2>s, <2>16 DEF DrainEnds, vars, apis, counts
  <2> HIDE DEF Goal
  <2>17. ASSUME Page PROVE Goal
    BY <2>2, <2>3, <2>4, <2>5, <2>7, <2>8, <2>9, <2>12, <2>17, Zenon DEF Page
  <2>18. ASSUME Finish PROVE Goal
    <3>1. Main \in Threads
      BY DEF Threads
    <3> QED BY <2>6, <2>12, <2>13, <2>16, <2>18, <3>1, Zenon DEF Finish
  <2>19. ASSUME NEW w \in Workers, Worker(w) \/ \E a \in Apis : Fire(w, a) PROVE Goal
    <3>1. w \in Threads
      BY DEF Threads
    <3>2. ASSUME Worker(w) PROVE Goal
      BY <2>10, <2>13, <2>14, <2>15, <3>1, <3>2, Zenon DEF Worker
    <3> QED BY <2>11, <2>19, <3>2
  <2>20. Goal
    BY <1>g, <2>16, <2>17, <2>18, <2>19 DEF Next, Destroy
  <2> QED BY <2>20 DEF Goal
<1> QED BY <1>f, <1>g

-----------------------------------------------------------------------------
(* The theorems.                                                           *)

LEMMA InitIsGood ==
  Init => IInv
<1> SUFFICES ASSUME Init PROVE IInv
  OBVIOUS
<1>1. TypeOK
  BY ScriptObjectsAssumption DEF Init, TypeOK, Objs, Threads, Places
<1>2. EndedOnce
  BY ScriptObjectsAssumption DEF Init, EndedOnce, Threads
<1>3. HeldIsAlive
  BY DEF Init, HeldIsAlive, Pinned
<1>4. GivenIsRetained /\ WrappedExisted /\ LostOnlyAtTheEnd
  BY ScriptObjectsAssumption DEF Init, GivenIsRetained, WrappedExisted, LostOnlyAtTheEnd, Objs
<1>5. CountsAgree
  <2>1. ASSUME NEW o \in Objs PROVE refs[o] = script[o] + Owed(o) + lost[o]
    <3>1. Window \in Objs /\ Html \in Handles
      BY ScriptObjectsAssumption DEF Objs
    <3>2. CASE o = Window
      <4>1. {h \in Handles : obj[h] = o /\ reg[h] # "free"} = {Html}
        BY <3>1, <3>2 DEF Init
      <4>2. Owed(o) = 1
        BY <4>1, FS_Singleton DEF Owed
      <4>3. refs[o] = 2 /\ script[o] = 1 /\ lost[o] = 0
        BY <3>1, <3>2, ScriptObjectsAssumption DEF Init
      <4> QED BY <4>2, <4>3
    <3>3. CASE o # Window
      <4>1. {h \in Handles : obj[h] = o /\ reg[h] # "free"} = {}
        BY <3>3 DEF Init
      <4>2. Owed(o) = 0
        BY <4>1, FS_EmptySet DEF Owed
      <4>3. refs[o] = script[o] /\ lost[o] = 0 /\ script[o] \in Nat
        BY <3>3 DEF Init
      <4> QED BY <4>2, <4>3
    <3> QED BY <3>2, <3>3
  <2> QED BY <2>1 DEF CountsAgree
<1> QED BY <1>1, <1>2, <1>3, <1>4, <1>5 DEF IInv

LEMMA StepIsGood ==
  IInv /\ [Next]_vars => IInv'
<1> SUFFICES ASSUME IInv, [Next]_vars PROVE IInv'
  OBVIOUS
<1>1. TypeOK'
  BY TypesKept DEF IInv
<1>2. CountsAgree'
  BY CountsKept DEF IInv
<1>3. EndedOnce'
  BY EndedOnceKept DEF IInv
<1>4. HeldIsAlive'
  BY HeldKept
<1>5. WrappedExisted'
  BY WrappedKept DEF IInv
<1>6. GivenIsRetained' /\ LostOnlyAtTheEnd'
  BY GivenKept
<1> QED BY <1>1, <1>2, <1>3, <1>4, <1>5, <1>6 DEF IInv

\* The inductive invariant: who counts, holds and has been given which object.
THEOREM InvariantHolds == Spec => []IInv
BY InitIsGood, StepIsGood, PTL DEF Spec

\* The variables keep their types.
THEOREM TypesHold == Spec => []TypeOK
<1>1. IInv => TypeOK
  BY DEF IInv
<1> QED BY <1>1, InvariantHolds, PTL

\* No reference is given back twice, whichever threads the NPObjectAPIs end
\* on (NPObjectAPI.cpp:27-50, NpapiBrowserHost.cpp:179-207).
THEOREM CountsHold == Spec => []CountsAgree
<1>1. IInv => CountsAgree
  BY DEF IInv
<1> QED BY <1>1, InvariantHolds, PTL

\* While the page is open a reference is lost only to a wrapper whose object
\* is gone (NPObjectAPI.cpp:32-35).
THEOREM LossesHold == Spec => []LostOnlyAtTheEnd
<1>1. IInv => LostOnlyAtTheEnd
  BY DEF IInv
<1> QED BY <1>1, InvariantHolds, PTL

\* A plugin object that was given out lives as long as its wrapper
\* (NPVariantUtil.h:211, NPJavascriptObject.cpp:48-55).
THEOREM GivenObjectsLive == Spec => []GivenIsAlive
<1>1. IInv => GivenIsAlive
  BY DEF IInv, GivenIsAlive, GivenIsRetained, HeldIsAlive, ApiAlive
<1> QED BY <1>1, InvariantHolds, PTL
=============================================================================
