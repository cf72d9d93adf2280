------------------------- MODULE StatsWindowsProofs -------------------------
(***************************************************************************)
(* Theorems about StatsWindows, for any number of windows, of overlapping   *)
(* calls of Expire and of requests, however late.                          *)
(***************************************************************************)
EXTENDS StatsWindows, Sums

\* The items hold numbers, and the threshold a call of Expire has read is never
\* younger than the clock allows: the clock only goes on while it waits.
ThresholdInv ==
    /\ now \in Nat
    /\ map \in [DOMAIN map -> [Decisions -> Int]] /\ DOMAIN map \subseteq Times
    /\ \A e \in Expirers : threshold[e] \in Int /\ threshold[e] <= now - NumWindows
    /\ threshold \in [Expirers -> Int]

LEMMA ItemTyped ==
    ASSUME ThresholdInv, NEW t, NEW d \in Decisions
    PROVE  CountedIn(t, d) \in [Decisions -> Int]
<1>1. ItemOf(t) \in [Decisions -> Int]
  BY DEF ItemOf, NoCounts, ThresholdInv
<1> QED
  BY <1>1 DEF CountedIn

LEMMA ThresholdInvInit == Init => ThresholdInv
<1> SUFFICES ASSUME Init PROVE ThresholdInv
  OBVIOUS
<1>1. DOMAIN map = {}
  BY DEF Init
<1>2. NoCall \in Int /\ NoCall <= 0 - NumWindows
  BY SizeAssumption DEF NoCall
<1> QED
  BY <1>1, <1>2, SizeAssumption DEF Init, ThresholdInv

LEMMA ThresholdInvStep == ThresholdInv /\ [Next]_vars => ThresholdInv'
<1> SUFFICES ASSUME ThresholdInv, [Next]_vars PROVE ThresholdInv'
  OBVIOUS
<1>1. ASSUME NEW t \in Times, NEW d \in Decisions, Add(t, d) PROVE ThresholdInv'
  <2>1. \A s \in DOMAIN map : map[s] \in [Decisions -> Int]
    BY DEF ThresholdInv
  <2>2. map' \in [DOMAIN map \cup {t} -> [Decisions -> Int]]
    BY <1>1, <2>1, ItemTyped DEF Add
  <2>3. DOMAIN map' = DOMAIN map \cup {t}
    BY <1>1 DEF Add
  <2> QED
    BY <1>1, <2>2, <2>3 DEF Add, ThresholdInv
<1>2. ASSUME NEW e \in Expirers, StartExpire(e) PROVE ThresholdInv'
  BY <1>2, SizeAssumption DEF StartExpire, ThresholdInv
<1>3. ASSUME NEW e \in Expirers, Expire(e) PROVE ThresholdInv'
  <2>1. PICK S : S \subseteq DOMAIN map /\ map' = [t \in S |-> map[t]]
    BY <1>3 DEF Expire, Restrict
  <2>2. map' \in [S -> [Decisions -> Int]] /\ DOMAIN map' = S
    BY <2>1 DEF ThresholdInv
  <2>3. NoCall \in Int /\ NoCall <= now - NumWindows
    BY SizeAssumption DEF NoCall, ThresholdInv
  <2> QED
    BY <1>3, <2>1, <2>2, <2>3 DEF Expire, ThresholdInv
<1>4. CASE Tick
  BY <1>4, SizeAssumption DEF Tick, ThresholdInv
<1>5. CASE UNCHANGED vars
  BY <1>5 DEF vars, ThresholdInv
<1> QED
  BY <1>1, <1>2, <1>3, <1>4, <1>5 DEF Next

\* What a step does to an item that has not outlived its time.
Grows(t) == t \in DOMAIN map' /\ \A d \in Decisions : map'[t][d] >= map[t][d]

LEMMA LiveStep ==
    ASSUME ThresholdInv, Next, NEW t \in DOMAIN map, t > now - NumWindows
    PROVE  Grows(t)
<1>0. t \in Nat /\ \A d \in Decisions : map[t][d] \in Int
  BY DEF ThresholdInv, Times
<1>1. ASSUME NEW s \in Times, NEW c \in Decisions, Add(s, c) PROVE Grows(t)
  <2>1. t \in DOMAIN map' /\ map'[t] = IF t = s THEN CountedIn(s, c) ELSE map[t]
    BY <1>1 DEF Add
  <2>2. t = s => \A d \in Decisions : CountedIn(s, c)[d] >= map[t][d]
    <3> SUFFICES ASSUME t = s PROVE \A d \in Decisions : CountedIn(s, c)[d] >= map[t][d]
      OBVIOUS
    <3>1. map[t] \in [Decisions -> Int]
      BY DEF ThresholdInv
    <3>2. CountedIn(s, c) = [map[t] EXCEPT ![c] = @ + 1]
      BY DEF CountedIn, ItemOf
    <3> QED
      BY <3>1, <3>2
  <2> QED
    BY <1>0, <2>1, <2>2 DEF Grows
<1>2. ASSUME NEW e \in Expirers, Expire(e) PROVE Grows(t)
  <2>1. ~Outlived(t, threshold[e])
    BY <1>0, SizeAssumption DEF ThresholdInv, Outlived
  <2>2. t \in DOMAIN map' /\ map'[t] = map[t]
    BY <1>2, <2>1 DEF Expire, Restrict
  <2> QED
    BY <1>0, <2>2 DEF Grows
<1>3. CASE Tick \/ \E e \in Expirers : StartExpire(e)
  <2>1. map' = map
    BY <1>3 DEF Tick, StartExpire
  <2> QED
    BY <1>0, <2>1 DEF Grows
<1> QED
  BY <1>1, <1>2, <1>3 DEF Next

\* No step takes a request out of a window that is still to be counted, although
\* Expire computes its threshold before it has the lock and calls overlap.
THEOREM LiveItemsStay == Spec => LiveItemsGrow
<1>1. ThresholdInv /\ [Next]_vars =>
          [\A t \in DOMAIN map : t > now - NumWindows =>
              t \in DOMAIN map' /\ \A d \in Decisions : map'[t][d] >= map[t][d]]_vars
  BY LiveStep DEF Grows
<1> QED
  BY <1>1, ThresholdInvInit, ThresholdInvStep, PTL DEF Spec, LiveItemsGrow
-----------------------------------------------------------------------------
(* The totals and the windows.  A count is bounded by its total, which is the *)
(* sum of the windows and bounded by the requests: the types of the counts    *)
(* need all three.                                                          *)

SumsInv ==
    /\ TypeOK
    /\ TotalsAreSums
    /\ \A d \in Decisions : total[d] <= arrived

LEMMA WindowsFinite == ASSUME TypeOK PROVE IsFiniteSet(DOMAIN map)
<1>1. IsFiniteSet(Times)
  BY SizeAssumption, FS_Interval DEF Times
<1> QED
  BY <1>1, FS_Subset DEF TypeOK

LEMMA ColumnTyped ==
    ASSUME TypeOK, NEW d \in Decisions
    PROVE  /\ DOMAIN Column(d) = DOMAIN map
           /\ \A t \in DOMAIN map : Column(d)[t] = map[t][d] /\ map[t][d] \in Nat
                                        /\ Column(d)[t] \in Int
<1>1. \A t \in DOMAIN map : map[t] \in [Decisions -> 0..MaxRequests]
  BY DEF TypeOK, Counts
<1>2. \A t \in DOMAIN map : map[t][d] \in Nat
  BY <1>1, SizeAssumption
<1> QED
  BY <1>2 DEF Column

LEMMA CountBelowTotal ==
    ASSUME SumsInv, NEW d \in Decisions, NEW t \in DOMAIN map
    PROVE  map[t][d] <= total[d]
<1> DEFINE D == DOMAIN map
           rest == SumFunctionOnSet(Column(d), D \ {t})
<1>1. IsFiniteSet(D) /\ IsFiniteSet(D \ {t})
  BY WindowsFinite, FS_Subset DEF SumsInv
<1>2. \A s \in D : Column(d)[s] = map[s][d] /\ Column(d)[s] \in Nat
  BY ColumnTyped DEF SumsInv
<1>3. SumFunctionOnSet(Column(d), D) = map[t][d] + rest
  <2>1. \A s \in D : Column(d)[s] \in Int
    BY <1>2
  <2>2. SumFunctionOnSet(Column(d), D) = Column(d)[t] + SumFunctionOnSet(Column(d), D \ {t})
    BY <1>1, <2>1, SumRemove
  <2> QED
    BY <1>2, <2>2
<1>4. rest \in Nat
  BY <1>1, <1>2, SumNotNegative
<1>5. total[d] = SumFunctionOnSet(Column(d), D)
  BY DEF SumsInv, TotalsAreSums
<1> HIDE DEF rest
<1> QED
  BY <1>2, <1>3, <1>4, <1>5

LEMMA SumsInvInit == Init => SumsInv
<1> SUFFICES ASSUME Init PROVE SumsInv
  OBVIOUS
<1>1. DOMAIN map = {} /\ map = [t \in {} |-> NoCounts]
  BY DEF Init
<1>2. NoCounts \in Counts
  BY SizeAssumption DEF NoCounts, Counts
<1>3. TypeOK
  <2>1. NoCall \in NoCall..MaxTime /\ 0 \in Times
    BY SizeAssumption DEF NoCall, Times
  <2> QED
    BY <1>1, <1>2, <2>1, SizeAssumption DEF Init, TypeOK
<1>4. TotalsAreSums
  BY <1>1, SumEmpty DEF Init, TotalsAreSums, NoCounts
<1>5. \A d \in Decisions : total[d] <= arrived
  BY DEF Init, NoCounts
<1> QED
  BY <1>3, <1>4, <1>5 DEF SumsInv

\* What Add does to the sum of a decision's column.
LEMMA AddToColumn ==
    ASSUME SumsInv, NEW t \in Times, NEW d \in Decisions, Add(t, d), NEW c \in Decisions
    PROVE  SumFunctionOnSet(Column(c)', DOMAIN map')
               = SumFunctionOnSet(Column(c), DOMAIN map) + (IF c = d THEN 1 ELSE 0)
<1> DEFINE D == DOMAIN map
           one == IF c = d THEN 1 ELSE 0
<1>1. map' = [s \in D \cup {t} |-> IF s = t THEN CountedIn(t, d) ELSE map[s]]
  BY DEF Add
<1>2. DOMAIN map' = D \cup {t} /\ \A s \in D \cup {t} : Column(c)'[s] = map'[s][c]
  BY <1>1 DEF Column
<1>3. IsFiniteSet(D) /\ IsFiniteSet(D \cup {t})
  BY WindowsFinite, FS_AddElement DEF SumsInv
<1>4. \A s \in D : Column(c)[s] = map[s][c] /\ Column(c)[s] \in Int
  BY ColumnTyped DEF SumsInv
<1>5. \A s \in D : s # t => Column(c)'[s] = Column(c)[s]
  BY <1>1, <1>2, <1>4
<1>6. CASE t \in D
  <2>1. CountedIn(t, d)[c] = map[t][c] + one
    <3>1. map[t] \in [Decisions -> 0..MaxRequests]
      BY <1>6 DEF SumsInv, TypeOK, Counts
    <3>2. CountedIn(t, d) = [map[t] EXCEPT ![d] = @ + 1]
      BY <1>6 DEF CountedIn, ItemOf
    <3> QED
      BY <3>1, <3>2, SizeAssumption
  <2>2. Column(c)'[t] = Column(c)[t] + one
    BY <1>1, <1>2, <1>4, <1>6, <2>1
  <2>3. \A s \in D : Column(c)'[s] \in Int
    BY <1>4, <1>5, <2>2
  <2>4. SumFunctionOnSet(Column(c)', D)
            = SumFunctionOnSet(Column(c), D) + Column(c)'[t] - Column(c)[t]
    BY <1>3, <1>4, <1>5, <1>6, <2>3, SumChange
  <2>5. SumFunctionOnSet(Column(c), D) \in Int
    BY <1>3, <1>4, SumTyped
  <2>6. D \cup {t} = D
    BY <1>6
  <2> QED
    BY <1>2, <1>4, <1>6, <2>2, <2>4, <2>5, <2>6
<1>7. CASE t \notin D
  <2>1. CountedIn(t, d)[c] = one
    BY <1>7 DEF CountedIn, ItemOf, NoCounts
  <2>2. Column(c)'[t] = one
    BY <1>1, <1>2, <2>1
  <2>3. \A s \in D \cup {t} : Column(c)'[s] \in Int
    BY <1>4, <1>5, <1>7, <2>2
  <2>4. (D \cup {t}) \ {t} = D
    BY <1>7
  <2>5. SumFunctionOnSet(Column(c)', D \cup {t})
            = Column(c)'[t] + SumFunctionOnSet(Column(c)', (D \cup {t}) \ {t})
    BY <1>3, <2>3, SumRemove
  <2>6. SumFunctionOnSet(Column(c)', D) = SumFunctionOnSet(Column(c), D)
    <3>1. \A s \in D : Column(c)[s] \in Int /\ Column(c)[s] = Column(c)'[s]
      BY <1>4, <1>5, <1>7
    <3> QED
      BY <1>3, <3>1, SumEqual, Zenon
  <2>7. SumFunctionOnSet(Column(c), D) \in Int
    BY <1>3, <1>4, SumTyped
  <2> QED
    BY <1>2, <2>2, <2>4, <2>5, <2>6, <2>7
<1> QED
  BY <1>6, <1>7

\* Add saves nothing but an item of the map.
LEMMA SavedTyped ==
    ASSUME SumsInv, NEW t
    PROVE  SavedBefore(t) \in [Times -> Counts]
<1>1. CASE t \in DOMAIN map \/ DOMAIN map = {}
  BY <1>1 DEF SavedBefore, SumsInv, TypeOK
<1>2. CASE ~ (t \in DOMAIN map \/ DOMAIN map = {})
  <2>1. DOMAIN map \subseteq Int /\ \A s \in DOMAIN map : s <= MaxTime
    BY SizeAssumption DEF SumsInv, TypeOK, Times
  <2>2. \E s \in DOMAIN map : \A r \in DOMAIN map : r <= s
    <3>1. MaxTime \in Int /\ DOMAIN map # {}
      BY <1>2, SizeAssumption
    <3> QED
      BY <2>1, <3>1, Greatest, Zenon
  <2>3. \E s \in DOMAIN map : \A r \in DOMAIN map : s >= r
    BY <2>1, <2>2
  <2>4. Max(DOMAIN map) \in DOMAIN map
    BY <2>3 DEF Max
  <2>5. map[Max(DOMAIN map)] \in Counts
    BY <2>4 DEF SumsInv, TypeOK
  <2> QED
    BY <1>2, <2>5 DEF SavedBefore, SumsInv, TypeOK
<1> QED
  BY <1>1, <1>2

LEMMA AddKeepsSums ==
    ASSUME SumsInv, NEW t \in Times, NEW d \in Decisions, Add(t, d)
    PROVE  SumsInv'
<1>0. total \in [Decisions -> 0..MaxRequests] /\ arrived \in 0..MaxRequests
  BY DEF SumsInv, TypeOK, Counts
<1>1. arrived' = arrived + 1 /\ arrived' \in 0..MaxRequests
  BY <1>0, SizeAssumption DEF Add
<1>2. \A c \in Decisions : total'[c] = total[c] + (IF c = d THEN 1 ELSE 0)
  BY <1>0, SizeAssumption DEF Add
<1>3. \A c \in Decisions : total'[c] \in Nat /\ total'[c] <= arrived'
  BY <1>0, <1>1, <1>2, SizeAssumption DEF SumsInv
<1>4. total' \in Counts
  <2>1. DOMAIN total' = Decisions /\ total' = [c \in Decisions |-> total'[c]]
    BY <1>0 DEF Add
  <2>2. \A c \in Decisions : total'[c] \in 0..MaxRequests
    BY <1>1, <1>3, SizeAssumption
  <2> QED
    BY <2>1, <2>2 DEF Counts
<1>5. TotalsAreSums'
  BY <1>2, AddToColumn DEF SumsInv, TotalsAreSums
<1>6. map' \in [DOMAIN map' -> Counts] /\ DOMAIN map' \subseteq Times
  <2>1. map' = [s \in DOMAIN map \cup {t} |-> IF s = t THEN CountedIn(t, d) ELSE map[s]]
    BY DEF Add
  <2>2. \A s \in DOMAIN map : map[s] \in [Decisions -> 0..MaxRequests]
    BY DEF SumsInv, TypeOK, Counts
  <2>3. \A s \in DOMAIN map : map[s][d] <= total[d]
    BY CountBelowTotal
  <2>4. ItemOf(t) \in [Decisions -> 0..MaxRequests] /\ ItemOf(t)[d] <= total[d]
    BY <1>0, <2>2, <2>3, SizeAssumption DEF ItemOf, NoCounts
  <2>5. ItemOf(t)[d] + 1 \in 0..MaxRequests
    BY <1>0, <1>1, <2>4, SizeAssumption DEF SumsInv
  <2>6. CountedIn(t, d) \in [Decisions -> 0..MaxRequests]
    BY <2>4, <2>5 DEF CountedIn
  <2> QED
    BY <2>1, <2>2, <2>6 DEF SumsInv, TypeOK, Counts
<1>7. saved' \in [Times -> Counts] /\ UNCHANGED <<now, threshold>>
  BY SavedTyped DEF Add
<1>8. TypeOK'
  BY <1>1, <1>4, <1>6, <1>7 DEF SumsInv, TypeOK
<1> QED
  BY <1>3, <1>5, <1>8 DEF SumsInv

LEMMA ExpireKeepsSums ==
    ASSUME SumsInv, NEW e \in Expirers, Expire(e) PROVE SumsInv'
<1> DEFINE D == DOMAIN map
           gone == {t \in D : Outlived(t, threshold[e])}
<1>1. map' = [t \in D \ gone |-> map[t]] /\ total' = Subtracted(gone)
  BY DEF Expire, Restrict
<1>2. gone \in SUBSET D /\ IsFiniteSet(D) /\ IsFiniteSet(gone) /\ IsFiniteSet(D \ gone)
  BY WindowsFinite, FS_Subset DEF SumsInv
<1>3. UNCHANGED <<now, saved, arrived>> /\ threshold' = [threshold EXCEPT ![e] = NoCall]
  BY DEF Expire
<1> HIDE DEF gone
<1>4. DOMAIN map' = D \ gone /\ \A t \in D \ gone : map'[t] = map[t]
  BY <1>1
<1>5. ASSUME NEW c \in Decisions
      PROVE  /\ total'[c] = SumFunctionOnSet(Column(c)', DOMAIN map')
             /\ total'[c] \in Nat /\ total'[c] <= total[c]
  <2>1. \A t \in D : Column(c)[t] = map[t][c] /\ Column(c)[t] \in Nat /\ Column(c)[t] \in Int
    BY ColumnTyped DEF SumsInv
  <2>2. SumFunctionOnSet(Column(c), D)
            = SumFunctionOnSet(Column(c), gone) + SumFunctionOnSet(Column(c), D \ gone)
    BY <1>2, <2>1, SumSplit
  <2>3. /\ SumFunctionOnSet(Column(c), gone) \in Nat
        /\ SumFunctionOnSet(Column(c), D \ gone) \in Nat
    BY <1>2, <2>1, SumNotNegative
  <2>4. SumFunctionOnSet(Column(c), D \ gone) = SumFunctionOnSet(Column(c)', D \ gone)
    <3>1. \A t \in D \ gone : Column(c)'[t] = map'[t][c]
      BY <1>4 DEF Column
    <3>2. \A t \in D \ gone : Column(c)[t] \in Int /\ Column(c)[t] = Column(c)'[t]
      BY <1>4, <2>1, <3>1
    <3> QED
      BY <1>2, <3>2, SumEqual, Zenon
  <2>5. total'[c] = total[c] - SumFunctionOnSet(Column(c), gone)
    BY <1>1 DEF Subtracted
  <2>6. total[c] = SumFunctionOnSet(Column(c), D)
    BY DEF SumsInv, TotalsAreSums
  <2> QED
    BY <1>4, <2>2, <2>3, <2>4, <2>5, <2>6
<1>6. TotalsAreSums'
  BY <1>5 DEF TotalsAreSums
<1>7. total \in [Decisions -> 0..MaxRequests] /\ arrived \in 0..MaxRequests
  BY DEF SumsInv, TypeOK, Counts
<1>8. \A c \in Decisions : total'[c] \in 0..MaxRequests /\ total'[c] <= arrived'
  BY <1>3, <1>5, <1>7, SizeAssumption DEF SumsInv
<1>9. total' \in Counts
  <2>1. DOMAIN total' = Decisions /\ total' = [c \in Decisions |-> total'[c]]
    BY <1>1 DEF Subtracted
  <2> QED
    BY <1>8, <2>1 DEF Counts
<1>10. map' \in [DOMAIN map' -> Counts] /\ DOMAIN map' \subseteq Times
  BY <1>1, <1>4 DEF SumsInv, TypeOK
<1>11. threshold' \in [Expirers -> NoCall..MaxTime]
  BY <1>3, SizeAssumption DEF SumsInv, TypeOK, NoCall
<1>12. TypeOK'
  BY <1>3, <1>9, <1>10, <1>11 DEF SumsInv, TypeOK
<1> QED
  BY <1>6, <1>8, <1>12 DEF SumsInv

LEMMA SumsInvStep == SumsInv /\ [Next]_vars => SumsInv'
<1> SUFFICES ASSUME SumsInv, [Next]_vars PROVE SumsInv'
  OBVIOUS
<1>1. ASSUME NEW t \in Times, NEW d \in Decisions, Add(t, d) PROVE SumsInv'
  BY <1>1, AddKeepsSums
<1>2. ASSUME NEW e \in Expirers, Expire(e) PROVE SumsInv'
  BY <1>2, ExpireKeepsSums
<1>3. CASE Tick \/ UNCHANGED vars \/ \E e \in Expirers : StartExpire(e)
  <2>1. UNCHANGED <<map, total, saved, arrived>>
    BY <1>3 DEF Tick, vars, StartExpire
  <2>2. now' \in Times
    BY <1>3, SizeAssumption DEF Tick, vars, StartExpire, SumsInv, TypeOK, Times
  <2>3. threshold' \in [Expirers -> NoCall..MaxTime]
    <3>1. CASE UNCHANGED threshold
      BY <3>1 DEF SumsInv, TypeOK
    <3>2. ASSUME NEW e \in Expirers, StartExpire(e)
          PROVE  threshold' \in [Expirers -> NoCall..MaxTime]
      <4>1. now - NumWindows \in NoCall..MaxTime
        BY SizeAssumption DEF SumsInv, TypeOK, Times, NoCall
      <4> QED
        BY <3>2, <4>1 DEF StartExpire, SumsInv, TypeOK
    <3> QED
      BY <1>3, <3>1, <3>2 DEF Tick, vars
  <2>4. TypeOK'
    BY <2>1, <2>2, <2>3 DEF SumsInv, TypeOK
  <2>5. TotalsAreSums'
    BY <2>1 DEF SumsInv, TotalsAreSums, Column
  <2> QED
    BY <2>1, <2>4, <2>5 DEF SumsInv
<1> QED
  BY <1>1, <1>2, <1>3 DEF Next

\* No count is negative or above the number of requests, although Expire takes
\* from the totals what it finds in the windows when it has the lock.
THEOREM Typing == Spec => []TypeOK
<1>1. SumsInv => TypeOK
  BY DEF SumsInv
<1> QED
  BY <1>1, SumsInvInit, SumsInvStep, PTL DEF Spec

\* The running totals are the sums of the windows, however late requests are and
\* however many calls of Expire overlap.
THEOREM SumsKept == Spec => []TotalsAreSums
<1>1. SumsInv => TotalsAreSums
  BY DEF SumsInv
<1> QED
  BY <1>1, SumsInvInit, SumsInvStep, PTL DEF Spec
=============================================================================
