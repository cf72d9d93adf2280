---------------------------- MODULE StatsWindows ----------------------------
(***************************************************************************)
(* The counts of requests per decision and window that the dashboard shows  *)
(* (StatsWindows): Add, by the goroutines that run History.Add, and Expire, *)
(* which History.expire starts as a goroutine of its own on every tick of   *)
(* its ticker.  Time is counted in windows: keyFor of a time is the time.   *)
(***************************************************************************)
EXTENDS Integers, FiniteSets, FiniteSetsExt, Functions

CONSTANTS
    Decisions,   \* IsBlocked, IsHuman, IsWhitelisted
    NumWindows,  \* config.NumWindows
    Expirers,    \* bound: calls of Expire under way at a time
    MaxDelay,    \* bound: a request is at most this old when it is added
    MaxTime,     \* bound: the clock
    MaxRequests  \* bound: requests that are added

ASSUME SizeAssumption ==
    /\ NumWindows \in Nat \ {0} /\ MaxDelay \in Nat
    /\ MaxTime \in Nat /\ MaxRequests \in Nat

Times == 0..MaxTime
NoCounts == [d \in Decisions |-> 0]
Counts == [Decisions -> 0..MaxRequests]

VARIABLES
    now,       \* the clock
    map,       \* Map: a function from the windows that have an item to their counts
    total,     \* the embedded Stats: the counts of all windows
    saved,     \* the store's "stats:<window>" items
    threshold, \* Expire calls: the threshold, read before the lock is taken
    arrived    \* requests so far

vars == <<now, map, total, saved, threshold, arrived>>

NoCall == -NumWindows - 1

-----------------------------------------------------------------------------
(* Add. *)

\* A slip: the saved counts are added up.
SavedOnTop(t) ==
    IF t \in DOMAIN map \/ DOMAIN map = {} THEN saved
    ELSE LET latest == Max(DOMAIN map)
         IN  [saved EXCEPT ![latest] = [d \in Decisions |-> @[d] + map[latest][d]]]

\* A new window saves the item of the latest one, if there is any.
SavedBefore(t) ==
    IF t \in DOMAIN map \/ DOMAIN map = {} THEN saved
    ELSE LET latest == Max(DOMAIN map) IN [saved EXCEPT ![latest] = map[latest]]

ItemOf(t) == IF t \in DOMAIN map THEN map[t] ELSE NoCounts

CountedIn(t, d) == [ItemOf(t) EXCEPT ![d] = @ + 1]

Add(t, d) ==
    /\ t \in now - MaxDelay .. now /\ t \in Times
    /\ arrived < MaxRequests
    /\ arrived' = arrived + 1
    /\ saved' = SavedBefore(t)
    /\ map' = [s \in DOMAIN map \cup {t} |-> IF s = t THEN CountedIn(t, d) ELSE map[s]]
    /\ total' = [total EXCEPT ![d] = @ + 1]
    /\ UNCHANGED <<now, threshold>>

-----------------------------------------------------------------------------
(* Expire. *)

StartExpire(e) ==
    /\ threshold[e] = NoCall
    /\ threshold' = [threshold EXCEPT ![e] = now - NumWindows]
    /\ UNCHANGED <<now, map, total, saved, arrived>>

\* Slips: one window too many, one too few.
OutlivedEarly(t, limit) == t <= limit + 1
OutlivedLate(t, limit) == t < limit

Outlived(t, limit) == t <= limit

\* The requests with decision d, window by window.
Column(d) == [t \in DOMAIN map |-> map[t][d]]

\* A slip: only the last item is subtracted.
SubtractsLast(gone) == IF gone = {} THEN total
                       ELSE [d \in Decisions |-> total[d] - map[Max(gone)][d]]

Subtracted(gone) ==
    [d \in Decisions |-> total[d] - SumFunctionOnSet(Column(d), gone)]

\* Under the lock: the items up to the threshold go, oldest first.
Expire(e) ==
    /\ threshold[e] # NoCall
    /\ LET gone == {t \in DOMAIN map : Outlived(t, threshold[e])}
       IN  /\ map' = Restrict(map, DOMAIN map \ gone)
           /\ total' = Subtracted(gone)
    /\ threshold' = [threshold EXCEPT ![e] = NoCall]
    /\ UNCHANGED <<now, saved, arrived>>

-----------------------------------------------------------------------------

Tick ==
    /\ now < MaxTime
    /\ now' = now + 1
    /\ UNCHANGED <<map, total, saved, threshold, arrived>>

Init ==
    /\ now = 0
    /\ map = [t \in {} |-> NoCounts]
    /\ total = NoCounts
    /\ saved = [t \in Times |-> NoCounts]
    /\ threshold = [e \in Expirers |-> NoCall]
    /\ arrived = 0

Next ==
    \/ \E t \in Times, d \in Decisions : Add(t, d)
    \/ \E e \in Expirers : StartExpire(e) \/ Expire(e)
    \/ Tick

Spec == Init /\ [][Next]_vars

\* Time passes, the ticker starts Expire again and again, and its calls get the lock.
FairSpec == Spec /\ WF_vars(Tick) /\ \A e \in Expirers : WF_vars(StartExpire(e) \/ Expire(e))

-----------------------------------------------------------------------------
(* Properties. *)

\* The types of the variables; no count falls below zero or exceeds what arrived.
TypeOK ==
    /\ now \in Times
    /\ DOMAIN map \subseteq Times /\ map \in [DOMAIN map -> Counts]
    /\ total \in Counts
    /\ saved \in [Times -> Counts]
    /\ threshold \in [Expirers -> NoCall..MaxTime]
    /\ arrived \in 0..MaxRequests

\* The running totals are the sums of the windows, whatever the order of late
\* requests and of overlapping calls of Expire (Add and Expire update both).
TotalsAreSums ==
    \A d \in Decisions : total[d] = SumFunctionOnSet(Column(d), DOMAIN map)

\* No step takes a request out of a window that has not outlived its time: such
\* an item only grows (Expire's threshold may be old, but never too young).
LiveItemsGrow ==
    [][\A t \in DOMAIN map : t > now - NumWindows =>
          t \in DOMAIN map' /\ \A d \in Decisions : map'[t][d] >= map[t][d]]_vars

\* Every window that ends early enough for the clock is forgotten in the end,
\* even if a late request brings it back (Expire).
WindowsEnd ==
    \A t \in Times : t <= MaxTime - NumWindows => <>[](t \notin DOMAIN map)

-----------------------------------------------------------------------------
(* What a comment says and the code does not keep. *)

\* "store the previous Stats item" (Add): a window that is over and has left the
\* map is saved with the counts it had: neither a late request nor a pause
\* longer than the retention time leaves the item unsaved or behind.
SavedWhenGone ==
    [][\A t \in DOMAIN map \ DOMAIN map' : saved[t] = map[t]]_vars
=============================================================================
