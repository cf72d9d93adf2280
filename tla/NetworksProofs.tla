--------------------------- MODULE NetworksProofs ---------------------------
(***************************************************************************)
(* Theorems about Networks, for any number of networks, autonomous systems  *)
(* and requests and all limits: no network is left without a watcher, the   *)
(* statistics are those of the buckets, and what is above the limits gets   *)
(* an entry in the block list.                                             *)
(***************************************************************************)
EXTENDS Networks, Sums

Timers == [fires : Nat, armed : BOOLEAN, ticked : BOOLEAN]
Mains == [pc : {"idle", "remove", "block"}, net : SUBSET Nets, asns : SUBSET Nets,
          nets : SUBSET Nets, asnsOver : SUBSET ASNs, netsOver : SUBSET Nets,
          failed : SUBSET (Nets \cup ASNs)]

\* The part of the types that the watchers need, and the plugin's goroutine
\* removes one network at a time.
WatchTyped ==
    /\ data \subseteq Nets
    /\ timer \in [Nets -> Timers]
    /\ watcher \in [Nets -> {"wait", "send", "returned"}]
    /\ main \in Mains
    /\ main.pc = "remove" => \E c \in Nets : main.net = {c}

WatchInv == WatchTyped /\ WatchedToTheEnd

-----------------------------------------------------------------------------
(* The records keep their types. *)

LEMMA SetTicked ==
    ASSUME NEW r \in Timers, NEW b \in BOOLEAN
    PROVE  /\ [r EXCEPT !.ticked = b] \in Timers
           /\ [r EXCEPT !.armed = b] \in Timers
  BY Zenon DEF Timers

LEMMA NoTimerTyped == NoTimer \in Timers
  BY DEF NoTimer, Timers

LEMMA IdleTyped == Idle \in Mains /\ Idle.pc = "idle"
  BY DEF Idle, Mains

LEMMA SetMain ==
    ASSUME NEW m \in Mains, NEW S \in SUBSET Nets
    PROVE  /\ [m EXCEPT !.asns = S] \in Mains
           /\ [m EXCEPT !.nets = S] \in Mains
           /\ [m EXCEPT !.net = S] \in Mains
           /\ [m EXCEPT !.pc = "remove"] \in Mains
  BY DEF Mains

\* What an entry of a round does to the plugin's goroutine: it goes on, with less
\* to do.
GoesOn(m, n, F) ==
    /\ n \in Mains /\ n.pc = m.pc /\ n.asnsOver = m.asnsOver /\ n.netsOver = m.netsOver
    /\ n.failed = F

LEMMA SetFailed ==
    ASSUME NEW m \in Mains, NEW F \in SUBSET (Nets \cup ASNs)
    PROVE  /\ GoesOn(m, [m EXCEPT !.failed = F], F)
           /\ [m EXCEPT !.failed = F].asns = m.asns /\ [m EXCEPT !.failed = F].nets = m.nets
  BY DEF Mains, GoesOn

LEMMA SetASNs ==
    ASSUME NEW m \in Mains, NEW S \in SUBSET Nets
    PROVE  /\ GoesOn(m, [m EXCEPT !.asns = S], m.failed)
           /\ [m EXCEPT !.asns = S].asns = S /\ [m EXCEPT !.asns = S].nets = m.nets
  BY DEF Mains, GoesOn

LEMMA SetNets ==
    ASSUME NEW m \in Mains, NEW S \in SUBSET Nets
    PROVE  /\ GoesOn(m, [m EXCEPT !.nets = S], m.failed)
           /\ [m EXCEPT !.nets = S].asns = m.asns /\ [m EXCEPT !.nets = S].nets = S
  BY DEF Mains, GoesOn

LEMMA GoesOnWithASNs ==
    ASSUME NEW m \in Mains, NEW S \in SUBSET Nets, NEW F \in SUBSET (Nets \cup ASNs)
    PROVE  /\ GoesOn(m, [m EXCEPT !.asns = S, !.failed = F], F)
           /\ [m EXCEPT !.asns = S, !.failed = F].asns = S
           /\ [m EXCEPT !.asns = S, !.failed = F].nets = m.nets
<1> DEFINE n == [m EXCEPT !.asns = S, !.failed = F]
           k == [m EXCEPT !.asns = S]
<1>1. GoesOn(m, k, m.failed) /\ k.asns = S /\ k.nets = m.nets
  BY SetASNs
<1>2. n = [k EXCEPT !.failed = F]
  BY Zenon
<1> HIDE DEF k, n
<1>3. k \in Mains
  BY <1>1 DEF GoesOn
<1>4. GoesOn(k, n, F) /\ n.asns = k.asns /\ n.nets = k.nets
  BY <1>2, <1>3, SetFailed, Zenon
<1> QED
  BY <1>1, <1>4 DEF GoesOn, n

LEMMA GoesOnWithNets ==
    ASSUME NEW m \in Mains, NEW S \in SUBSET Nets, NEW F \in SUBSET (Nets \cup ASNs)
    PROVE  /\ GoesOn(m, [m EXCEPT !.nets = S, !.failed = F], F)
           /\ [m EXCEPT !.nets = S, !.failed = F].nets = S
           /\ [m EXCEPT !.nets = S, !.failed = F].asns = m.asns
<1> DEFINE n == [m EXCEPT !.nets = S, !.failed = F]
           k == [m EXCEPT !.nets = S]
<1>1. GoesOn(m, k, m.failed) /\ k.asns = m.asns /\ k.nets = S
  BY SetNets
<1>2. n = [k EXCEPT !.failed = F]
  BY Zenon
<1> HIDE DEF k, n
<1>3. k \in Mains
  BY <1>1 DEF GoesOn
<1>4. GoesOn(k, n, F) /\ n.asns = k.asns /\ n.nets = k.nets
  BY <1>2, <1>3, SetFailed, Zenon
<1> QED
  BY <1>1, <1>4 DEF GoesOn, n

-----------------------------------------------------------------------------
(* Requests and timers. *)

LEMMA RequestKeepsWatch ==
    ASSUME WatchInv, NEW c \in Nets, HandleRequest(c) PROVE WatchInv'
<1>1. PICK t \in Times, isApp \in BOOLEAN :
          timer' = [timer EXCEPT ![c] = [fires |-> t + WindowSize * NumWindows, armed |-> TRUE,
                                         ticked |-> c \in data /\ @.ticked]]
  BY DEF HandleRequest
<1>2. t + WindowSize * NumWindows \in Nat
  BY SizeAssumption DEF Times
<1>3. (c \in data /\ timer[c].ticked) \in BOOLEAN
  OBVIOUS
<1>4. [fires |-> t + WindowSize * NumWindows, armed |-> TRUE,
       ticked |-> c \in data /\ timer[c].ticked] \in Timers
  BY <1>2, <1>3, Zenon DEF Timers
<1>5. timer' \in [Nets -> Timers]
  BY <1>1, <1>4 DEF WatchInv, WatchTyped
<1>6. timer'[c].armed
  BY <1>1, Zenon DEF WatchInv, WatchTyped
<1>7. \A d \in Nets : d # c => timer'[d] = timer[d] /\ watcher'[d] = watcher[d]
  BY <1>1 DEF HandleRequest, WatchInv, WatchTyped
<1>8. main' = main /\ data' = data \cup {c}
  BY DEF HandleRequest
<1>9. watcher' \in [Nets -> {"wait", "send", "returned"}]
  BY DEF HandleRequest, WatchInv, WatchTyped
<1>10. WatchTyped'
  BY <1>5, <1>8, <1>9 DEF WatchInv, WatchTyped
<1>11. IF c \in data THEN watcher'[c] = watcher[c] ELSE watcher'[c] = "wait"
  BY DEF HandleRequest, WatchInv, WatchTyped
<1>12. WatchedToTheEnd'
  BY <1>6, <1>7, <1>8, <1>11 DEF WatchInv, WatchTyped, WatchedToTheEnd
<1> QED
  BY <1>10, <1>12 DEF WatchInv

LEMMA FireKeepsWatch ==
    ASSUME WatchInv, NEW c \in Nets, Fire(c) PROVE WatchInv'
<1>1. timer[c] \in Timers
  BY DEF WatchInv, WatchTyped
<1>2. timer'[c] \in Timers /\ timer'[c].ticked
  <2>1. timer'[c] = [timer[c] EXCEPT !.armed = FALSE, !.ticked = TRUE]
    BY Zenon DEF Fire, WatchInv, WatchTyped
  <2>2. [timer[c] EXCEPT !.armed = FALSE] \in Timers
    BY <1>1, SetTicked
  <2>3. [timer[c] EXCEPT !.armed = FALSE, !.ticked = TRUE] \in Timers
    BY <2>2, SetTicked, Zenon
  <2>4. [timer[c] EXCEPT !.armed = FALSE, !.ticked = TRUE].ticked
    BY <1>1, Zenon DEF Timers
  <2> QED
    BY <2>1, <2>3, <2>4
<1>3. \A d \in Nets : d # c => timer'[d] = timer[d]
  BY DEF Fire, WatchInv, WatchTyped
<1>4. DOMAIN timer' = Nets /\ timer' \in [Nets -> Timers]
  BY <1>2, <1>3 DEF Fire, WatchInv, WatchTyped
<1>5. UNCHANGED <<data, watcher, main>>
  BY DEF Fire
<1>6. WatchTyped'
  BY <1>4, <1>5 DEF WatchInv, WatchTyped
<1>7. WatchedToTheEnd'
  BY <1>2, <1>3, <1>5 DEF WatchInv, WatchTyped, WatchedToTheEnd
<1> QED
  BY <1>6, <1>7 DEF WatchInv

LEMMA WatchKeepsWatch ==
    ASSUME WatchInv, NEW c \in Nets, Watch(c) PROVE WatchInv'
<1>1. timer[c] \in Timers
  BY DEF WatchInv, WatchTyped
<1>2. timer'[c] = [timer[c] EXCEPT !.ticked = FALSE]
  BY Zenon DEF Watch, WatchInv, WatchTyped
<1>3. timer'[c] \in Timers
  BY <1>1, <1>2, SetTicked
<1>4. \A d \in Nets : d # c => timer'[d] = timer[d] /\ watcher'[d] = watcher[d]
  BY DEF Watch, WatchInv, WatchTyped
<1>5. timer' \in [Nets -> Timers]
  BY <1>3, <1>4 DEF Watch, WatchInv, WatchTyped
<1>6. UNCHANGED <<data, main>> /\ watcher' \in [Nets -> {"wait", "send", "returned"}]
      /\ watcher'[c] = "send"
  BY DEF Watch, WatchInv, WatchTyped
<1>7. WatchTyped'
  BY <1>5, <1>6 DEF WatchInv, WatchTyped
<1>8. WatchedToTheEnd'
  BY <1>4, <1>6 DEF WatchInv, WatchTyped, WatchedToTheEnd
<1> QED
  BY <1>7, <1>8 DEF WatchInv

-----------------------------------------------------------------------------
(* The plugin's goroutine. *)

LEMMA ReceiveKeepsWatch ==
    ASSUME WatchInv, NEW c \in Nets, Receive(c) PROVE WatchInv'
<1>1. main' \in Mains /\ main'.pc = "remove" /\ main'.net = {c}
  <2>1. main \in Mains /\ {c} \in SUBSET Nets
    BY DEF WatchInv, WatchTyped
  <2>2. [main EXCEPT !.pc = "remove"] \in Mains
    BY <2>1, SetMain
  <2>3. [[main EXCEPT !.pc = "remove"] EXCEPT !.net = {c}] \in Mains
    BY <2>1, <2>2, SetMain
  <2>4. main' = [[main EXCEPT !.pc = "remove"] EXCEPT !.net = {c}]
    BY DEF Receive
  <2> QED
    BY <2>1, <2>3, <2>4 DEF Mains
<1>2. UNCHANGED <<data, timer>> /\ main.pc = "idle"
  BY DEF Receive
<1>3. watcher' \in [Nets -> {"wait", "send", "returned"}]
      /\ \A d \in Nets : d # c => watcher'[d] = watcher[d]
  BY DEF Receive, WatchInv, WatchTyped
<1>4. WatchTyped'
  BY <1>1, <1>2, <1>3 DEF WatchInv, WatchTyped
<1>5. WatchedToTheEnd'
  BY <1>1, <1>2, <1>3 DEF WatchInv, WatchTyped, WatchedToTheEnd
<1> QED
  BY <1>4, <1>5 DEF WatchInv

LEMMA RemoveKeepsWatch ==
    ASSUME WatchInv, Remove PROVE WatchInv'
<1>1. PICK c \in main.net : /\ data' = data \ {c}
                            /\ timer' = [timer EXCEPT ![c] = NoTimer]
  BY DEF Remove, Removed
<1>2. main.net = {c} /\ c \in Nets
  BY DEF Remove, WatchInv, WatchTyped
<1>3. timer' \in [Nets -> Timers] /\ \A d \in Nets : d # c => timer'[d] = timer[d]
  BY <1>1, <1>2, NoTimerTyped DEF WatchInv, WatchTyped
<1>4. main' = Idle /\ watcher' = watcher
  BY DEF Remove
<1>5. WatchTyped'
  BY <1>1, <1>3, <1>4, IdleTyped DEF WatchInv, WatchTyped
<1>6. WatchedToTheEnd'
  BY <1>1, <1>2, <1>3, <1>4 DEF WatchInv, WatchTyped, WatchedToTheEnd
<1> QED
  BY <1>5, <1>6 DEF WatchInv

\* What BlockASN and BlockNetwork do, told by the fields of the goroutine.
EntersASN(c, blocked, fails) ==
    /\ blocked => IsBlockedByASN(c)
    /\ Entered(ASNOf[c], blocked, fails)
    /\ GoesOn(main, main', main.failed \cup Refused(ASNOf[c], blocked, fails))
    /\ main'.asns = main.asns \ {c} /\ main'.nets = main.nets

EntersNetwork(c, blocked, fails) ==
    /\ blocked => IsBlockedByASN(c)
    /\ Entered(c, blocked, fails)
    /\ GoesOn(main, main', main.failed \cup Refused(c, blocked, fails))
    /\ main'.asns = main.asns /\ main'.nets = main.nets \ {c}

LEMMA ASNStep ==
    ASSUME main \in Mains, BlockASN
    PROVE  \E c \in main.asns, blocked \in BOOLEAN, fails \in BOOLEAN : EntersASN(c, blocked, fails)
<1>1. PICK c \in main.asns, missed \in BOOLEAN, fails \in BOOLEAN :
          LET blocked == IsBlockedByASN(c) /\ ~missed
          IN  /\ Entered(ASNOf[c], blocked, fails)
              /\ main' = [main EXCEPT !.asns = @ \ {c},
                                      !.failed = @ \cup Refused(ASNOf[c], blocked, fails)]
  BY DEF BlockASN
<1>2. PICK blocked \in BOOLEAN : blocked = (IsBlockedByASN(c) /\ ~missed)
  OBVIOUS
<1> DEFINE S == main.asns \ {c}
           F == main.failed \cup Refused(ASNOf[c], blocked, fails)
<1>3. S \in SUBSET Nets /\ F \in SUBSET (Nets \cup ASNs)
  BY NetAssumption DEF Mains, Refused
<1>4. main' = [main EXCEPT !.asns = S, !.failed = F]
  BY <1>1, <1>2, Zenon
<1>5. GoesOn(main, main', F) /\ main'.asns = S /\ main'.nets = main.nets
  <2> HIDE DEF S, F
  <2>1. /\ GoesOn(main, [main EXCEPT !.asns = S, !.failed = F], F)
        /\ [main EXCEPT !.asns = S, !.failed = F].asns = S
        /\ [main EXCEPT !.asns = S, !.failed = F].nets = main.nets
    BY <1>3, GoesOnWithASNs
  <2> QED
    BY <1>4, <2>1, Zenon
<1>6. EntersASN(c, blocked, fails)
  BY <1>1, <1>2, <1>5 DEF EntersASN
<1> QED
  BY <1>6

LEMMA NetworkStep ==
    ASSUME main \in Mains, BlockNetwork
    PROVE  \E c \in main.nets, blocked \in BOOLEAN, fails \in BOOLEAN : EntersNetwork(c, blocked, fails)
<1>1. PICK c \in main.nets, missed \in BOOLEAN, fails \in BOOLEAN :
          LET blocked == IsBlockedByASN(c) /\ ~missed
          IN  /\ Entered(c, blocked, fails)
              /\ main' = [main EXCEPT !.nets = @ \ {c},
                                      !.failed = @ \cup Refused(c, blocked, fails)]
  BY DEF BlockNetwork
<1>2. PICK blocked \in BOOLEAN : blocked = (IsBlockedByASN(c) /\ ~missed)
  OBVIOUS
<1> DEFINE S == main.nets \ {c}
           F == main.failed \cup Refused(c, blocked, fails)
<1>3. S \in SUBSET Nets /\ F \in SUBSET (Nets \cup ASNs)
  BY DEF Mains, Refused
<1>4. main' = [main EXCEPT !.nets = S, !.failed = F]
  BY <1>1, <1>2, Zenon
<1>5. GoesOn(main, main', F) /\ main'.nets = S /\ main'.asns = main.asns
  <2> HIDE DEF S, F
  <2>1. /\ GoesOn(main, [main EXCEPT !.nets = S, !.failed = F], F)
        /\ [main EXCEPT !.nets = S, !.failed = F].nets = S
        /\ [main EXCEPT !.nets = S, !.failed = F].asns = main.asns
    BY <1>3, GoesOnWithNets
  <2> QED
    BY <1>4, <2>1, Zenon
<1>6. EntersNetwork(c, blocked, fails)
  BY <1>1, <1>2, <1>5 DEF EntersNetwork
<1> QED
  BY <1>6

\* Outside a removal the plugin's goroutine touches none of the three.
LEMMA RoundsKeepWatch ==
    ASSUME WatchInv, UpdateAndBlock \/ BlockASN \/ BlockNetwork \/ CheckBlocked
    PROVE  WatchInv'
<1>m. main \in Mains
  BY DEF WatchInv, WatchTyped
<1>1. UNCHANGED <<data, timer, watcher>>
  BY DEF UpdateAndBlock, BlockASN, BlockNetwork, CheckBlocked
<1>2. main.pc # "remove"
  BY DEF UpdateAndBlock, BlockASN, BlockNetwork, CheckBlocked
<1>3. main' \in Mains /\ main'.pc # "remove"
  <2>1. CASE UpdateAndBlock
    <3>1. CASE main' = Idle
      BY <3>1, IdleTyped
    <3>2. ASSUME NEW first \in [{a \in ASNs : TooMany(nd', NetsOf(a))} -> data],
                 main' = [pc |-> "block", net |-> {},
                          asns |-> {first[a] : a \in {b \in ASNs : TooMany(nd', NetsOf(b))}},
                          nets |-> {c \in data : TooMany(nd', {c})},
                          asnsOver |-> {a \in ASNs : TooMany(nd', NetsOf(a))},
                          netsOver |-> {c \in data : TooMany(nd', {c})}, failed |-> {}]
          PROVE  main' \in Mains /\ main'.pc # "remove"
      <4>1. data \subseteq Nets
        BY DEF WatchInv, WatchTyped
      <4>2. {first[a] : a \in {b \in ASNs : TooMany(nd', NetsOf(b))}} \in SUBSET Nets
        BY <3>2, <4>1
      <4>3. {c \in data : TooMany(nd', {c})} \in SUBSET Nets
        BY <4>1
      <4>4. {a \in ASNs : TooMany(nd', NetsOf(a))} \in SUBSET ASNs
        OBVIOUS
      <4> QED
        BY <3>2, <4>2, <4>3, <4>4 DEF Mains
    <3> QED
      BY <2>1, <3>1, <3>2 DEF UpdateAndBlock
  <2>2. CASE BlockASN
    <3>1. PICK c \in main.asns, blocked \in BOOLEAN, fails \in BOOLEAN :
              EntersASN(c, blocked, fails)
      BY <1>m, <2>2, ASNStep
    <3>2. main'.pc = main.pc /\ main' \in Mains
      BY <3>1 DEF EntersASN, GoesOn
    <3> QED
      BY <1>2, <3>2
  <2>3. CASE BlockNetwork
    <3>1. PICK c \in main.nets, blocked \in BOOLEAN, fails \in BOOLEAN :
              EntersNetwork(c, blocked, fails)
      BY <1>m, <2>3, NetworkStep
    <3>2. main'.pc = main.pc /\ main' \in Mains
      BY <3>1 DEF EntersNetwork, GoesOn
    <3> QED
      BY <1>2, <3>2
  <2>4. CASE CheckBlocked
    BY <2>4, IdleTyped DEF CheckBlocked
  <2> QED
    BY <2>1, <2>2, <2>3, <2>4
<1> QED
  BY <1>1, <1>2, <1>3 DEF WatchInv, WatchTyped, WatchedToTheEnd

-----------------------------------------------------------------------------

LEMMA WatchInvAlways == Spec => []WatchInv
<1>1. Init => WatchInv
  <2> SUFFICES ASSUME Init PROVE WatchInv
    OBVIOUS
  <2>1. WatchTyped
    BY NoTimerTyped, IdleTyped DEF Init, WatchTyped
  <2>2. WatchedToTheEnd
    BY DEF Init, WatchedToTheEnd
  <2> QED
    BY <2>1, <2>2 DEF WatchInv
<1>2. WatchInv /\ [Next]_vars => WatchInv'
  <2> SUFFICES ASSUME WatchInv, [Next]_vars PROVE WatchInv'
    OBVIOUS
  <2>1. CASE Watchers
    BY <2>1, FireKeepsWatch, WatchKeepsWatch DEF Watchers
  <2>2. CASE Plugin
    BY <2>2, ReceiveKeepsWatch, RemoveKeepsWatch, RoundsKeepWatch DEF Plugin
  <2>3. CASE \E c \in Nets : HandleRequest(c)
    BY <2>3, RequestKeepsWatch
  <2>4. CASE Tick \/ UNCHANGED vars
    <3>1. UNCHANGED <<data, timer, watcher, main>>
      BY <2>4 DEF Tick, vars
    <3> QED
      BY <3>1 DEF WatchInv, WatchTyped, WatchedToTheEnd
  <2> QED
    BY <2>1, <2>2, <2>3, <2>4 DEF Next
<1> QED
  BY <1>1, <1>2, PTL DEF Spec

\* Every network in the map has somebody who will remove it, although timers are
\* reset while they fire and networks are removed and come back (HandleRequest,
\* Remove and the goroutine of NewNetworkData).
THEOREM Watched == Spec => []WatchedToTheEnd
<1>1. WatchInv => WatchedToTheEnd
  BY DEF WatchInv
<1> QED
  BY <1>1, WatchInvAlways, PTL

-----------------------------------------------------------------------------
(* The counters of a network. *)

NDs == [totalMap : [Keys -> Nat], appMap : [Keys -> Nat], total : Nat, app : Nat, ratio : 0..Scale]

\* No bucket has more application requests than requests.
Within(d) == \A k \in Keys : d.appMap[k] <= d.totalMap[k]

Current(d) == d.total = Count(d.totalMap) /\ d.app = Count(d.appMap)

LEMMA KeysFinite == IsFiniteSet(Keys)
<1>1. IsFiniteSet(Times) /\ Keys \subseteq Times
  BY SizeAssumption, FS_Interval DEF Times, Keys
<1> QED
  BY <1>1, FS_Subset

LEMMA CountTyped == ASSUME NEW w \in [Keys -> Nat] PROVE Count(w) \in Nat
<1>1. SumFunctionOnSet(w, Keys) \in Nat
  BY KeysFinite, SumNotNegative
<1> QED
  BY <1>1 DEF Count, SumFunction

LEMMA CountMonotone ==
    ASSUME NEW v \in [Keys -> Nat], NEW w \in [Keys -> Nat], \A k \in Keys : v[k] <= w[k]
    PROVE  Count(v) <= Count(w)
<1>1. \A k \in Keys : v[k] \in Int /\ w[k] \in Int /\ v[k] <= w[k]
  OBVIOUS
<1>2. SumFunctionOnSet(v, Keys) <= SumFunctionOnSet(w, Keys)
  BY <1>1, KeysFinite, SumMonotone
<1> QED
  BY <1>2 DEF Count, SumFunction

LEMMA ProductMonotone ==
    ASSUME NEW n \in Nat, NEW a \in Nat, NEW b \in Nat, a <= b
    PROVE  n * a \in Nat /\ n * b \in Nat /\ n * a <= n * b
  OBVIOUS

LEMMA QuotientBounded ==
    ASSUME NEW n \in Nat, NEW p \in Nat, NEW b \in Nat, b > 0, p <= n * b
    PROVE  p \div b \in 0..n
  OBVIOUS

LEMMA RatioBounded ==
    ASSUME NEW app \in Nat, NEW total \in Nat, app <= total, total > 0
    PROVE  RatioOf(app, total) \in 0..Scale
<1>1. Scale * app \in Nat /\ Scale * app <= Scale * total
  BY ProductMonotone, SizeAssumption
<1> QED
  BY <1>1, QuotientBounded, SizeAssumption DEF RatioOf

LEMMA MapsReplaced ==
    ASSUME NEW d \in NDs, NEW w \in [Keys -> Nat], NEW v \in [Keys -> Nat],
           \A k \in Keys : v[k] <= w[k]
    PROVE  /\ [d EXCEPT !.totalMap = w, !.appMap = v] \in NDs
           /\ Within([d EXCEPT !.totalMap = w, !.appMap = v])
<1> DEFINE f == [d EXCEPT !.totalMap = w]
           e == [f EXCEPT !.appMap = v]
<1>1. f \in NDs /\ f.totalMap = w
  BY DEF NDs
<1> HIDE DEF f
<1>2. e \in NDs /\ e.totalMap = f.totalMap /\ e.appMap = v
  BY <1>1 DEF NDs
<1> HIDE DEF e
<1>3. [d EXCEPT !.totalMap = w, !.appMap = v] = e
  BY Zenon DEF e, f
<1> QED
  BY <1>1, <1>2, <1>3 DEF Within

LEMMA UpdatedGood ==
    ASSUME NEW d \in NDs, Within(d)
    PROVE  Updated(d) \in NDs /\ Within(Updated(d)) /\ Current(Updated(d))
<1> DEFINE total == Count(d.totalMap)
           app == Count(d.appMap)
           ratio == IF total > 0 THEN RatioOf(app, total) ELSE d.ratio
<1>1. d.totalMap \in [Keys -> Nat] /\ d.appMap \in [Keys -> Nat] /\ d.ratio \in 0..Scale
  BY DEF NDs
<1>2. total \in Nat /\ app \in Nat /\ app <= total
  BY <1>1, CountTyped, CountMonotone DEF Within
<1> HIDE DEF total, app
<1>3. ratio \in 0..Scale
  BY <1>1, <1>2, RatioBounded
<1> HIDE DEF ratio
<1>4. Updated(d) = [d EXCEPT !.total = total, !.app = app, !.ratio = ratio]
  BY DEF Updated, total, app, ratio
<1>5. Updated(d) = [totalMap |-> d.totalMap, appMap |-> d.appMap, total |-> total, app |-> app,
                    ratio |-> ratio]
  BY <1>4 DEF NDs
<1>6. Updated(d) \in NDs /\ Updated(d).totalMap = d.totalMap /\ Updated(d).appMap = d.appMap
      /\ Updated(d).total = total /\ Updated(d).app = app
  BY <1>1, <1>2, <1>3, <1>5 DEF NDs
<1> QED
  BY <1>6 DEF Within, Current, total, app

LEMMA NewGood ==
    NewNetworkData \in NDs /\ Within(NewNetworkData)
<1>1. NoRequests \in [Keys -> Nat]
  BY DEF NoRequests
<1>2. 0 \in 0..Scale
  BY SizeAssumption
<1> QED
  BY <1>1, <1>2 DEF NewNetworkData, NDs, Within, NoRequests

LEMMA OneMoreRequest ==
    ASSUME NEW u \in [Keys -> Nat], NEW x
    PROVE  /\ [u EXCEPT ![x] = @ + 1] \in [Keys -> Nat]
           /\ \A k \in Keys : [u EXCEPT ![x] = @ + 1][k] = IF k = x THEN u[k] + 1 ELSE u[k]
<1>1. CASE x \in Keys
  <2>1. u[x] + 1 \in Nat
    BY <1>1
  <2> QED
    BY <1>1, <2>1
<1>2. CASE x \notin Keys
  BY <1>2
<1> QED
  BY <1>1, <1>2

LEMMA WithRequestGood ==
    ASSUME NEW d \in NDs, Within(d), NEW t, NEW isApp \in BOOLEAN
    PROVE  /\ WithRequest(d, t, isApp) \in NDs
           /\ Within(WithRequest(d, t, isApp)) /\ Current(WithRequest(d, t, isApp))
<1> DEFINE one(u) == [u EXCEPT ![KeyFor(t)] = @ + 1]
           w == one(d.totalMap)
           v == IF isApp THEN one(d.appMap) ELSE d.appMap
           e == [d EXCEPT !.totalMap = w, !.appMap = v]
<1>1. d.totalMap \in [Keys -> Nat] /\ d.appMap \in [Keys -> Nat]
      /\ \A k \in Keys : d.appMap[k] <= d.totalMap[k]
  BY DEF NDs, Within
<1>2. w \in [Keys -> Nat] /\ v \in [Keys -> Nat] /\ \A k \in Keys : v[k] <= w[k]
  <2>1. \A u \in [Keys -> Nat] :
            /\ one(u) \in [Keys -> Nat]
            /\ \A k \in Keys : one(u)[k] = IF k = KeyFor(t) THEN u[k] + 1 ELSE u[k]
    BY OneMoreRequest
  <2> HIDE DEF one
  <2> QED
    BY <1>1, <2>1
<1> HIDE DEF w, v
<1>3. e \in NDs /\ Within(e)
  BY <1>2, MapsReplaced
<1>4. [d EXCEPT !.totalMap = one(@), !.appMap = IF isApp THEN one(@) ELSE @] = e
  BY DEF NDs, w, v
<1>5. WithRequest(d, t, isApp) = Updated(e)
  BY <1>4 DEF WithRequest
<1> HIDE DEF e
<1> QED
  BY <1>3, <1>5, UpdatedGood

LEMMA ExpiredGood ==
    ASSUME NEW d \in NDs, Within(d), NEW t \in Int
    PROVE  /\ Expired(d, t) \in NDs /\ Within(Expired(d, t))
           /\ Current(d) => Current(Expired(d, t))
<1> DEFINE w == Unexpired(d.totalMap, t)
           v == Unexpired(d.appMap, t)
           e == [d EXCEPT !.totalMap = w, !.appMap = v]
<1>1. d.totalMap \in [Keys -> Nat] /\ d.appMap \in [Keys -> Nat]
      /\ \A k \in Keys : d.appMap[k] <= d.totalMap[k]
  BY DEF NDs, Within
<1>2. w \in [Keys -> Nat] /\ v \in [Keys -> Nat] /\ \A k \in Keys : v[k] <= w[k]
  BY <1>1 DEF Unexpired
<1> HIDE DEF w, v
<1>3. e \in NDs /\ Within(e)
  BY <1>2, MapsReplaced
<1>4. Expired(d, t) = IF e = d THEN d ELSE Updated(e)
  BY DEF Expired, w, v
<1> HIDE DEF e
<1> QED
  BY <1>3, <1>4, UpdatedGood

-----------------------------------------------------------------------------
(* Types, and the statistics of the networks in the map. *)

CountInv ==
    /\ now \in Times /\ data \subseteq Nets /\ arrived \in 0..MaxRequests
    /\ nd \in [Nets -> NDs] /\ \A c \in Nets : Within(nd[c])
    /\ until \in [Nets \cup ASNs -> Nat]
    /\ CountsCurrent

LEMMA CountInvInit == Init => CountInv
<1> SUFFICES ASSUME Init PROVE CountInv
  OBVIOUS
<1>1. 0 \in Times /\ 0 \in 0..MaxRequests
  BY SizeAssumption DEF Times
<1>2. data = {} /\ nd \in [Nets -> NDs] /\ \A c \in Nets : Within(nd[c])
  BY NewGood DEF Init
<1> QED
  BY <1>1, <1>2 DEF Init, CountInv, CountsCurrent

LEMMA RequestKeepsCounts ==
    ASSUME CountInv, NEW c \in Nets, HandleRequest(c) PROVE CountInv'
<1> DEFINE d == IF c \in data THEN nd[c] ELSE NewNetworkData
<1>1. d \in NDs /\ Within(d)
  BY NewGood DEF CountInv
<1>2. PICK t \in Times, isApp \in BOOLEAN : nd' = [nd EXCEPT ![c] = WithRequest(d, t, isApp)]
  BY DEF HandleRequest
<1> HIDE DEF d
<1>3. /\ nd'[c] \in NDs /\ Within(nd'[c]) /\ Current(nd'[c])
      /\ \A b \in Nets : b # c => nd'[b] = nd[b]
      /\ nd' \in [Nets -> NDs]
  <2>1. WithRequest(d, t, isApp) \in NDs /\ Within(WithRequest(d, t, isApp))
        /\ Current(WithRequest(d, t, isApp))
    BY <1>1, WithRequestGood
  <2> QED
    BY <1>2, <2>1 DEF CountInv
<1>4. data' = data \cup {c} /\ UNCHANGED <<now, until>> /\ arrived' \in 0..MaxRequests
  BY SizeAssumption DEF HandleRequest, CountInv
<1>5. CountsCurrent'
  BY <1>3, <1>4 DEF CountsCurrent, CountInv, Current
<1> QED
  BY <1>3, <1>4, <1>5 DEF CountInv

LEMMA RoundKeepsCounts ==
    ASSUME CountInv, UpdateAndBlock PROVE CountInv'
<1>1. nd' = [c \in Nets |-> IF c \in data THEN Expired(nd[c], now) ELSE nd[c]]
      /\ UNCHANGED <<now, data, until, arrived>>
  BY DEF UpdateAndBlock
<1>2. now \in Int
  BY DEF CountInv, Times
<1>3. ASSUME NEW c \in Nets
      PROVE  nd'[c] \in NDs /\ Within(nd'[c]) /\ (c \in data => Current(nd'[c]))
  <2>1. nd[c] \in NDs /\ Within(nd[c]) /\ (c \in data => Current(nd[c]))
    BY DEF CountInv, CountsCurrent, Current
  <2>2. nd'[c] = IF c \in data THEN Expired(nd[c], now) ELSE nd[c]
    BY <1>1
  <2> QED
    BY <1>2, <2>1, <2>2, ExpiredGood
<1>4. nd' \in [Nets -> NDs]
  BY <1>1, <1>3
<1>5. CountsCurrent'
  BY <1>1, <1>3 DEF CountInv, CountsCurrent, Current
<1> QED
  BY <1>1, <1>3, <1>4, <1>5 DEF CountInv

LEMMA RemoveKeepsCounts ==
    ASSUME CountInv, Remove PROVE CountInv'
<1>1. PICK c : data' = data \ {c} /\ nd' = [nd EXCEPT ![c] = NewNetworkData]
  BY DEF Remove, Removed
<1>2. \A b \in Nets : nd'[b] = nd[b] \/ (b = c /\ nd'[b] = NewNetworkData)
  BY <1>1 DEF CountInv
<1>3. nd' \in [Nets -> NDs] /\ \A b \in Nets : Within(nd'[b])
  BY <1>1, <1>2, NewGood DEF CountInv
<1>4. CountsCurrent'
  BY <1>1, <1>2 DEF CountInv, CountsCurrent
<1> QED
  BY <1>1, <1>3, <1>4 DEF Remove, CountInv

LEMMA EntryKeepsCounts ==
    ASSUME CountInv, BlockASN \/ BlockNetwork PROVE CountInv'
<1>1. UNCHANGED <<now, data, nd, arrived>>
  BY DEF BlockASN, BlockNetwork
<1>2. until' = until \/ \E x : until' = [until EXCEPT ![x] = now + BlockTTL]
  BY DEF BlockASN, BlockNetwork, Entered
<1>3. now + BlockTTL \in Nat
  BY SizeAssumption DEF CountInv, Times
<1> QED
  BY <1>1, <1>2, <1>3 DEF CountInv, CountsCurrent

LEMMA CountInvStep == CountInv /\ [Next]_vars => CountInv'
<1> SUFFICES ASSUME CountInv, [Next]_vars PROVE CountInv'
  OBVIOUS
<1>1. CASE UNCHANGED <<now, data, nd, until, arrived>>
  BY <1>1 DEF CountInv, CountsCurrent
<1>2. CASE Tick
  <2>1. now' \in Times /\ UNCHANGED <<data, nd, until, arrived>>
    BY <1>2, SizeAssumption DEF Tick, CountInv, Times
  <2> QED
    BY <2>1 DEF CountInv, CountsCurrent
<1> QED
  BY <1>1, <1>2, RequestKeepsCounts, RoundKeepsCounts, RemoveKeepsCounts, EntryKeepsCounts
     DEF Next, Watchers, Plugin, Fire, Watch, Receive, CheckBlocked, vars

LEMMA CountInvAlways == Spec => []CountInv
  BY CountInvInit, CountInvStep, PTL DEF Spec

\* Types; a ratio is never above one, since no bucket has more application
\* requests than requests (updateStats).
THEOREM Typing == Spec => []TypeOK
<1>1. WatchInv /\ CountInv => TypeOK
  BY DEF WatchInv, WatchTyped, CountInv, TypeOK, Timers, Mains, NDs
<1> QED
  BY <1>1, WatchInvAlways, CountInvAlways, PTL

\* The statistics that decide about a block are those of the buckets, although
\* expire brings them up to date only if a bucket has gone.
THEOREM Counted == Spec => []CountsCurrent
<1>1. CountInv => CountsCurrent
  BY DEF CountInv
<1> QED
  BY <1>1, CountInvAlways, PTL

-----------------------------------------------------------------------------
(* What is above the limits. *)

\* No entry of the block list runs out while a round is blocking.
RoundKeepsEntries ==
    main.pc = "block" => \A x \in Nets \cup ASNs : Listed(x) => Listed(x)'

\* A system or network above the limits is yet to be dealt with, or is covered by an
\* entry, or the store has refused its own.
Covered(a) == Listed(a) \/ \E c \in Nets : ASNOf[c] = a /\ Listed(c)
CoverInv ==
    main.pc = "block" =>
        /\ \A a \in main.asnsOver \ main.failed : Covered(a) \/ \E c \in main.asns : ASNOf[c] = a
        /\ \A c \in main.netsOver \ main.failed : IsBlockedByASN(c) \/ c \in main.nets

\* A write that nothing stops leaves an entry.
LEMMA EntryLists ==
    ASSUME until \in [Nets \cup ASNs -> Nat], now \in Nat, now' = now, NEW x \in Nets \cup ASNs,
           Entered(x, FALSE, FALSE)
    PROVE  Listed(x)'
<1>1. CASE Listed(x)
  BY <1>1 DEF Entered, Listed
<1>2. CASE ~Listed(x)
  <2>1. until'[x] = now + BlockTTL
    BY <1>2 DEF Entered
  <2> QED
    BY <2>1, SizeAssumption DEF Listed
<1> QED
  BY <1>1, <1>2

LEMMA CoverInvStep ==
    ASSUME WatchInv, CountInv, CoverInv, [Next]_vars, [RoundKeepsEntries]_vars PROVE CoverInv'
<1>0. main \in Mains /\ until \in [Nets \cup ASNs -> Nat] /\ now \in Nat
  BY DEF WatchInv, WatchTyped, CountInv, Times
<1>1. CASE UpdateAndBlock
  <2>1. CASE main' = Idle
    BY <2>1, IdleTyped DEF CoverInv
  <2> DEFINE asns == {a \in ASNs : TooMany(nd', NetsOf(a))}
             nets == {c \in data : TooMany(nd', {c})}
  <2>2. ASSUME NEW first \in [asns -> data], \A a \in asns : ASNOf[first[a]] = a,
               main' = [pc |-> "block", net |-> {}, asns |-> {first[a] : a \in asns},
                        nets |-> nets, asnsOver |-> asns, netsOver |-> nets, failed |-> {}]
        PROVE  CoverInv'
    <3> HIDE DEF asns, nets
    <3>1. main'.asnsOver = asns /\ main'.asns = {first[a] : a \in asns}
          /\ main'.netsOver = nets /\ main'.nets = nets
      BY <2>2
    <3>2. \A a \in main'.asnsOver : \E c \in main'.asns : ASNOf[c] = a
      BY <2>2, <3>1
    <3> QED
      BY <3>1, <3>2 DEF CoverInv
  <2> QED
    BY <1>1, <2>1, <2>2 DEF UpdateAndBlock
<1>2. CASE main.pc = "block"
  <2>1. /\ \A a \in ASNs : Covered(a) => Covered(a)'
        /\ \A c \in Nets : IsBlockedByASN(c) => IsBlockedByASN(c)'
    BY <1>2, NetAssumption DEF RoundKeepsEntries, Covered, IsBlockedByASN, vars, Listed
  <2>2. /\ main.asnsOver \subseteq ASNs /\ main.asns \subseteq Nets
        /\ main.netsOver \subseteq Nets /\ main.nets \subseteq Nets
    BY <1>0 DEF Mains
  <2>3. CASE BlockASN
    <3>1. PICK c \in main.asns, blocked \in BOOLEAN, fails \in BOOLEAN :
              EntersASN(c, blocked, fails)
      BY <1>0, <2>3, ASNStep
    <3>2. c \in Nets /\ ASNOf[c] \in ASNs /\ now' = now
      BY <2>2, <2>3, <3>1, NetAssumption DEF BlockASN
    <3>3. Covered(ASNOf[c])' \/ ASNOf[c] \in main'.failed
      <4>1. CASE blocked
        <5>1. IsBlockedByASN(c)'
          BY <2>1, <3>1, <3>2, <4>1 DEF EntersASN
        <5> QED
          BY <3>2, <5>1 DEF IsBlockedByASN, Covered
      <4>2. CASE ~blocked /\ fails
        BY <3>1, <4>2 DEF EntersASN, Refused, GoesOn
      <4>3. CASE ~blocked /\ ~fails
        BY <1>0, <3>1, <3>2, <4>3, EntryLists DEF EntersASN, Covered
      <4> QED
        BY <4>1, <4>2, <4>3
    <3>4. /\ main'.asnsOver = main.asnsOver /\ main'.asns = main.asns \ {c}
          /\ main'.netsOver = main.netsOver /\ main'.nets = main.nets
          /\ main.failed \subseteq main'.failed
      BY <3>1 DEF EntersASN, GoesOn
    <3>5. \A a \in main'.asnsOver \ main'.failed : Covered(a)' \/ \E d \in main'.asns : ASNOf[d] = a
      BY <1>2, <2>1, <2>2, <3>3, <3>4 DEF CoverInv
    <3>6. \A d \in main'.netsOver \ main'.failed : IsBlockedByASN(d)' \/ d \in main'.nets
      BY <1>2, <2>1, <2>2, <3>4 DEF CoverInv
    <3> QED
      BY <3>5, <3>6 DEF CoverInv
  <2>4. CASE BlockNetwork
    <3>1. PICK c \in main.nets, blocked \in BOOLEAN, fails \in BOOLEAN :
              EntersNetwork(c, blocked, fails)
      BY <1>0, <2>4, NetworkStep
    <3>2. c \in Nets /\ now' = now
      BY <2>2, <2>4, <3>1 DEF BlockNetwork
    <3>3. IsBlockedByASN(c)' \/ c \in main'.failed
      <4>1. CASE blocked
        BY <2>1, <3>1, <3>2, <4>1 DEF EntersNetwork
      <4>2. CASE ~blocked /\ fails
        BY <3>1, <4>2 DEF EntersNetwork, Refused, GoesOn
      <4>3. CASE ~blocked /\ ~fails
        BY <1>0, <3>1, <3>2, <4>3, EntryLists DEF EntersNetwork, IsBlockedByASN
      <4> QED
        BY <4>1, <4>2, <4>3
    <3>4. /\ main'.asnsOver = main.asnsOver /\ main'.asns = main.asns
          /\ main'.netsOver = main.netsOver /\ main'.nets = main.nets \ {c}
          /\ main.failed \subseteq main'.failed
      BY <3>1 DEF EntersNetwork, GoesOn
    <3>5. \A a \in main'.asnsOver \ main'.failed : Covered(a)' \/ \E d \in main'.asns : ASNOf[d] = a
      BY <1>2, <2>1, <2>2, <3>4 DEF CoverInv
    <3>6. \A d \in main'.netsOver \ main'.failed : IsBlockedByASN(d)' \/ d \in main'.nets
      BY <1>2, <2>1, <2>2, <3>3, <3>4 DEF CoverInv
    <3> QED
      BY <3>5, <3>6 DEF CoverInv
  <2>5. CASE CheckBlocked
    BY <2>5, IdleTyped DEF CheckBlocked, CoverInv
  <2>6. CASE main' = main
    BY <1>2, <2>1, <2>2, <2>6 DEF CoverInv
  <2> QED
    BY <1>2, <2>3, <2>4, <2>5, <2>6
       DEF Next, Watchers, Plugin, HandleRequest, Fire, Watch, Receive, Remove, UpdateAndBlock,
           Tick, vars
<1>3. CASE main.pc # "block" /\ ~UpdateAndBlock
  <2>1. main' = main \/ main'.pc = "remove" \/ main' = Idle
    <3>1. ASSUME NEW c \in Nets, Receive(c) PROVE main'.pc = "remove"
      <4>1. main' = [main EXCEPT !.pc = "remove", !.net = {c}]
        BY <3>1 DEF Receive
      <4> QED
        BY <1>0, <4>1 DEF Mains
    <3> QED
      BY <1>3, <3>1 DEF Next, Watchers, Plugin, HandleRequest, Fire, Watch, Remove, BlockASN,
                        BlockNetwork, CheckBlocked, Tick, vars
  <2> QED
    BY <1>3, <2>1, IdleTyped DEF CoverInv
<1> QED
  BY <1>1, <1>2, <1>3

\* After a round of updateAndBlock every autonomous system that was above the
\* limits has an entry in the block list, or one of its networks has, and every
\* such network has one, or its system: if no entry runs out while the round is
\* blocking, and unless the store refused that one's entry (BlockASN, BlockNetwork).
THEOREM RoundCovers == Spec /\ [][RoundKeepsEntries]_vars => []OverLimitCovered
<1>1. Init => CoverInv
  BY IdleTyped DEF Init, CoverInv
<1>2. WatchInv /\ CountInv /\ CoverInv /\ [Next]_vars /\ [RoundKeepsEntries]_vars => CoverInv'
  BY CoverInvStep
<1>3. CoverInv => OverLimitCovered
  BY DEF CoverInv, OverLimitCovered, Covered
<1> QED
  BY <1>1, <1>2, <1>3, WatchInvAlways, CountInvAlways, PTL DEF Spec

\* In particular if the clock stops before an entry can run out.
THEOREM LastingEntriesCover == ASSUME BlockTTL > MaxTime PROVE Spec => []OverLimitCovered
<1> DEFINE Lasting == \A x \in Nets \cup ASNs : until[x] = 0 \/ until[x] > MaxTime
<1>1. Init => Lasting
  BY DEF Init
<1>2. CountInv /\ Lasting /\ [Next]_vars => Lasting'
  <2> SUFFICES ASSUME CountInv, Lasting, [Next]_vars PROVE Lasting'
    OBVIOUS
  <2>1. now + BlockTTL > MaxTime
    BY SizeAssumption DEF CountInv, Times
  <2>2. until' = until \/ \E x : until' = [until EXCEPT ![x] = now + BlockTTL]
    BY DEF Next, Watchers, Plugin, HandleRequest, Fire, Watch, Receive, Remove, UpdateAndBlock,
           BlockASN, BlockNetwork, Entered, CheckBlocked, Tick, vars
  <2> QED
    BY <2>1, <2>2 DEF CountInv
<1>3. CountInv /\ CountInv' /\ Lasting /\ Lasting' /\ [Next]_vars => [RoundKeepsEntries]_vars
  <2> SUFFICES ASSUME CountInv, CountInv', Lasting, [Next]_vars,
                      NEW x \in Nets \cup ASNs, Listed(x)
               PROVE  Listed(x)'
    BY DEF RoundKeepsEntries
  <2>1. until[x] > MaxTime /\ until[x] \in Nat
    BY DEF CountInv, Times, Listed
  <2>2. until'[x] = until[x] \/ until'[x] = now + BlockTTL
    BY DEF CountInv, Next, Watchers, Plugin, HandleRequest, Fire, Watch, Receive, Remove,
           UpdateAndBlock, BlockASN, BlockNetwork, Entered, CheckBlocked, Tick, vars
  <2>3. now' \in 0..MaxTime /\ now \in 0..MaxTime
    BY DEF CountInv, Times
  <2> QED
    BY <2>1, <2>2, <2>3, SizeAssumption DEF Listed
<1> QED
  BY <1>1, <1>2, <1>3, RoundCovers, CountInvAlways, PTL DEF Spec
=============================================================================
