------------------------------ MODULE Networks ------------------------------
(***************************************************************************)
(* The Networks plugin: the counters of each network (NetworkData), the     *)
(* goroutine that watches each network's expiration timer, the plugin's own *)
(* goroutine, which removes networks and blocks networks and autonomous     *)
(* systems, and Block.BlockASN and Block.BlockNetwork behind it.            *)
(*                                                                         *)
(* HandleRequest runs under Networks.mutex and is one step.                 *)
(***************************************************************************)
EXTENDS Integers, FiniteSets, FiniteSetsExt, Functions

CONSTANTS
    Nets,          \* networks
    ASNs,          \* autonomous systems
    ASNOf,         \* ASNOf[c]: the autonomous system of network c
    WindowSize,    \* config.WindowSize
    NumWindows,    \* config.NumWindows
    RequestLimit,  \* config.MaxAppRequests
    MaxRatio,      \* config.MaxRatio, in units of 1/Scale
    Scale,         \* ratios are whole numbers of 1/Scale: a multiple of every total
    BlockTTL,      \* config.BlockTTL
    MaxDelay,      \* bound: a request is at most this old when it arrives
    LastArrival,   \* bound: no request arrives later
    MaxTime,       \* bound: the clock
    MaxRequests    \* bound: requests that arrive

ASSUME NetAssumption == ASNOf \in [Nets -> ASNs]
ASSUME SizeAssumption ==
    /\ WindowSize \in Nat \ {0} /\ NumWindows \in Nat \ {0} /\ BlockTTL \in Nat \ {0}
    /\ RequestLimit \in Nat /\ Scale \in Nat \ {0} /\ MaxRatio \in 0..Scale
    /\ MaxDelay \in Nat /\ LastArrival \in Nat /\ MaxTime \in Nat /\ MaxRequests \in Nat

Times == 0..MaxTime

VARIABLES
    now,      \* the clock
    data,     \* Networks.data: the networks that have a NetworkData
    nd,       \* the NetworkData of each network
    timer,    \* its timer: when it fires, and whether its channel holds a tick
    watcher,  \* the goroutine started by NewNetworkData
    main,     \* the goroutine started by NewNetworks
    until,    \* block list: when the entry of a network or an AS expires
    arrived   \* requests so far

vars == <<now, data, nd, timer, watcher, main, until, arrived>>

-----------------------------------------------------------------------------
(* NetworkData. *)

\* keyFor
KeyFor(t) == t - (t % WindowSize)
Keys == {t \in Times : t % WindowSize = 0}
NoRequests == [k \in Keys |-> 0]

Count(w) == SumFunction(w)

\* expireStats: the buckets that are left at time t
Unexpired(w, t) == [k \in Keys |-> IF k >= t - WindowSize * NumWindows THEN w[k] ELSE 0]

\* A slip: the maps are expired and the statistics are not.
ExpiredMaps(d, t) == [d EXCEPT !.totalMap = Unexpired(@, t), !.appMap = Unexpired(@, t)]

\* A slip: total requests by app requests.
InverseRatio(app, total) == IF app = 0 THEN 0 ELSE (Scale * total) \div app

RatioOf(app, total) == (Scale * app) \div total

\* updateStats: the ratio keeps its value when there are no requests.
Updated(d) ==
    LET total == Count(d.totalMap)
        app == Count(d.appMap)
    IN  [d EXCEPT !.total = total, !.app = app,
                  !.ratio = IF total > 0 THEN RatioOf(app, total) ELSE d.ratio]

NewNetworkData == [totalMap |-> NoRequests, appMap |-> NoRequests,
                   total |-> 0, app |-> 0, ratio |-> 0]

\* HandleRequest's counting
WithRequest(d, t, isApp) ==
    LET one(w) == [w EXCEPT ![KeyFor(t)] = @ + 1]
    IN  Updated([d EXCEPT !.totalMap = one(@), !.appMap = IF isApp THEN one(@) ELSE @])

\* expire: the statistics are brought up to date if a bucket has gone.
Expired(d, t) ==
    LET left == [d EXCEPT !.totalMap = Unexpired(@, t), !.appMap = Unexpired(@, t)]
    IN  IF left = d THEN d ELSE Updated(left)

-----------------------------------------------------------------------------
(* Requests and timers. *)

NoTimer == [fires |-> 0, armed |-> FALSE, ticked |-> FALSE]

\* Networks.HandleRequest and NetworkData.HandleRequest: the request is counted
\* and the timer reset, counting from the request's own time.  A tick that is
\* already in the timer's channel stays there.
HandleRequest(c) ==
    /\ arrived < MaxRequests /\ now <= LastArrival
    /\ arrived' = arrived + 1
    /\ \E t \in Times, isApp \in BOOLEAN :
          /\ t \in (now - MaxDelay)..now
          /\ nd' = [nd EXCEPT ![c] = WithRequest(IF c \in data THEN @ ELSE NewNetworkData, t, isApp)]
          /\ timer' = [timer EXCEPT ![c] =
                [fires |-> t + WindowSize * NumWindows, armed |-> TRUE,
                 ticked |-> c \in data /\ @.ticked]]
    /\ data' = data \cup {c}
    /\ watcher' = IF c \in data THEN watcher ELSE [watcher EXCEPT ![c] = "wait"]
    /\ UNCHANGED <<now, main, until>>

\* The timer fires, no earlier than it should.
Fire(c) ==
    /\ timer[c].armed /\ now >= timer[c].fires
    /\ timer' = [timer EXCEPT ![c] = [@ EXCEPT !.armed = FALSE, !.ticked = TRUE]]
    /\ UNCHANGED <<now, data, nd, watcher, main, until, arrived>>

\* The watching goroutine takes the tick and will send the network on removeChan.
Watch(c) ==
    /\ watcher[c] = "wait" /\ timer[c].ticked
    /\ watcher' = [watcher EXCEPT ![c] = "send"]
    /\ timer' = [timer EXCEPT ![c].ticked = FALSE]
    /\ UNCHANGED <<now, data, nd, main, until, arrived>>

-----------------------------------------------------------------------------
(* The plugin's goroutine. *)

\* A round remembers what it found above the limits and what the store refused
\* (asnsOver, netsOver, failed); the code keeps neither beyond the step.
Idle == [pc |-> "idle", net |-> {}, asns |-> {}, nets |-> {},
         asnsOver |-> {}, netsOver |-> {}, failed |-> {}]

\* It receives on removeChan; the watcher returns.
Receive(c) ==
    /\ main.pc = "idle" /\ watcher[c] = "send"
    /\ main' = [main EXCEPT !.pc = "remove", !.net = {c}]
    /\ watcher' = [watcher EXCEPT ![c] = "returned"]
    /\ UNCHANGED <<now, data, nd, timer, until, arrived>>

\* A slip: a network that has requests stays.
RemovedIfEmpty(c) == IF nd[c].total = 0 THEN data \ {c} ELSE data

Removed(c) == data \ {c}

\* Remove; nobody holds the removed network's timer any more.
Remove ==
    /\ main.pc = "remove"
    /\ \E c \in main.net :
          /\ data' = Removed(c)
          /\ timer' = IF c \in data' THEN timer ELSE [timer EXCEPT ![c] = NoTimer]
          /\ nd' = IF c \in data' THEN nd ELSE [nd EXCEPT ![c] = NewNetworkData]
    /\ main' = Idle
    /\ UNCHANGED <<now, watcher, until, arrived>>

\* Above the limits, with the mean of the networks' ratios.
TooMany(d, cs) ==
    /\ cs # {}
    /\ MapThenSumSet(LAMBDA c : d[c].total, cs) > RequestLimit
    /\ MapThenSumSet(LAMBDA c : d[c].ratio, cs) > Cardinality(cs) * MaxRatio

NetsOf(a) == {c \in data : ASNOf[c] = a}

\* updateAndBlock, first part, under the read lock: every network is expired and
\* added up, and the autonomous systems and networks above the limits are found.
\* The record of a system is that of its first network, in any order.
UpdateAndBlock ==
    /\ main.pc = "idle"
    /\ nd' = [c \in Nets |-> IF c \in data THEN Expired(nd[c], now) ELSE nd[c]]
    /\ LET asns == {a \in ASNs : TooMany(nd', NetsOf(a))}
           nets == {c \in data : TooMany(nd', {c})}
       IN  \/ asns = {} /\ nets = {} /\ main' = Idle
           \/ /\ asns # {} \/ nets # {}
              /\ \E first \in [asns -> data] :
                    /\ \A a \in asns : ASNOf[first[a]] = a
                    /\ main' = [pc |-> "block", net |-> {}, asns |-> {first[a] : a \in asns},
                                nets |-> nets, asnsOver |-> asns, netsOver |-> nets,
                                failed |-> {}]
    /\ UNCHANGED <<now, data, timer, watcher, until, arrived>>

Listed(x) == until[x] > now

\* A slip: the errors of the two look-ups are tested the wrong way round.
IsNotBlockedByASN(c) == ~Listed(ASNOf[c]) /\ ~Listed(c)

\* Block.IsBlockedByASN of the record of network c
IsBlockedByASN(c) == Listed(ASNOf[c]) \/ Listed(c)

\* The entry of x is written, unless x is listed, by itself or as blocked says, or
\* the store fails.
Entered(x, blocked, fails) ==
    until' = IF blocked \/ fails \/ Listed(x) THEN until ELSE [until EXCEPT ![x] = now + BlockTTL]

Refused(x, blocked, fails) == IF ~blocked /\ fails THEN {x} ELSE {}

\* BlockASN, with the record of the network c: nothing happens when that network
\* is listed.  A look-up that fails says "not blocked"; updateAndBlock drops the
\* errors of the store and goes on with the next system.
BlockASN ==
    /\ main.pc = "block"
    /\ \E c \in main.asns, missed \in BOOLEAN, fails \in BOOLEAN :
          LET blocked == IsBlockedByASN(c) /\ ~missed
          IN  /\ Entered(ASNOf[c], blocked, fails)
              /\ main' = [main EXCEPT !.asns = @ \ {c},
                                      !.failed = @ \cup Refused(ASNOf[c], blocked, fails)]
    /\ UNCHANGED <<now, data, nd, timer, watcher, arrived>>

\* BlockNetwork, when all systems have been dealt with
BlockNetwork ==
    /\ main.pc = "block" /\ main.asns = {}
    /\ \E c \in main.nets, missed \in BOOLEAN, fails \in BOOLEAN :
          LET blocked == IsBlockedByASN(c) /\ ~missed
          IN  /\ Entered(c, blocked, fails)
              /\ main' = [main EXCEPT !.nets = @ \ {c},
                                      !.failed = @ \cup Refused(c, blocked, fails)]
    /\ UNCHANGED <<now, data, nd, timer, watcher, arrived>>

\* CheckBlocked, which wakes blockASNNetWorker (see BlockPipeline)
CheckBlocked ==
    /\ main.pc = "block" /\ main.asns = {} /\ main.nets = {}
    /\ main' = Idle
    /\ UNCHANGED <<now, data, nd, timer, watcher, until, arrived>>

-----------------------------------------------------------------------------

Tick ==
    /\ now < MaxTime
    /\ now' = now + 1
    /\ UNCHANGED <<data, nd, timer, watcher, main, until, arrived>>

Init ==
    /\ now = 0
    /\ data = {}
    /\ nd = [c \in Nets |-> NewNetworkData]
    /\ timer = [c \in Nets |-> NoTimer]
    /\ watcher = [c \in Nets |-> "returned"]
    /\ main = Idle
    /\ until = [x \in Nets \cup ASNs |-> 0]
    /\ arrived = 0

Watchers == \E c \in Nets : Fire(c) \/ Watch(c)

Plugin == (\E c \in Nets : Receive(c)) \/ Remove \/ UpdateAndBlock
              \/ BlockASN \/ BlockNetwork \/ CheckBlocked

Next == (\E c \in Nets : HandleRequest(c)) \/ Watchers \/ Plugin \/ Tick

Spec == Init /\ [][Next]_vars

\* The clock goes on, timers fire, goroutines run, and the select of the plugin's
\* goroutine does not forever prefer its ticker to a waiting watcher.
Fairness ==
    /\ WF_vars(Tick)
    /\ \A c \in Nets : WF_vars(Fire(c)) /\ WF_vars(Watch(c)) /\ SF_vars(Receive(c))
    /\ WF_vars(Remove) /\ WF_vars(BlockASN \/ BlockNetwork \/ CheckBlocked)

FairSpec == Spec /\ Fairness

-----------------------------------------------------------------------------
(* Properties. *)

\* The types of the variables; a ratio is never above one.
TypeOK ==
    /\ now \in Times /\ data \subseteq Nets /\ arrived \in 0..MaxRequests
    /\ nd \in [Nets -> [totalMap : [Keys -> Nat], appMap : [Keys -> Nat],
                        total : Nat, app : Nat, ratio : 0..Scale]]
    /\ timer \in [Nets -> [fires : Nat, armed : BOOLEAN, ticked : BOOLEAN]]
    /\ watcher \in [Nets -> {"wait", "send", "returned"}]
    /\ main \in [pc : {"idle", "remove", "block"}, net : SUBSET Nets, asns : SUBSET Nets,
                 nets : SUBSET Nets, asnsOver : SUBSET ASNs, netsOver : SUBSET Nets,
                 failed : SUBSET (Nets \cup ASNs)]
    /\ until \in [Nets \cup ASNs -> Nat]

\* Every network in the map has somebody who will remove it: a watcher whose
\* timer is armed or has ticked, or who is sending, or the plugin's goroutine
\* about to remove it.  Otherwise the map would grow forever.
WatchedToTheEnd ==
    \A c \in data :
        \/ watcher[c] = "wait" /\ (timer[c].armed \/ timer[c].ticked)
        \/ watcher[c] = "send"
        \/ main.pc = "remove" /\ c \in main.net

\* The statistics that decide about a block are those of the buckets.
CountsCurrent ==
    \A c \in data : nd[c].total = Count(nd[c].totalMap) /\ nd[c].app = Count(nd[c].appMap)

\* After a round, every autonomous system that was above the limits is listed, or
\* one of its networks is, and every such network is listed, or its system is:
\* unless the store refused its own entry.  No failure costs another one its entry.
\* (The TTL is longer than the round.)
OverLimitCovered ==
    (main.pc = "block" /\ main.asns = {}) =>
        /\ \A a \in main.asnsOver \ main.failed :
              Listed(a) \/ \E c \in Nets : ASNOf[c] = a /\ Listed(c)
        /\ \A c \in main.netsOver \ (main.nets \cup main.failed) : IsBlockedByASN(c)

\* When requests stop, every network is forgotten.
Forgotten == <>[](data = {})

-----------------------------------------------------------------------------
(* What comments say and the code does not keep. *)

\* network.go: "Remove deletes a network from the list of networks, e.g. when all
\* its requests have expired": no request of the last windows is forgotten.
RemovedIsExpired ==
    [][\A c \in data, k \in Keys :
          (c \notin data' /\ nd[c].totalMap[k] > 0) => k <= now - WindowSize * NumWindows]_vars

\* block.go: "BlockaASN writes an entire autonomous system (AS) to the block
\* list", which updateAndBlock asks for when the system is above the limits.
OverLimitASNListed ==
    (main.pc = "block" /\ main.asns = {}) => \A a \in main.asnsOver \ main.failed : Listed(a)

\* README: "looking at the total : HTML ratio based on networks and autonomous
\* systems": a system is blocked for its own ratio.
ASNRatioIsHigh ==
    [][\A a \in main'.asnsOver \ main.asnsOver :
          LET cs == {c \in data : ASNOf[c] = a}
          IN  Scale * MapThenSumSet(LAMBDA c : nd'[c].app, cs) >
                  MaxRatio * MapThenSumSet(LAMBDA c : nd'[c].total, cs)]_vars
=============================================================================
