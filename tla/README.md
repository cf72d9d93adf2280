# A TLA+ specification of botex

botex watches the requests of a web server, decides which addresses, networks and
autonomous systems behave like bots, and keeps a block list.  This directory holds
a specification of the part that decides: eight goroutine families that share
objects without locks, hand orders to each other over bounded channels and mirror
one another's state.  `PROJECT.json` says which lines each definition translates.

## 1. The system

| Component | State | Operations | Talks to |
|---|---|---|---|
| `Botex.HandleRequest` (botex.go) | none | one call per request: NATS callback, `WebserverSocket`, log replay | `History.Add`, dashboard queue, plugins |
| `History` (history.go) | address -> `*IPData`, under a mutex | `Add`, `update`, `expire`, `SetHostname` | `IPData`, `StatsWindows`, dashboard queue |
| `IPData` (ipdata.go) | cached counters, `Hostname`, `Whitelisted`, `IsBlocked`, `LastBlockAt`, `ForceBlock` | `Add`, `Update`, `ShouldBeBlocked`, `SetHostname` | `Requests`, `Whitelist`, `Resolver`, `BlockChan` |
| `Requests` and windows (requests.go, window.go, mapwindow.go, requestwindow.go) | counts per window, per kind and user agent; the latest requests | `Add`, `Expire` | the history goroutine |
| `Block` (block.go) | entries with a TTL in the store | `BlockIP`, `BlockNetwork`, `BlockASN`, `cleanup`, `CheckBlocked` | store, whitelist |
| workers (botex.go) | - | `blockWorker`, `blockASNNetWorker`, `resolvWorker` | `Block`, `History` |
| `Whitelist` (whitelist.go) | rules, reloaded when the file changes | `Load`, `IsWhitelisted` | recheck channel of `Block` |
| `Resolver` (resolver.go) | NATS topic, host name cache in the store | `Resolve`, `worker` | DNS, `resolvWorker` |
| `Networks` (plugins/network.go) | `NetworkData` per network, each with a timer and a goroutine | `HandleRequest`, `Remove`, `updateAndBlock` | `Block` |
| dashboard (api.go, resources.go) | queue of 100 messages, websocket clients | `processWebsocketData`, `websocketHandler` | clients |
| `StatsWindows` (stats.go) | counts per decision and window | `Add`, `Expire` | store |
| `WebserverSocket` (webserversocket.go) | per connection, the variable its lines are unmarshalled into | `run`, `serve`, `decide`, `lookup` | `HandleRequest`, `Block` |

What is hard here:

* **Two goroutines run `IPData.Update` on one object without a lock**: the history
  goroutine, and `blockASNNetWorker` when the Networks plugin is on.  A third,
  `resolvWorker`, writes the host name.
* **State that mirrors other state**: `IsBlocked` and the block list,
  `Whitelisted` and the rules, `Hostname` and the lookups, the cached counters and
  the windows, a network's ratio and its buckets.
* **Critical sections that belong together and are taken apart**: insert and look
  up in `History.Add`, record and count in `Requests.Add`, the three tests of
  `ShouldBeBlocked`.
* **Bounded channels between goroutines that also hold locks**: `BlockChan`, the
  unbuffered `ipUpdateChan`, the dashboard queue, to which `History.expire` sends
  with the history locked.
* **Timers**: a tick that is already in the channel when the timer is reset, a
  deadline computed from a delayed request.
* **Retries and answers that are late or never come** in the resolver.
* **A decision that takes several look-ups** while the list changes
  (`WebserverSocket.decide`), made from a variable that lines share.
* **A restart**, which loses everything but the store, and the end of the process,
  which closes the store while others go on.

## 2. Modules

Each module describes one group of goroutines in full and the others as far as that
group can notice them; the table names the seams.  Two seams are specifications of
their own: what a module on one side implements is what one on the other relies on.

* `BlockList`: an address is suspected, listed for the TTL, and let go.
  `BlockPipeline` implements it (`ImplementsBlockList`); the entries that change
  while `WebserverSocket` decides take `BlockList`'s steps (`BlockedIPs`).
* `LookupService`: a question is answered at most once, with the address's name or,
  when the reply had none, with the address itself, or it is lost.  `Resolver`
  implements it (`ImplementsLookupService`); `BlockPipeline`'s bag of lookups makes
  the same moves.

| Module | Models | What it leaves to others |
|---|---|---|
| `BlockList` | what botex promises about the block list | how it is kept: `BlockPipeline` |
| `LookupService` | what the resolver promises | how it is kept: `Resolver` |
| `BlockPipeline` | a request's way to a block: ingesters, both callers of `IPData.Update`, orders, `blockWorker`, block list with TTL, whitelist reload and recheck, lookups, restart | counters are a *level* (none, low, high) chosen at each request: `RequestWindows`; a lookup is an element of a bag: `Resolver`; the plugin is one step that lists some group of the address, or fails to: `Networks`; announcements never block: `WebsocketHub` |
| `RequestWindows` | the counters of one address, step by step through every lock | the decision: `BlockPipeline` |
| `Networks` | per-network counters, timers, watchers, the round that blocks | the forced orders that follow `CheckBlocked`: `BlockPipeline` |
| `Resolver` | topic, workers, cache, DNS, tries | two goroutines that ask at the same time, entries that expire while they are resolved: `BlockPipeline` |
| `WebsocketHub` | the dashboard queue, its senders, hub and handlers | |
| `StatsWindows` | counts per decision and window | |
| `WebserverSocket` | accepting, reading and answering on a web server's connections, the look-ups of a line, the cookie, the end of the process | the list's changes: `BlockList`; `HandleRequest`: `BlockPipeline` |
| `MC...` | instances for TLC, where a constant is a function on model values, and symmetry; `MCBlockPipeline` and `MCBlockPipelineLive` put two kinds of behaviours side by side in one run (section 3); the other modules are run as they are | |
| `BlockPipelineProofs`, `RequestWindowsProofs`, `NetworksProofs`, `ResolverProofs`, `WebsocketHubProofs`, `StatsWindowsProofs`, `WebserverSocketProofs` | theorems about the module each is named for; `BlockPipelineProofs` also that `BlockPipeline` implements `BlockList`, `ResolverProofs` that `Resolver` implements `LookupService` | |
| `Sums` | lemmas about sums over finite sets, and the induction they rest on, for the windows and statistics | |

### How state and actions correspond to the code

* **One action per critical section or per stretch of code between two points where
  another goroutine can interfere.**  In `BlockPipeline`, `Screen` is
  `ShouldBeBlocked` up to the whitelist, `Judge` the rest of it and of `Update` up to
  the channel send or the finding that there is no host name, `Mark` the writing of
  "resolving" that follows, and `Send` the send: the host name may change between them,
  as in the code.  `LoadRules` puts new rules in force, `SignalRecheck` is the send that
  follows and may have to wait.  In `RequestWindows` each window expires in a step of its own with
  its own reading of the clock.
* **Objects have identities.**  `ipd` is indexed by an address and a generation: an
  expired entry's object lives on while an updater, an order or the worker points
  to it, next to the object of the new entry.  `Gens` bounds how many are alive.
* **Time.**  `BlockPipeline` counts in windows; deadlines are ages that saturate
  just above the largest limit they are compared with.  `RequestWindows` and
  `Networks` have a clock up to `MaxTime`, since they compare requests' own times.
  `StatsWindows` counts in windows, where `keyFor` is the identity by choice of unit.
* **Channels** are sequences or counters with a capacity; a send is an action that
  is enabled when there is room; the unbuffered `ipUpdateChan` is a rendezvous
  (`Receive`, `Deliver`).
* **The store** keeps an entry until its TTL is over and survives `Restart`.  It may
  fail: a write of the worker (`Write(TRUE)`), the plugin's entry or its look-up
  (`PluginBlocks(ip, g, TRUE)`, `BlockASN`, `BlockNetwork`; the round goes on, and a
  look-up that fails says "not blocked"), the cache of host names (`Failures`), a look-up
  of `WebserverSocket`, which then says OK (`Lookup`, `Verdict`).
* **A reply of DNS** without a leading PTR record (recursion is not asked for, and a
  refusal or a failure of the server is no error to the code) makes the address
  itself the host name, for this answer and in the cache: `Replies` in `Resolver`, the
  host `"address"` in `BlockPipeline`.  Only an exchange that fails is tried again.
* **The whitelist** is two sets: addresses matched by a rule on address, network,
  AS or organisation, and addresses whose name, once resolved, a ClientHost rule
  matches.
* **A line of a web server** (`WebserverSocket`) is a record of the three fields that
  matter.  A field may be `Omitted`, or `Mistyped`, which makes the line broken:
  `json.Unmarshal` then reports an error after it has taken the other fields.  A
  cookie stands for what its decryption holds: whether the secret is right, and the
  addresses; time is over for the cookies in `lapsed`.  A cookie may be `uneven`, shorter
  than the cipher's first block or no whole number of blocks: `decrypt` does not look at the
  length, and its panic ends the process (`Panic`, `Exit`), as an error of `Accept` does
  (`AcceptFails`).  A line that is `TooLong` for the scanner ends the connection without an
  answer (`HangUp`).
* **Ratios** (`Networks`) are whole numbers of `1/Scale`, with `Scale` a multiple of
  every total that occurs, so that no rounding is involved.
* **What a round could not write** is in `main.failed` (`Refused`): the code forgets the
  error, the property `OverLimitCovered` must not.
* **Slips.**  A definition introduced as "a slip" is a plausible mistake with the
  same parameters as the definition after it.  Nothing uses it; put in the other's
  place it must break the property it is paired with in `PROJECT.json`, "mutants".

## 3. Runs

`tlc -config <cfg> <module>`, with the pairs that `PROJECT.json` lists; sizes are
distinct states.  Deadlock is checked except in the modules in which the system may
come to an end: every address has its name (`Resolver`), the process has ended
(`WebsocketHub`), the bounded clock and requests are used up (`StatsWindows`), the
counted lines are sent and the process ends (`WebserverSocket`).

### What holds

| Run | Properties | Bounds | States |
|---|---|---|---|
| BlockPipeline_full | `TypeOK`, `LookupBeforeBlock`, `BlockLasts`, `ImplementsBlockList` | `Spec`: 1 address, 1 object, 1 ingester, channels of 1, TTL 2; faults, reloads, restarts; no plugin | 1.1 M |
| BlockPipeline_whitelist | `AddrWhitelistRespected`, `HostWhitelistRespected` | `StaticSpec`: 2 objects, TTL 2, fixed rules, faults; with an address rule the plugin, else prompt lookups | 1.9 M |
| BlockPipelineLive_progress | `OrderLeadsToBlock`, `RecheckUnblocks`, `SendersProgress` | `LiveSpec`: 1 object, TTL 1, no faults; busy: the plugin and both updaters; reload: rules that change; fairness | 0.2 M |
| RequestWindows_adds | `TypeOK`, `KindsWithinAll`, `LiveBucketsStay`, `AddReturns` | 2 adders, 2 requests, delay 1, clock 0..3, fairness | 0.4 M |
| Networks_rounds | `TypeOK`, `WatchedToTheEnd`, `CountsCurrent`, `OverLimitCovered`, `Forgotten` | 2 networks of 1 AS, 3 requests, delay 1, clock 0..5; entries refused, look-ups missed; fairness | 1.5 M |
| Resolver_lookups | `TypeOK`, `OneLookup`, `OwnNameOrAddress`, `LookupsEnd`, `ImplementsLookupService` | 3 addresses, one with an empty name, 2 workers, 2 tries, topic of 2; failures, replies without a name, fairness | 130 k |
| WebsocketHub_clients | `TypeOK`, `WaitersAreKnown`, `SendersProgress`, `ListArrives`, `HubStops` | 1 ingester, 2 clients, queue of 1; failing clients, late rounds, the end of the process, fairness | 51 k |
| StatsWindows_windows | `TypeOK`, `TotalsAreSums`, `LiveItemsGrow`, `WindowsEnd` | 2 decisions, 2 overlapping calls of Expire, 5 requests, delay 2, clock 0..3, fairness | 0.7 M |
| WebserverSocket_decisions | `TypeOK`, `BlocksJustified`, `PassesJustified`, `NoLookupLeftBehind`, `OneMoreConnection`, `LinesAnswered` | 2 connections, 2 lines, 2 addresses (one private), 3 cookies, one of them uneven, TTL 1; the list changes at any time, look-ups fail, the store closes, lines are too long, the process dies, fairness | 1.0 M |

Why the bounds are enough: a channel of capacity 1 is full after one send, so the
waits that a capacity of 100 makes rare are frequent here.  Two generations give an
object that has lost its entry next to the one that replaced it.  A TTL of 2 tells an
entry that is renewed from one that is left alone.  Addresses interact only through
channels, the worker and the batch of `blockASNNetWorker`, and each property speaks
of one address; the proofs of section 5 hold for any number.  Two adders, two calls
of Expire and two clients are the least that race; a clock that goes two windows
beyond the first request lets buckets expire while a delayed request still arrives
in them.  Two lines let the second find what the first has left in the variable, on
the same connection, or run beside it on another; two addresses and a list that
changes between their look-ups are enough for a decision no moment justifies.

The runs of `BlockPipeline` differ in what may happen, since no run of a useful size has
everything at once.  `BlockPipeline_full` has every step but the plugin's, with one object
of the address, which is enough for answers that come when its entry has been replaced.

`BlockPipeline_whitelist` has two kinds of behaviours, told apart by the rules, which are
fixed (`ByRules`).  Without a rule on the address the plugin finds nothing, which is the same as not
to have it (`TooMany` and `Collect` do nothing else with what it finds), and lookups end
before the entry does: the conditions of `HostWhitelistRespected`.  With one, everything may
happen, and `AddrWhitelistRespected` is the stronger of the two.

`BlockPipelineLive_progress` has two kinds as well, by the variable `kind` of the MC module.  In
the busy one both updaters send to a channel with room for one order, and the plugin
wakes the second again and again.  In the other, rules are reloaded at any moment of the
updates, writes and rechecks.  Two bounds keep it small: no request leaves the counters
within the limits, which would only make an updater drop it, and no address is matched
by rules of both sorts.

What holds under a condition only is stated so: `LookupBeforeBlock` needs a single
updater (no Networks plugin), and speaks of addresses that have a name, since an answer may
be an empty one; `HostWhitelistRespected` needs a single updater, fixed rules and entries
that outlive the lookups started for them (`PromptLookups`), or else an answer for the
old entry lands in the new one, between its whitelist test and its host name test, and
it excepts the entries written under the address in place of the name, which no
ClientHost rule matches; `OverLimitCovered` says "the AS or one of its networks", excepts the
entries that the store refused, and needs a TTL that is longer than a round;
`PassesJustified` excepts an address whose own look-up failed; `LinesAnswered` excepts what
comes after a line that was too long, and the death of the process; `SendersProgress` and
`ListArrives` of the hub end with the process.

### Where the code does otherwise than it says

Each of these runs checks one property, stated after a line of the documentation or
a comment, and TLC finds a behaviour of the model that violates it.  `PROJECT.json`,
"findings", quotes the lines.

| Run | Property | What happens |
|---|---|---|
| BlockPipeline_sticky | `EveryOrderLeadsToBlock` | `IsBlocked` is never reset: once its entry has expired, an address that goes on is not blocked again |
| RequestWindows_out_of_order | `StoredTotalIsCurrent` | older counts are delivered last |
| Networks_early_removal | `RemovedIsExpired` | a network with live requests is removed |

The modules state further properties after comments and documentation, in a section
of their own at the end, which the code does not keep either.  They are not among the
standing runs; to see the counterexample, put the property in place of those of the
cfg named here.

| Property | cfg | What happens |
|---|---|---|
| `OverLimitGetsBlocked` | BlockPipeline_sticky | the check that an answer of the resolver is to trigger carries no total, and `History.update` drops it |
| `LookedUpSuccessfully` | BlockPipeline_sticky | a reply of DNS without a name counts as a successful lookup: an address that has a name is judged, and listed, without it |
| `HostWhitelistRespected`, with the plugin | BlockPipeline_sticky, with `SPECIFICATION StaticSpec` and `WithNetworks = TRUE` | two updaters: the name arrives after one of them has asked the whitelist and before it tests the host name |
| `LookupBeforeBlock`, with the plugin | the same | two updaters: one orders what the other has just marked "resolving" |
| `ListRespectsRules` | BlockPipeline_full | an order judged by the old rules is written after the recheck |
| `AddedToHistory` | RequestWindows_adds | a request is counted in an object that has left the history |
| `SentAppWithinTotal` | RequestWindows_out_of_order | more application requests than requests |
| `OverLimitASNListed` | Networks_rounds, with `MaxRequests = 4` | an AS is not listed because one of its networks is |
| `ASNRatioIsHigh` | Networks_rounds | an AS is listed for the ratio of requests long gone |
| `ResolvedAgain` | Resolver_lookups, with `SPECIFICATION CalmSpec` | an empty name in the cache is retried until the resolver gives up |
| `SavedWhenGone` | StatsWindows_windows | the last window before a pause is never saved |

## 4. Fairness

Fairness is assumed of goroutines, not of their environment.  A goroutine that can go
on does (weak fairness of its steps).  A send on a channel and the acquisition of a
mutex are strongly fair: Go's runtime keeps the waiters of a channel in a queue
first in, first out, and `sync.Mutex` switches to handing over in order when a
waiter starves.  The `select` of the Networks goroutine is assumed not to prefer its
ticker to a waiting watcher forever (Go chooses at random).

Nothing is assumed of requests, file changes, restarts, failures, clients or DNS, or
of the end of the process.  The
clock is assumed to go on only where a property is about time running out
(`Forgotten`, `WindowsEnd`); there the ticker of `StatsWindows` is assumed to tick.
The fairness of `BlockPipeline` has a part for each group of goroutines: those that ingest
and resolve, those that judge and send, and the worker; `CalmSpec` has all three.
`LiveSpec` has the last two and the recheck: for an order on its way, a sender and a
recheck it does not matter whether requests and answers go on.  Both leave out faults: with
a store that never works no order can lead to an entry.  In the busy kind of `LiveSpec` time
stands still and nobody is whitelisted, since an updater that waits for room in
`BlockChan` waits for neither: what it waits for is the worker and the other sender.
`Resolver`'s `FairSpec` has the failures: a worker
goes on, whether its look-up succeeds or fails.  `WebserverSocket`'s `FairSpec` is fair to
the goroutines of each connection together, `serve` and its look-ups: an answer is a
rendezvous on a channel without a buffer.  That `HandleRequest` comes back is
`SendersProgress` and `AddReturns`; that the web server reads its answers is assumed.

## 5. Proofs

TLAPS proves, for all sets of addresses, groups, networks, goroutines, generations and
clients, and all capacities, limits, bounds and switches:

| Theorem | Statement |
|---|---|
| `BlockPipelineProofs!Typing` | `Spec => []TypeOK`: types and channel capacities |
| `BlockPipelineProofs!BlocksLast` | `Spec => BlockLasts` |
| `BlockPipelineProofs!AddrWhitelisted` | `StaticSpec => []AddrWhitelistRespected` |
| `BlockPipelineProofs!LookedUpFirst` | `ASSUME ~WithNetworks PROVE Spec => []LookupBeforeBlock` |
| `BlockPipelineProofs!HostWhitelisted` | `ASSUME ~WithNetworks PROVE PromptSpec => []HostWhitelistRespected` |
| `BlockPipelineProofs!Implementation` | `Spec => ImplementsBlockList` |
| `ResolverProofs!Typing` | `Spec => []TypeOK`: types, and how full the topic is |
| `ResolverProofs!NeverTwice` | `Spec => []OneLookup` |
| `ResolverProofs!NoForeignNames` | `Spec => []OwnNameOrAddress` |
| `ResolverProofs!Implementation` | `Spec => ImplementsLookupService` |
| `WebserverSocketProofs!Typing` | `Spec => []TypeOK`: types, and that look-ups are for addresses of the line |
| `WebserverSocketProofs!BlockedForAReason` | `Spec => []BlocksJustified` |
| `WebserverSocketProofs!PassedForAReason` | `Spec => []PassesJustified` |
| `WebserverSocketProofs!NobodySendsLate` | `Spec => []NoLookupLeftBehind` |
| `WebserverSocketProofs!AcceptingEnds` | `Spec => []OneMoreConnection` |
| `RequestWindowsProofs!Typing` | `Spec => []TypeOK`: types, the range of the counters, the length of the list |
| `RequestWindowsProofs!NeverTwice` | `Spec => []CountedOnce`: no bucket counts a request twice, or one that is on its way |
| `RequestWindowsProofs!Kinds` | `Spec => []KindsWithinAll` |
| `RequestWindowsProofs!LiveBuckets` | `Spec => LiveBucketsStay` |
| `RequestWindowsProofs!OneAdder` | `ASSUME Adders = {p} PROVE Spec => []StoredTotalIsCurrent` |
| `NetworksProofs!Typing` | `Spec => []TypeOK` |
| `NetworksProofs!Watched` | `Spec => []WatchedToTheEnd` |
| `NetworksProofs!Counted` | `Spec => []CountsCurrent` |
| `NetworksProofs!RoundCovers` | `Spec /\ [][RoundKeepsEntries]_vars => []OverLimitCovered` |
| `WebsocketHubProofs!Typing` | `Spec => []TypeOK`: types and the capacity of the queue |
| `WebsocketHubProofs!HandlersKnown` | `Spec => []WaitersAreKnown` |
| `StatsWindowsProofs!Typing` | `Spec => []TypeOK`: types, and that no counter is below zero or above the number of requests |
| `StatsWindowsProofs!SumsKept` | `Spec => []TotalsAreSums` |
| `StatsWindowsProofs!LiveItemsStay` | `Spec => LiveItemsGrow` |

They rest on the named assumptions of the modules on their constants and on nothing
else.  What a constraint on the clock or on the number of requests bounds for TLC is a
constant here, so the theorems hold for every bound.

*Typing* (`BlockPipeline`) is inductive as it stands.  `TypeOK` includes that an updater past the
look-up in `History.update` holds an object.  Its proof has one lemma per field of
the object record that a step changes, and one step per action.

*BlocksLast* is an action property: only `Write`, `ScanOne`, `Tick` and `Restart` touch
the list; `Write` leaves an entry alone, `ScanOne` removes only what the rules match.

*AddrWhitelisted* needs the invariant `AddrInv`: no order, and no object that the
worker or an updater in "judge" or "send" holds, belongs to an address that an address rule matches.
The listing itself is not inductive: what matters is that the whitelist test in
`Screen` stands before every way into `BlockChan`, and that the answer of an address
rule does not depend on the host name that may change meanwhile.  This is why the
theorem holds with racing updaters and the host name variant does not.

*LookedUpFirst* needs two invariants.  `SingleUpdater`: without the plugin the network
worker never starts.  `LookupInv`: whoever is past `Judge` holds an object of an address
that, if it has a name, is known by that or by the address, and a known host stays known
for as long as the object is in use, so that the message the worker copies carries it.
The theorem is about addresses with a name: of the others an empty answer may come late
and take the known host away.  With two updaters `LookupInv` is false (section 3).

*HostWhitelisted* adds two invariants.  `EntriesInv`: an address has one entry at a time,
whose object is the one that is judged; a lookup in flight is the only one of its address, and
the entry it belongs to is marked "resolving", so that none is in flight for an object that
is about to be marked.  This is what `PromptLookups` keeps when entries expire.  `HostInv`
then says that from the whitelist test on, an object of a whitelisted host does not carry
the name: an answer never lands in an object between its two tests, since the object that
is being judged is that of the entry, and one that is to be answered is marked "resolving"
and would not get past `Screen`.  What is left is an object that carries the address.

*Implementation* (`BlockPipelineProofs`) maps the suspects to the addresses of updaters
past `Screen`, of orders and of the worker, and the entries to their remaining times.
There is one lemma per action: it takes a step of `BlockList` or changes neither.
Types and rules are all that is needed: that only `Screen` adds a suspect, after the
address rules, and only `Write` an entry, for a suspect.

*NoForeignNames* needs that what a worker holds is a reply for the address it was asked
for (`WorkersKeepNames`).
*NeverTwice* counts in `OneLookup` the places where an address can be; its proof says
the same by positions (`Alone`: no two places with one address, and the entry of each
is marked "resolving"), since sums over sets of messages would need induction.
*Implementation* (`ResolverProofs`) follows from both: a place for an address means that
the question is pending, and the last place left is an answer or a loss.

*BlockedForAReason*, *PassedForAReason* and *NobodySendsLate* share the invariant
`Justified`, which has a part for each thing `decide` relies on.  `Counted`: it waits for
as many answers as there are look-ups not yet received, so that at zero none is under
way.  `Remembered`: the variable of the connection holds only what one of its lines
named, however many of its fields later lines left out.  `Evidence`: an answer BLOCK stands
for an address that was listed at a moment of this decision, an answer OK for one that was
free or whose own look-up failed, and the decision so far for all answers received.
`Reasons` is what these become in `Conclude`.  The steps of other connections, and those of
the list, keep all four, since a record of a connection belongs to its goroutines only; the
death of the process leaves no connection to justify.

*AcceptingEnds* needs `Ending`: as long as a call of Accept is under way that began
before the end, no connection has been taken on since.

*Sums.*  The totals and ratios of `RequestWindows`, `Networks` and `StatsWindows` are sums
over windows, folds that the provers do not unfold.  `Sums` proves what is needed
(`SumRemove`, `SumMonotone`, `SumChange`, ...) from one induction, `SubsetInduction`: a set of
subsets that has the empty one, and with all `s \ {x}` also `s`, has all.  It is stated
about a *set* of subsets, so that no operator has to be instantiated, and rests on the
smallest counterexample (`Least`).  That the fold over a set takes one element
after another is `SumChosen`; it needs that the recursive function behind the fold
exists, which `SumsExist` builds up subset by larger subset.

*Typing*, *NeverTwice*, *Kinds* and *LiveBuckets* (`RequestWindowsProofs`).  That a bucket counts at most
the requests that have arrived is not inductive: a request that is counted twice would not
show at once.  `CountedOnce` is: a bucket counts at most the requests that have
arrived *and are not still on their way* (`Pending`), so that counting one takes it from
one side to the other.  `ObjectsMade` says that whoever works on an object works on one
that was made, its entry being gone or not.  For *Kinds*, `KindsInv` says who may be to
blame when a bucket counts more of the kinds than of all: an expirer that holds the read
lock and has gone past the window of all, but not past those of the kinds
(`BetweenKinds`).  This is where the order of the windows in `Requests.Expire` is needed,
and that the clock only goes on: another expirer with a later reading leaves the
first one's excuse valid.  `Exclusive` is why no request is recorded meanwhile.

*OneAdder* is the other side of the run RequestWindows_out_of_order.  `TotalInv` follows the new
total from the counting to the entry: until it is delivered the stored one is out of
date and nobody is idle, and since only this adder adds, the history goroutine can only
make the count smaller.

*Watched* adds to `WatchedToTheEnd` the types of the timers and that the plugin's
goroutine removes one network at a time (`WatchInv`).  The argument is one of
hand-over: an armed timer becomes a tick, the tick a watcher that sends, the send a
removal, and a request in between only arms the timer again.

*Counted* and *Typing* (`NetworksProofs`) share `CountInv`, which adds to `CountsCurrent` that a
bucket never has more application requests than requests, or a ratio might be above
one.  The point is in `Expire`: it computes the totals anew only if a bucket has gone, and
they are the old ones if none has.

*RoundCovers*: `CoverInv` says of each system and each network that was over the limit
when the round began that it is covered, that the store refused its entry, or that it (of a
system: one of its networks) is still to be dealt with.  Without the hypothesis it is
false: an entry that made `IsBlockedByASN` skip a network may run out before the round is
over.  `LastingEntriesCover` shows that the hypothesis holds where the clock ends before an
entry does, as in the run.

*HandlersKnown* needs `WaitInv`: a handler is registered before it waits, so the one
that is still sending its list has to be known too.  A client leaves the map in the
step in which the hub turns to its handler, and no other.

*LiveItemsStay* needs `ThresholdInv`: the threshold that a call of Expire has read is at
most the clock minus the retention time, since the clock only goes on while the call
waits for the lock.

*SumsKept* and *Typing* (`StatsWindowsProofs`) need each other (`SumsInv`): a total stays at or
above zero because it is the sum of windows that are, and it stays at or below the
number of requests because each adds one to it; the windows are at most the total.

Only model-checked: what holds under fairness, since liveness and ENABLED are out of
the prover's reach.  Every invariant and every action property of the passing runs is a
theorem, under the conditions the table states, and so are both refinements.

## 6. Not modelled

* REST handlers, JSON forms, log replay's parser, configuration, GeoIP and ASN
  look-ups: no state that another part depends on.
* The log replay (logreplay.go): it calls `HandleRequest` line by line and is one more
  ingester of `BlockPipeline`; its requests carry times of the past, which
  `RequestWindows` has as delayed requests.
* The decryption of cookies, and the padding it removes: a cookie stands for what is in it.
* The IPMeta plugin, and the NATS server and its client: an external look-up, and an
  external library whose topic is modelled where the resolver uses it.
* Whitelist rules for server host, path and user agent, which the way to a block does
  not consult; parsing of the rules file and the watcher behind `LoadRules`.
* `networkCache` and `asnCache`, which are written and never read;
  `RemoveNetwork` and `RemoveASN`, which nothing calls.
* The count of addresses per network in the plugin (`ipMap`), which decides nothing.
* The order in which `New` starts its goroutines, and shutdown, except for the
  dashboard hub, the web server socket and the closed store it meets.  The rest closes
  channels that others may still send to; nothing says what should hold then, and the
  process is expected to be gone.  Both are in the list of hazards.
* Patterns for host names that match something else: a ClientHost rule is taken to match
  resolved names only, not the text of an address, the marker "resolving" or nothing.
* How many lookups of an address are in flight: `MaxLookups` when it is inserted, and at most
  one more that the same address adds later, are counted (`Mark`).
* `Window.Expire` reads its threshold before it takes the lock (window.go:93, :96); in
  `RequestWindows` (`ExpireNext`) this is one step.  The threshold is then at most what the
  model takes, and fewer buckets go; they go with the next call.  `StatsWindows` has the two
  steps.
* Torn reads of strings and floats in data races: a racing read is modelled as the
  value before or after the write.  BlockIP's look-up and write are one step, since
  `blockWorker` is its only caller.

## 7. Plan

Done, in this order: `BlockPipeline` with its runs; its typing and whitelist proofs;
`RequestWindows`; `Networks`; the host name proof; `Resolver`; `WebsocketHub`;
`StatsWindows`; the proofs about `Networks`, `WebsocketHub` and `StatsWindows`;
`BlockList` and `LookupService` and the two refinements, checked and proved; the proofs
about `Resolver`; `WebserverSocket`; `HostWhitelisted`; the proofs about
`WebserverSocket`; `Sums`, and with it the types, counts and sums of `StatsWindows`,
`Networks` and `RequestWindows`; failures of the store, of DNS and of the web server's input
in all modules, and the proofs again with them.

Next:

1. Proofs: that no goroutine waits for another in a circle, as invariants on locks and
   channels, below the liveness properties of `RequestWindows` and `WebsocketHub`.
2. The end of the process: closing of channels in `New`, `blockASNNetWorker` and
   `Networks` against their senders; the start-up order of `New`.
3. The plugin's count of addresses.
