--------------------------- MODULE BlockPipeline ---------------------------
(***************************************************************************)
(* The path a request takes to a block: the ingesting goroutines           *)
(* (Botex.HandleRequest, History.Add), the history goroutine and the       *)
(* network worker that both run IPData.Update, the block worker behind     *)
(* BlockChan, the reverse lookups, the whitelist with its recheck of the   *)
(* block list, the block list's TTL, and a restart of the process.         *)
(*                                                                         *)
(* Time is discrete: one Tick is one config.WindowSize.  Deadlines are kept *)
(* as ages that saturate just above the largest limit they are tested      *)
(* against, so that no clock grows without bound.                          *)
(***************************************************************************)
EXTENDS Naturals, Sequences, FiniteSets

CONSTANTS
    IPs,           \* addresses that send requests
    Groups,        \* networks and autonomous systems
    GroupsOf,      \* GroupsOf[ip]: the network and the AS of ip (asndb record)
    PTR,           \* PTR[ip]: what DNS knows ip by: a name, or an empty one
    Ingesters,     \* goroutines that call HandleRequest
    Gens,          \* bound: IPData objects of one address alive at a time
    None,          \* no object
    WithNetworks,  \* config.WithNetworks: the Networks plugin is in use
    ClearBlocked,  \* config.ClearBlocked
    BlockTTL,      \* config.BlockTTL, in ticks
    Retention,     \* config.NumWindows
    BlockCap,      \* capacity of BlockChan (100 in the code)
    SignalCap,     \* capacity of the two signal channels (100 in the code)
    MaxLookups     \* bound: lookups of one address in flight when it is inserted,
                   \* and at most one more later

Objs == IPs \X Gens
\* The hostname field: empty, the marker of a lookup in flight, the name, or the
\* address itself in place of a name.
Hosts == {"", "resolving", "name", "address"}
Known == {"name", "address"}
\* The addresses that have a name.
Named == {ip \in IPs : PTR[ip] = "name"}
\* A snapshot of the counters: no requests, within or above the limits.
Levels == {"none", "low", "high"}
\* The goroutines that run IPData.Update: History's own and blockASNNetWorker.
Updaters == {"history", "asn"}
RuleSets == [addr : SUBSET IPs, host : SUBSET Named]

ASSUME GroupsAssumption == GroupsOf \in [IPs -> SUBSET Groups]
ASSUME PTRAssumption == PTR \in [IPs -> {"", "name"}]
ASSUME NoneAssumption == None \notin Objs
ASSUME SwitchAssumption == WithNetworks \in BOOLEAN /\ ClearBlocked \in BOOLEAN
ASSUME LimitAssumption ==
    /\ BlockTTL \in Nat \ {0} /\ Retention \in Nat \ {0}
    /\ BlockCap \in Nat \ {0} /\ SignalCap \in Nat \ {0}
    /\ MaxLookups \in Nat \ {0}

VARIABLES
    history,   \* History.data: the objects an address is looked up to
    ipd,       \* the IPData objects
    ing,       \* what each ingester is doing
    upd,       \* what each caller of IPData.Update is doing
    batch,     \* blockASNNetWorker: the rest of toBlock
    orders,    \* BlockChan: pointers to the objects to block
    worker,    \* blockWorker: the order it is writing
    store,     \* block list: the entry of each address (ttl 0: not listed)
    netStore,  \* block list: remaining ttl of each network or AS
    plugin,    \* Networks.updateAndBlock: about to signal CheckBlocked
    checks,    \* signals in blockASNNetChan
    rules,     \* the whitelist: addresses matched by a rule on the address
               \* (ASN, CIDR, IP, Org) or whose name a ClientHost rule matches
    reload,    \* Whitelist.Load: about to signal the recheck
    rechecks,  \* signals in blockRecheckChan
    scan,      \* Block.cleanup: entries of the snapshot still to look at
    lookups,   \* lookups in flight (queue, workers, answers) per address
    notice     \* History.SetHostname: the address it is sending stats for

vars == <<history, ipd, ing, upd, batch, orders, worker, store, netStore, plugin,
          checks, rules, reload, rechecks, scan, lookups, notice>>

ingestVars == <<history, ing>>
judgeVars == <<upd, batch>>
workVars == <<orders, worker>>
listVars == <<store, netStore>>
signalVars == <<plugin, checks, rules, reload, rechecks, scan>>
resolveVars == <<lookups, notice>>

-----------------------------------------------------------------------------
(* Data. *)

Unlisted == [ttl |-> 0, host |-> ""]
Listed(ip) == store[ip].ttl > 0

\* Two slips in the whitelist check: no host rules, only host rules.
WhitelistedByAddress(ip, host) == ip \in rules.addr
WhitelistedByHost(ip, host) == host = "name" /\ ip \in rules.host

\* Whitelist.IsWhitelisted for an address with the given hostname field.
Whitelisted(ip, host) ==
    \/ ip \in rules.addr
    \/ host = "name" /\ ip \in rules.host

EntryOf(ip) == {o \in history : o[1] = ip}

\* Some goroutine still holds a pointer to o.
Referenced(o) ==
    \/ o \in history
    \/ \E u \in Updaters : upd[u].obj = o
    \/ \E i \in 1..Len(orders) : orders[i] = o
    \/ worker.obj = o

Blank == [level |-> "none", host |-> "", isBlocked |-> FALSE, wl |-> FALSE,
          force |-> FALSE, since |-> BlockTTL + 1, age |-> 0, used |-> FALSE]

NewIPData(ip) == [Blank EXCEPT !.wl = Whitelisted(ip, "")]

IdleIngester == [pc |-> "idle", ip |-> None, level |-> "none"]
IdleUpdater == [pc |-> "idle", obj |-> None]
IdleWorker == [pc |-> "idle", obj |-> None, host |-> ""]

IPDatas == [level : Levels, host : Hosts, isBlocked : BOOLEAN, wl : BOOLEAN,
            force : BOOLEAN, since : 0..(BlockTTL + 1), age : 0..(Retention + 1),
            used : BOOLEAN]
IngesterStates == {IdleIngester} \cup [pc : {"record", "send"}, ip : IPs, level : Levels]
UpdaterStates == {IdleUpdater} \cup [pc : {"screen", "judge", "mark", "send"}, obj : Objs]
WorkerStates == {IdleWorker} \cup [pc : {"write"}, obj : Objs, host : Hosts]
Entries == [ttl : 0..BlockTTL, host : Hosts]

OrMore(n, limit) == IF n < limit THEN n + 1 ELSE n

-----------------------------------------------------------------------------
(* Requests come in. *)

\* History.Add, first critical section: insert the address if it is absent.
Insert(i, ip) ==
    /\ ing[i].pc = "idle"
    /\ ing' = [ing EXCEPT ![i] = [pc |-> "record", ip |-> ip, level |-> "none"]]
    /\ \/ EntryOf(ip) # {} /\ UNCHANGED <<history, ipd>>
       \/ /\ EntryOf(ip) = {}
          /\ lookups[ip] < MaxLookups
          /\ \E g \in Gens :
                /\ ~Referenced(<<ip, g>>)
                /\ history' = history \cup {<<ip, g>>}
                /\ ipd' = [ipd EXCEPT ![<<ip, g>>] = NewIPData(ip)]
    /\ UNCHANGED <<judgeVars, workVars, listVars, signalVars, resolveVars>>

\* History.Add, second critical section, and IPData.Add: the entry may have
\* expired since Insert, and the request is then dropped.  Otherwise it is
\* counted, which leaves the counters at some level, and the ingester goes on
\* to send that level to the history goroutine.
Record(i) ==
    /\ ing[i].pc = "record"
    /\ \/ /\ EntryOf(ing[i].ip) = {}
          /\ ing' = [ing EXCEPT ![i] = IdleIngester]
          /\ UNCHANGED ipd
       \/ \E o \in EntryOf(ing[i].ip), l \in Levels \ {"none"} :
             /\ ing' = [ing EXCEPT ![i] = [@ EXCEPT !.pc = "send", !.level = l]]
             /\ ipd' = [ipd EXCEPT ![o] = [@ EXCEPT !.age = 0, !.used = TRUE]]
    /\ UNCHANGED <<history, judgeVars, workVars, listVars, signalVars, resolveVars>>

-----------------------------------------------------------------------------
(* History.update and IPData.Update, by the history goroutine (force FALSE)  *)
(* and by blockASNNetWorker (force TRUE), which share objects without a lock. *)

\* Updater u has taken the statistics l of ip: they are stored in ip's entry,
\* unless there is none or they count no request.
Update(u, ip, l) ==
    \/ /\ EntryOf(ip) = {} \/ l = "none"
       /\ UNCHANGED <<ipd, upd>>
    \/ /\ l # "none"
       /\ \E o \in EntryOf(ip) :
             /\ ipd' = [ipd EXCEPT ![o].level = l]
             /\ upd' = [upd EXCEPT ![u] = [pc |-> "screen", obj |-> o]]

\* The history goroutine receives the statistics an ingester is sending.
Receive(i) ==
    /\ ing[i].pc = "send"
    /\ upd["history"].pc = "idle"
    /\ Update("history", ing[i].ip, ing[i].level)
    /\ ing' = [ing EXCEPT ![i] = IdleIngester]
    /\ UNCHANGED <<history, batch, workVars, listVars, signalVars, resolveVars>>

\* IPData.SetHostname sends statistics that count no request.
NoticeLevel == "none"

\* The history goroutine receives what resolvWorker is sending.
ReceiveNotice ==
    /\ upd["history"].pc = "idle"
    /\ \E ip \in notice :
          /\ Update("history", ip, NoticeLevel)
          /\ notice' = notice \ {ip}
    /\ UNCHANGED <<history, ing, batch, workVars, listVars, signalVars, lookups>>

\* ShouldBeBlocked, first conditions: an object that is being resolved, is
\* known to be whitelisted or has seen no request in the current window.
LeftAlone(o) == ipd[o].host = "resolving" \/ ipd[o].wl \/ ipd[o].age > 1

\* ShouldBeBlocked up to and including the whitelist.
Screen(u) ==
    /\ upd[u].pc = "screen"
    /\ LET o == upd[u].obj
           wl == Whitelisted(o[1], ipd[o].host)
       IN  \/ /\ LeftAlone(o)
              /\ upd' = [upd EXCEPT ![u] = IdleUpdater]
              /\ UNCHANGED ipd
           \/ /\ ~LeftAlone(o) /\ wl
              /\ upd' = [upd EXCEPT ![u] = IdleUpdater]
              /\ ipd' = [ipd EXCEPT ![o].wl = TRUE]
           \/ /\ ~LeftAlone(o) /\ ~wl
              /\ upd' = [upd EXCEPT ![u].pc = "judge"]
              /\ UNCHANGED ipd
    /\ UNCHANGED <<ingestVars, batch, workVars, listVars, signalVars, resolveVars>>

\* Block.IsBlockedByASN
IsBlockedByASN(ip) == \E g \in GroupsOf[ip] : netStore[g] > 0

\* The limits on the address's own counters, and Networks.ShouldBeBlocked.
TooMany(o) == ipd[o].level = "high" \/ (WithNetworks /\ IsBlockedByASN(o[1]))

\* A slip: block first, resolve later.
NeverAwaitsHost(o) == FALSE

\* ShouldBeBlocked wants the hostname before it decides.
AwaitsHost(o) == ipd[o].host = ""

\* IPData.Update: an object is not ordered again within BlockTTL, unless by force.
MayOrder(u, o) == u = "asn" \/ ipd[o].since > BlockTTL

BeingResolved(d) == [d EXCEPT !.host = "resolving"]

Ordered(u, d) == [d EXCEPT !.since = 0, !.force = d.force \/ u = "asn"]

\* The rest of ShouldBeBlocked and of IPData.Update, up to the channel send.
Judge(u) ==
    /\ upd[u].pc = "judge"
    /\ LET o == upd[u].obj
       IN  \/ /\ ~TooMany(o) \/ (~AwaitsHost(o) /\ ~MayOrder(u, o))
              /\ upd' = [upd EXCEPT ![u] = IdleUpdater]
              /\ UNCHANGED ipd
           \/ /\ TooMany(o) /\ AwaitsHost(o)
              /\ upd' = [upd EXCEPT ![u].pc = "mark"]
              /\ UNCHANGED ipd
           \/ /\ TooMany(o) /\ ~AwaitsHost(o) /\ MayOrder(u, o)
              /\ upd' = [upd EXCEPT ![u].pc = "send"]
              /\ ipd' = [ipd EXCEPT ![o] = Ordered(u, ipd[o])]
    /\ UNCHANGED <<ingestVars, batch, workVars, listVars, signalVars, resolveVars>>

\* The marker is written whatever has happened since the test, and Resolve called.
Mark(u) ==
    /\ upd[u].pc = "mark"
    /\ LET o == upd[u].obj
       IN  /\ ipd' = [ipd EXCEPT ![o] = BeingResolved(ipd[o])]
           /\ lookups' = [lookups EXCEPT ![o[1]] = OrMore(@, MaxLookups + 1)]
    /\ upd' = [upd EXCEPT ![u] = IdleUpdater]
    /\ UNCHANGED <<ingestVars, batch, workVars, listVars, signalVars, notice>>

\* A slip: the queue takes one order too many.
QueueHasRoomForOneMore == Len(orders) <= BlockCap

QueueHasRoom == Len(orders) < BlockCap

\* The send on BlockChan.
Send(u) ==
    /\ upd[u].pc = "send"
    /\ QueueHasRoom
    /\ orders' = Append(orders, upd[u].obj)
    /\ upd' = [upd EXCEPT ![u] = IdleUpdater]
    /\ UNCHANGED <<ingestVars, ipd, batch, worker, listVars, signalVars, resolveVars>>

-----------------------------------------------------------------------------
(* The history goroutine's ticker. *)

\* All windows of the object are empty.
IsEmpty(o) == IF ipd[o].used THEN ipd[o].age > Retention ELSE ipd[o].age > 1

\* History.expire
Expire ==
    /\ upd["history"].pc = "idle"
    /\ \E o \in history : IsEmpty(o)
    /\ history' = {o \in history : ~IsEmpty(o)}
    /\ UNCHANGED <<ipd, ing, judgeVars, workVars, listVars, signalVars, resolveVars>>

-----------------------------------------------------------------------------
(* blockASNNetWorker and the Networks plugin that wakes it. *)

\* Networks.updateAndBlock has found the network or the AS g, to which ip
\* belongs, over the limits: BlockNetwork or BlockASN, which do nothing when
\* the AS or the network is listed already, and whose errors are ignored.
PluginBlocks(ip, g, fails) ==
    /\ WithNetworks
    /\ plugin = "idle"
    /\ g \in GroupsOf[ip]
    /\ netStore' = IF fails \/ IsBlockedByASN(ip) THEN netStore
                                                  ELSE [netStore EXCEPT ![g] = BlockTTL]
    /\ plugin' = "signal"
    /\ UNCHANGED <<ingestVars, ipd, judgeVars, workVars, store, checks, rules, reload,
                   rechecks, scan, resolveVars>>

\* CheckBlocked
PluginSignals ==
    /\ plugin = "signal"
    /\ checks < SignalCap
    /\ checks' = checks + 1
    /\ plugin' = "idle"
    /\ UNCHANGED <<ingestVars, ipd, judgeVars, workVars, listVars, rules, reload, rechecks,
                   scan, resolveVars>>

\* blockASNNetWorker's selection under the history's read lock, with a copy of
\* the statistics of every object it selects.
Selected(o) ==
    ipd[o].force \/ (~ipd[o].isBlocked /\ IsBlockedByASN(o[1]))

Collect ==
    /\ checks > 0
    /\ upd["asn"].pc = "idle"
    /\ batch = {}
    /\ checks' = checks - 1
    /\ batch' = {[ip |-> o[1], level |-> ipd[o].level] : o \in {p \in history : Selected(p)}}
    /\ UNCHANGED <<ingestVars, ipd, upd, workVars, listVars, plugin, rules, reload,
                   rechecks, scan, resolveVars>>

\* The next element of the batch; one without an entry or without requests
\* makes History.update return, and the rest of the batch is dropped.
NextInBatch ==
    /\ upd["asn"].pc = "idle"
    /\ \E s \in batch :
          /\ Update("asn", s.ip, s.level)
          /\ batch' = IF EntryOf(s.ip) = {} \/ s.level = "none" THEN {} ELSE batch \ {s}
    /\ UNCHANGED <<ingestVars, workVars, listVars, signalVars, resolveVars>>

-----------------------------------------------------------------------------
(* blockWorker and Block.BlockIP. *)

\* A slip: an object is skipped unless it is forced.
SkipsUnforced(o) == ~ipd[o].force

Skips(o) == ipd[o].isBlocked /\ ~ipd[o].force

\* A slip: the worker returns where it should go on.
WorkerReturns == [IdleWorker EXCEPT !.pc = "returned"]

WorkerContinues == IdleWorker

\* blockWorker takes an order and copies its hostname into the message.
Take ==
    /\ worker.pc = "idle"
    /\ orders # <<>>
    /\ orders' = Tail(orders)
    /\ LET o == Head(orders)
       IN  worker' = IF Skips(o) THEN WorkerContinues
                     ELSE [pc |-> "write", obj |-> o, host |-> ipd[o].host]
    /\ UNCHANGED <<ingestVars, ipd, judgeVars, listVars, signalVars, resolveVars>>

\* A slip: the entry is written whether or not there is one.
Rewritten(entry, host) == [ttl |-> BlockTTL, host |-> host]

\* BlockIP leaves an entry alone and writes a missing one with the block TTL.
Written(entry, host) == IF entry.ttl > 0 THEN entry ELSE [ttl |-> BlockTTL, host |-> host]

\* BlockIP, and IsBlocked, which is set even if the write fails.
Write(fails) ==
    /\ worker.pc = "write"
    /\ LET ip == worker.obj[1]
       IN  store' = IF fails THEN store
                    ELSE [store EXCEPT ![ip] = Written(@, worker.host)]
    /\ ipd' = [ipd EXCEPT ![worker.obj].isBlocked = TRUE]
    /\ worker' = WorkerContinues
    /\ UNCHANGED <<ingestVars, judgeVars, orders, netStore, signalVars, resolveVars>>

-----------------------------------------------------------------------------
(* Whitelist.Load on a change of its file, and Block.cleanup. *)

\* Load: the new rules are in force before the recheck is signalled.
LoadRules ==
    /\ reload = "idle"
    /\ rules' \in RuleSets
    /\ reload' = "signal"
    /\ UNCHANGED <<ingestVars, ipd, judgeVars, workVars, listVars, plugin, checks,
                   rechecks, scan, resolveVars>>

SignalRecheck ==
    /\ reload = "signal"
    /\ rechecks < SignalCap
    /\ rechecks' = rechecks + 1
    /\ reload' = "idle"
    /\ UNCHANGED <<ingestVars, ipd, judgeVars, workVars, listVars, plugin, checks,
                   rules, scan, resolveVars>>

\* cleanup takes a signal and opens a snapshot of the listed addresses.
StartScan ==
    /\ rechecks > 0
    /\ scan = {}
    /\ rechecks' = rechecks - 1
    /\ scan' = {[ip |-> ip, host |-> store[ip].host] : ip \in {x \in IPs : Listed(x)}}
    /\ UNCHANGED <<ingestVars, ipd, judgeVars, workVars, listVars, plugin, checks,
                   rules, reload, resolveVars>>

\* A slip: the recheck looks at the address only.
RecheckedByAddress(e) == e.ip \in rules.addr

ToRemove(e) == Whitelisted(e.ip, e.host)

\* The next entry of the snapshot: RemoveIP if it is whitelisted by now.
ScanOne ==
    /\ \E e \in scan :
          /\ scan' = scan \ {e}
          /\ store' = IF ToRemove(e) THEN [store EXCEPT ![e.ip] = Unlisted] ELSE store
    /\ UNCHANGED <<ingestVars, ipd, judgeVars, workVars, netStore, plugin, checks,
                   rules, reload, rechecks, resolveVars>>

-----------------------------------------------------------------------------
(* Reverse lookups.  Resolver is a bag of lookups in flight here. *)

\* resolvWorker takes an answer: SetHostname on the address's entry, if there
\* still is one; the notice is then sent to the history goroutine.  The answer is
\* what DNS knows, or the address for a reply that does not tell (Resolver: Replies).
Answer(ip) ==
    /\ notice = {}
    /\ lookups[ip] > 0
    /\ lookups' = [lookups EXCEPT ![ip] = @ - 1]
    /\ \/ EntryOf(ip) = {} /\ UNCHANGED <<ipd, notice>>
       \/ \E o \in EntryOf(ip), host \in {PTR[ip], "address"} :
             /\ ipd' = [ipd EXCEPT ![o].host = host]
             /\ notice' = {ip}
    /\ UNCHANGED <<ingestVars, judgeVars, workVars, listVars, signalVars>>

\* Resolve gives up after config.ResolverTries, and nobody hears of it.
GiveUp(ip) ==
    /\ lookups[ip] > 0
    /\ lookups' = [lookups EXCEPT ![ip] = @ - 1]
    /\ UNCHANGED <<ingestVars, ipd, judgeVars, workVars, listVars, signalVars, notice>>

-----------------------------------------------------------------------------
(* Time passes; the store drops entries whose TTL is over. *)

Aged(entry) == IF entry.ttl > 1 THEN [entry EXCEPT !.ttl = @ - 1] ELSE Unlisted

\* An object nobody can reach is collected.
Tick ==
    /\ ipd' = [o \in Objs |-> IF ~Referenced(o) THEN Blank
                 ELSE [ipd[o] EXCEPT !.age = OrMore(@, Retention + 1),
                                     !.since = OrMore(@, BlockTTL + 1)]]
    /\ store' = [ip \in IPs |-> IF Listed(ip) THEN Aged(store[ip]) ELSE store[ip]]
    /\ netStore' = [g \in Groups |-> IF netStore[g] > 0 THEN netStore[g] - 1 ELSE 0]
    /\ UNCHANGED <<ingestVars, judgeVars, workVars, signalVars, resolveVars>>

-----------------------------------------------------------------------------
(* Start and restart: everything but the store is lost.  New loads the rules,  *)
(* which leaves a recheck signal, and clears the block list if told to.        *)

Init ==
    /\ history = {}
    /\ ipd = [o \in Objs |-> Blank]
    /\ ing = [i \in Ingesters |-> IdleIngester]
    /\ upd = [u \in Updaters |-> IdleUpdater]
    /\ batch = {}
    /\ orders = <<>>
    /\ worker = IdleWorker
    /\ store = [ip \in IPs |-> Unlisted]
    /\ netStore = [g \in Groups |-> 0]
    /\ plugin = "idle"
    /\ checks = 0
    /\ rules \in RuleSets
    /\ reload = "idle"
    /\ rechecks = 1
    /\ scan = {}
    /\ lookups = [ip \in IPs |-> 0]
    /\ notice = {}

Restart ==
    /\ history' = {}
    /\ ipd' = [o \in Objs |-> Blank]
    /\ ing' = [i \in Ingesters |-> IdleIngester]
    /\ upd' = [u \in Updaters |-> IdleUpdater]
    /\ batch' = {}
    /\ orders' = <<>>
    /\ worker' = IdleWorker
    /\ store' = IF ClearBlocked THEN [ip \in IPs |-> Unlisted] ELSE store
    /\ netStore' = IF ClearBlocked THEN [g \in Groups |-> 0] ELSE netStore
    /\ plugin' = "idle"
    /\ checks' = 0
    /\ rules' \in RuleSets
    /\ reload' = "idle"
    /\ rechecks' = 1
    /\ scan' = {}
    /\ lookups' = [ip \in IPs |-> 0]
    /\ notice' = {}

-----------------------------------------------------------------------------
(* The specification. *)

Requests == \E i \in Ingesters : (\E ip \in IPs : Insert(i, ip)) \/ Record(i) \/ Receive(i)

Updates == ReceiveNotice \/ \E u \in Updaters : Screen(u) \/ Judge(u) \/ Mark(u) \/ Send(u)

Networks == (\E ip \in IPs, g \in Groups : PluginBlocks(ip, g, FALSE))
                \/ PluginSignals \/ Collect \/ NextInBatch

Blocking == Take \/ Write(FALSE)

Rechecking == StartScan \/ ScanOne

Resolving == \E ip \in IPs : Answer(ip)

\* The program with one set of whitelist rules and without faults.
CalmNext == Requests \/ Updates \/ Networks \/ Blocking \/ Rechecking \/ Resolving
                \/ Expire \/ Tick

\* A block that cannot be written, of an address or of a network or AS, a lookup
\* given up.
Faults == Write(TRUE) \/ \E ip \in IPs : GiveUp(ip) \/ \E g \in Groups : PluginBlocks(ip, g, TRUE)

StaticNext == CalmNext \/ Faults

Reloads == LoadRules \/ SignalRecheck

Next == StaticNext \/ Reloads \/ Restart

\* No entry expires while a lookup of its address is under way.
PromptLookups == Expire => \A ip \in IPs : lookups[ip] = 0

Spec == Init /\ [][Next]_vars
StaticSpec == Init /\ [][StaticNext]_vars
PromptSpec == Init /\ [][StaticNext /\ PromptLookups]_vars

\* The goroutines keep running.  A send on a channel is strongly fair: Go
\* serves the senders waiting on one channel in their order.  Nothing is
\* assumed of requests, of the clock, of file changes or of restarts.
IngestFairness ==
    /\ \A i \in Ingesters : WF_vars(Record(i)) /\ SF_vars(Receive(i))
    /\ SF_vars(ReceiveNotice)
    /\ \A ip \in IPs : SF_vars(Answer(ip))

JudgeFairness ==
    /\ \A u \in Updaters : WF_vars(Screen(u) \/ Judge(u) \/ Mark(u)) /\ SF_vars(Send(u))
    /\ WF_vars(PluginSignals) /\ WF_vars(Collect \/ NextInBatch)

WorkFairness == WF_vars(Blocking)

CalmSpec == Init /\ [][CalmNext]_vars /\ IngestFairness /\ JudgeFairness /\ WorkFairness

-----------------------------------------------------------------------------
(* Properties. *)

\* The types of the variables; in particular neither channel is ever filled
\* beyond its capacity, and whoever is past the lookup in History.update holds
\* an object.
TypeOK ==
    /\ history \subseteq Objs
    /\ ipd \in [Objs -> IPDatas]
    /\ ing \in [Ingesters -> IngesterStates]
    /\ upd \in [Updaters -> UpdaterStates]
    /\ batch \subseteq [ip : IPs, level : Levels]
    /\ orders \in Seq(Objs) /\ Len(orders) <= BlockCap
    /\ worker \in WorkerStates
    /\ store \in [IPs -> Entries]
    /\ netStore \in [Groups -> 0..BlockTTL]
    /\ plugin \in {"idle", "signal"}
    /\ checks \in 0..SignalCap
    /\ rules \in RuleSets
    /\ reload \in {"idle", "signal"}
    /\ rechecks \in 0..SignalCap
    /\ scan \subseteq [ip : IPs, host : Hosts]
    /\ lookups \in [IPs -> 0..(MaxLookups + 1)]
    /\ notice \subseteq IPs

\* An address that a rule on its network, AS or address whitelists is never
\* listed, whichever updater, network block or earlier IPData object led to the
\* order (README: "IP addresses which you don't want blocked no matter what").
\* Holds while the rules are not changed.
AddrWhitelistRespected == \A ip \in rules.addr : ~Listed(ip)

\* An address whose name a ClientHost rule whitelists is listed only if its lookup
\* gave no name (IsWhitelistedByClientHost, Resolver).  It takes a lookup to find out:
\* this needs a single updater (no Networks plugin) and lookups that end before the
\* entry they were started for expires.  README promises it of all of them: "There are
\* guaranteed to be IP addresses which you don't want blocked no matter what."
HostWhitelistRespected == \A ip \in rules.host : Listed(ip) => store[ip].host = "address"

\* An address that has a name is listed only after a lookup, whose answer, the name
\* or the address itself, the entry carries (ShouldBeBlocked, SetHostname).  True of
\* ShouldBeBlocked run by one goroutine only, and of an address without a name only
\* until a late empty answer replaces the address.
LookupBeforeBlock == \A ip \in Named : Listed(ip) => store[ip].host \in Known

\* A block lasts as long as the flag block-ttl says: no step of the program
\* shortens, renews or rewrites an entry; it goes when its time is over, when
\* its address is whitelisted, or when the program starts with -clear-blocked.
BlockKept(ip) ==
    Listed(ip) => \/ store'[ip] \in {store[ip], Aged(store[ip])}
                  \/ ClearBlocked
                  \/ store'[ip] = Unlisted /\ ip \in rules.addr \cup rules.host
BlockLasts == [][\A ip \in IPs : BlockKept(ip)]_vars

\* An order for an object that has not been blocked before leads to an entry in
\* the block list (blockWorker, BlockIP), if writes succeed.
OrderLeadsToBlock ==
    \A o \in Objs :
        (\E i \in 1..Len(orders) : orders[i] = o /\ ~ipd[o].isBlocked) ~> Listed(o[1])

\* Neither updater waits forever to send on BlockChan, though both may want to, and so
\* the history goroutine, on which every ingester and the resolver's worker wait, goes
\* on, and the Networks plugin is not kept waiting by blockASNNetWorker (CheckBlocked).
SendersProgress ==
    /\ \A u \in Updaters : (upd[u].pc = "send") ~> (upd[u].pc # "send")
    /\ (plugin = "signal") ~> (plugin = "idle")

\* An entry whose address is whitelisted by the rules is gone some time after
\* they were loaded or the recheck was signalled (block.go: "cleanup unblocks every IP that has been
\* whitelisted since it was written to the blocklist").
RecheckUnblocks ==
    \A ip \in IPs :
        ((reload = "signal" \/ rechecks > 0) /\ Listed(ip) /\ Whitelisted(ip, store[ip].host))
            ~> ~(Listed(ip) /\ Whitelisted(ip, store[ip].host))

-----------------------------------------------------------------------------
(* The block list that others see. *)

\* The addresses an updater has screened and not dropped, and those ordered.
Suspects ==
    {ip \in IPs : \/ \E u \in Updaters : upd[u].pc \in {"judge", "send"} /\ upd[u].obj[1] = ip
                  \/ \E i \in 1..Len(orders) : orders[i][1] = ip
                  \/ worker.pc = "write" /\ worker.obj[1] = ip}

Times == [ip \in IPs |-> store[ip].ttl]

Abstract == INSTANCE BlockList WITH suspects <- Suspects, ttl <- Times

\* Whatever races, fails or restarts on the way, the list changes only as
\* BlockList allows: nobody is listed who was not screened against the whitelist,
\* an order writes at most one entry, and an entry goes only by time, by a rule
\* or by -clear-blocked.
ImplementsBlockList == Abstract!Spec

-----------------------------------------------------------------------------
(* What the documentation promises and the code does not keep. *)

\* main.go: "block an IP if it makes more than this many app requests", for
\* "this long": every order leads to an entry in the block list.
EveryOrderLeadsToBlock ==
    \A o \in Objs : (\E i \in 1..Len(orders) : orders[i] = o) ~> Listed(o[1])

\* README: "botex doesn't flag any IP before it hasn't looked up its host name
\* successfully": what is listed of the addresses that have a name carries it.
LookedUpSuccessfully == \A ip \in Named : Listed(ip) => store[ip].host = "name"

\* An address over the limits whose hostname is known and which no rule
\* whitelists ends up in the block list, or its entry expires first.
OverLimitGetsBlocked ==
    \A o \in Objs :
        (o \in history /\ ipd[o].level = "high" /\ ipd[o].host \in Known
            /\ o[1] \notin rules.addr \cup rules.host) ~> (Listed(o[1]) \/ o \notin history)

\* whitelist.go: the recheck is to "remove any blocked IPs that might have been
\* whitelisted by the recent changes": with no recheck to do, no entry is whitelisted.
ListRespectsRules ==
    (reload = "idle" /\ rechecks = 0 /\ scan = {}) =>
        \A ip \in IPs : Listed(ip) => ~Whitelisted(ip, store[ip].host)
=============================================================================
