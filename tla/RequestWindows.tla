--------------------------- MODULE RequestWindows ---------------------------
(***************************************************************************)
(* The counters behind one address: History's entry for it, the Requests    *)
(* object with its rolling windows (Window, MapWindow, RequestsWindow), the *)
(* goroutines in History.Add and Requests.Add, and the history goroutine,   *)
(* which receives their statistics and expires what is old.                 *)
(*                                                                         *)
(* One step per critical section: Requests.mutex, History.mutex and the     *)
(* mutex of each window are taken and released as in the code.              *)
(***************************************************************************)
EXTENDS Integers, Sequences, Functions, FiniteSetsExt

CONSTANTS
    Adders,        \* goroutines that call History.Add
    Agents,        \* user agents
    WindowSize,    \* config.WindowSize
    NumWindows,    \* config.NumWindows
    KeepRequests,  \* config.KeepRequests
    MaxDelay,      \* bound: a request is at most this old when it arrives
    MaxTime,       \* bound: the clock
    MaxObjects,    \* bound: Requests objects made for the address
    MaxRequests    \* bound: requests that arrive

ASSUME SizeAssumption ==
    /\ WindowSize \in Nat \ {0} /\ NumWindows \in Nat \ {0}
    /\ KeepRequests \in Nat /\ MaxDelay \in Nat
    /\ MaxTime \in Nat /\ MaxObjects \in Nat \ {0} /\ MaxRequests \in Nat
ASSUME AdderAssumption == "history" \notin Adders
ASSUME AgentAssumption == Agents # {}

Times == 0..MaxTime
Objects == 1..MaxObjects
Expirers == Adders \cup {"history"}

VARIABLES
    now,      \* the clock
    entry,    \* History.data[ip]: the object's number, 0 without an entry
    made,     \* objects made so far
    reqs,     \* the Requests objects
    stored,   \* IPData.Total and IPData.App of each object
    add,      \* what each adder is doing
    hist,     \* what the history goroutine is doing
    exp,      \* the call of Requests.Expire each goroutine is in
    arrived   \* requests so far

vars == <<now, entry, made, reqs, stored, add, hist, exp, arrived>>

-----------------------------------------------------------------------------
(* Windows. *)

\* Window.keyFor: the start of the bucket a time falls into.
KeyFor(t) == t - (t % WindowSize)

Keys == {t \in Times : t % WindowSize = 0}

Windows == [Keys -> 0..MaxRequests]

NoRequests == [k \in Keys |-> 0]

\* Window.Count
Count(w) == SumFunction(w)

\* Window.Add
WithRequest(w, t) == [w EXCEPT ![KeyFor(t)] = @ + 1]

\* A slip: the threshold is one window too late.
ThresholdOneLess(t) == t - WindowSize * (NumWindows - 1)

Threshold(t) == t - WindowSize * NumWindows

\* Window.Expire at time t
Unexpired(w, t) == [k \in Keys |-> IF k >= Threshold(t) THEN w[k] ELSE 0]

\* A slip: the list is trimmed before the insertion.
TrimmedFirst(list, t) ==
    <<t>> \o (IF Len(list) > KeepRequests THEN SubSeq(list, 1, KeepRequests) ELSE list)

\* RequestsWindow.Add: the newest request in front, the oldest dropped if there
\* are too many.
Pushed(list, t) ==
    LET longer == <<t>> \o list
    IN  IF Len(longer) > KeepRequests THEN SubSeq(longer, 1, Len(longer) - 1) ELSE longer

\* RequestsWindow.Expire: expired requests are removed from the back, up to the
\* first one that is not expired.
Trimmed(list, t) ==
    LET live == {i \in 1..Len(list) : t - list[i] <= WindowSize * NumWindows}
    IN  SubSeq(list, 1, IF live = {} THEN 0 ELSE Max(live))

NewRequests(t) ==
    [all |-> NoRequests, app |-> NoRequests, other |-> NoRequests,
     agents |-> [a \in Agents |-> NoRequests], latest |-> <<>>,
     createdAt |-> t, expiredAt |-> t]

\* What Requests.Add does under the write lock: every window counts the request.
Recorded(r, kind, agent, t) ==
    [r EXCEPT !.all = WithRequest(@, t), ![kind] = WithRequest(@, t),
              !.agents[agent] = WithRequest(@, t), !.latest = Pushed(@, t)]

CanBeExpired(r, t) == t - r.createdAt > WindowSize /\ t - r.expiredAt > WindowSize

\* A slip: the window of all requests comes last.
PartsKindsFirst == <<"app", "other", "agents", "latest", "all">>

\* The order in which Requests.Expire goes through the windows.
Parts == <<"all", "app", "other", "agents", "latest">>

ExpirePart(r, part, t) ==
    CASE part \in {"all", "app", "other"} -> [r EXCEPT ![part] = Unexpired(@, t)]
      [] part = "agents" -> [r EXCEPT !.agents = [a \in Agents |-> Unexpired(@[a], t)]]
      [] part = "latest" -> [r EXCEPT !.latest = Trimmed(@, t)]

PartIsEmpty(r, part) ==
    CASE part \in {"all", "app", "other"} -> r[part] = NoRequests
      [] part = "agents" -> r.agents = [a \in Agents |-> NoRequests]
      [] part = "latest" -> r.latest = <<>>

-----------------------------------------------------------------------------
(* Goroutines and locks. *)

NoCall == [obj |-> 0, step |-> 0, left |-> FALSE]
IdleAdder == [pc |-> "idle", obj |-> 0, time |-> 0, kind |-> "app", agent |-> CHOOSE a \in Agents : TRUE,
              total |-> 0, app |-> 0]

Stamping == Len(Parts) + 1
Returned == Len(Parts) + 2

\* A slip: the read lock is not released on return.
ReadersForever(r) == {x \in Expirers : exp[x].obj = r}

\* Goroutines that hold the read lock, or the write lock, of a Requests object.
Readers(r) == {x \in Expirers : exp[x].obj = r /\ exp[x].step < Returned}

Writers(r) == {p \in Adders : add[p].obj = r /\ add[p].pc = "record"}

\* History.expire holds History.mutex while it works.
HistoryUnlocked == hist = "idle"

-----------------------------------------------------------------------------
(* Requests.Expire, called by x on the object r. *)

\* The read lock, and the early return if nothing can be expired yet.
CallExpire(x, r) ==
    /\ Writers(r) = {}
    /\ exp' = [exp EXCEPT ![x] =
                IF CanBeExpired(reqs[r], now)
                THEN [obj |-> r, step |-> 1, left |-> FALSE]
                ELSE [obj |-> r, step |-> Returned, left |-> reqs[r].latest # <<>>]]

\* One window after the other, each with its own reading of the clock.
ExpireNext(x) ==
    /\ exp[x].step \in 1..Len(Parts)
    /\ LET r == exp[x].obj
           part == Parts[exp[x].step]
           new == ExpirePart(reqs[r], part, now)
       IN  /\ reqs' = [reqs EXCEPT ![r] = new]
           /\ exp' = [exp EXCEPT ![x].step = @ + 1,
                                 ![x].left = @ \/ ~PartIsEmpty(new, part)]
    /\ UNCHANGED <<now, entry, made, stored, add, hist, arrived>>

\* expiredAt is set, still under the read lock.
Stamp(x) ==
    /\ exp[x].step = Stamping
    /\ reqs' = [reqs EXCEPT ![exp[x].obj].expiredAt = now]
    /\ exp' = [exp EXCEPT ![x].step = Returned]
    /\ UNCHANGED <<now, entry, made, stored, add, hist, arrived>>

-----------------------------------------------------------------------------
(* History.Add, IPData.Add and Requests.Add. *)

\* The first critical section: an entry is made if there is none.
Insert(p) ==
    /\ add[p].pc = "idle"
    /\ arrived < MaxRequests
    /\ HistoryUnlocked
    /\ arrived' = arrived + 1
    /\ \E t \in Times, kind \in {"app", "other"}, a \in Agents :
          /\ t \in (now - MaxDelay)..now
          /\ add' = [add EXCEPT ![p] = [IdleAdder EXCEPT !.pc = "look", !.time = t,
                                                         !.kind = kind, !.agent = a]]
    /\ \/ entry # 0 /\ UNCHANGED <<entry, made, reqs>>
       \/ /\ entry = 0
          /\ made < MaxObjects
          /\ made' = made + 1
          /\ entry' = made'
          /\ reqs' = [reqs EXCEPT ![made'] = NewRequests(now)]
    /\ UNCHANGED <<now, stored, hist, exp>>

\* The second one: the entry may be gone, and the request is dropped.
LookUp(p) ==
    /\ add[p].pc = "look"
    /\ HistoryUnlocked
    /\ add' = [add EXCEPT ![p] = IF entry = 0 THEN IdleAdder
                                 ELSE [@ EXCEPT !.pc = "expire", !.obj = entry]]
    /\ UNCHANGED <<now, entry, made, reqs, stored, hist, exp, arrived>>

\* Requests.Add expires first.
AddExpires(p) ==
    /\ add[p].pc = "expire"
    /\ exp[p] = NoCall
    /\ CallExpire(p, add[p].obj)
    /\ UNCHANGED <<now, entry, made, reqs, stored, add, hist, arrived>>

\* The write lock.
Lock(p) ==
    /\ add[p].pc = "expire"
    /\ exp[p].step = Returned
    /\ Readers(add[p].obj) = {} /\ Writers(add[p].obj) = {}
    /\ exp' = [exp EXCEPT ![p] = NoCall]
    /\ add' = [add EXCEPT ![p].pc = "record"]
    /\ UNCHANGED <<now, entry, made, reqs, stored, hist, arrived>>

\* All windows count the request; the lock is released.
Record(p) ==
    /\ add[p].pc = "record"
    /\ reqs' = [reqs EXCEPT ![add[p].obj] =
                   Recorded(@, add[p].kind, add[p].agent, add[p].time)]
    /\ add' = [add EXCEPT ![p].pc = "total"]
    /\ UNCHANGED <<now, entry, made, stored, hist, exp, arrived>>

\* The counts are read without Requests.mutex, one window after the other.
ReadTotal(p) ==
    /\ add[p].pc = "total"
    /\ add' = [add EXCEPT ![p] = [@ EXCEPT !.pc = "app", !.total = Count(reqs[add[p].obj].all)]]
    /\ UNCHANGED <<now, entry, made, reqs, stored, hist, exp, arrived>>

ReadApp(p) ==
    /\ add[p].pc = "app"
    /\ add' = [add EXCEPT ![p] = [@ EXCEPT !.pc = "send", !.app = Count(reqs[add[p].obj].app)]]
    /\ UNCHANGED <<now, entry, made, reqs, stored, hist, exp, arrived>>

\* The send on ipUpdateChan meets the history goroutine: History.update stores
\* the statistics in the entry there is by now, unless they count no request.
Deliver(p) ==
    /\ add[p].pc = "send"
    /\ hist = "idle"
    /\ stored' = IF entry = 0 \/ add[p].total <= 0 THEN stored
                 ELSE [stored EXCEPT ![entry] = [total |-> add[p].total, app |-> add[p].app]]
    /\ add' = [add EXCEPT ![p] = IdleAdder]
    /\ UNCHANGED <<now, entry, made, reqs, hist, exp, arrived>>

-----------------------------------------------------------------------------
(* The history goroutine's ticker: History.expire. *)

\* It skips an entry that cannot be expired, before it takes Requests.mutex.
TickerExpires ==
    /\ hist = "idle"
    /\ hist' = IF entry # 0 /\ CanBeExpired(reqs[entry], now) THEN "expire" ELSE "idle"
    /\ UNCHANGED <<now, entry, made, reqs, stored, add, exp, arrived>>

HistoryExpires ==
    /\ hist = "expire"
    /\ exp["history"] = NoCall
    /\ CallExpire("history", entry)
    /\ UNCHANGED <<now, entry, made, reqs, stored, add, hist, arrived>>

\* The entry is deleted if nothing is left of it.
Delete ==
    /\ hist = "expire"
    /\ exp["history"].step = Returned
    /\ entry' = IF exp["history"].left THEN entry ELSE 0
    /\ exp' = [exp EXCEPT !["history"] = NoCall]
    /\ hist' = "idle"
    /\ UNCHANGED <<now, made, reqs, stored, add, arrived>>

-----------------------------------------------------------------------------

Tick ==
    /\ now < MaxTime
    /\ now' = now + 1
    /\ UNCHANGED <<entry, made, reqs, stored, add, hist, exp, arrived>>

Init ==
    /\ now = 0
    /\ entry = 0
    /\ made = 0
    /\ reqs = [r \in Objects |-> NewRequests(0)]
    /\ stored = [r \in Objects |-> [total |-> 0, app |-> 0]]
    /\ add = [p \in Adders |-> IdleAdder]
    /\ hist = "idle"
    /\ exp = [x \in Expirers |-> NoCall]
    /\ arrived = 0

ExpireSteps(x) == ExpireNext(x) \/ Stamp(x)

AddSteps(p) ==
    \/ LookUp(p) \/ AddExpires(p) \/ ExpireSteps(p) \/ Lock(p) \/ Record(p)
    \/ ReadTotal(p) \/ ReadApp(p) \/ Deliver(p)

HistorySteps == HistoryExpires \/ ExpireSteps("history") \/ Delete

Next ==
    \/ \E p \in Adders : Insert(p) \/ AddSteps(p)
    \/ TickerExpires \/ HistorySteps
    \/ Tick

Spec == Init /\ [][Next]_vars

\* Every goroutine keeps running to the end of a call it has begun.  It is strong
\* fairness: Go's mutexes starve neither readers nor writers, and an unbuffered
\* channel serves its senders in order.  Nothing is assumed of requests, ticker
\* and clock.
Fairness == (\A p \in Adders : SF_vars(AddSteps(p))) /\ SF_vars(HistorySteps)

FairSpec == Spec /\ Fairness

-----------------------------------------------------------------------------
(* Properties. *)

AdderStates ==
    [pc : {"idle", "look", "expire", "record", "total", "app", "send"},
     obj : 0..MaxObjects, time : Times, kind : {"app", "other"}, agent : Agents,
     total : Nat, app : Nat]

\* The types of the variables; the list of requests never holds more than
\* KeepRequests (requestwindow.go: "limited by a maximum number").
TypeOK ==
    /\ now \in Times /\ made \in 0..MaxObjects /\ entry \in 0..made
    /\ arrived \in 0..MaxRequests
    /\ \A r \in Objects :
          /\ \A part \in {"all", "app", "other"} : reqs[r][part] \in Windows
          /\ reqs[r].agents \in [Agents -> Windows]
          /\ reqs[r].latest \in Seq(Times) /\ Len(reqs[r].latest) <= KeepRequests
          /\ reqs[r].createdAt \in Times /\ reqs[r].expiredAt \in Times
    /\ stored \in [Objects -> [total : Nat, app : Nat]]
    /\ add \in [Adders -> AdderStates]
    /\ hist \in {"idle", "expire"}
    /\ exp \in [Expirers -> [obj : 0..MaxObjects, step : 0..Returned, left : BOOLEAN]]

\* While nobody expires an object, none of its buckets counts more requests of
\* the two kinds than requests, although the windows are expired one by one, by
\* several goroutines at once, each with its own reading of the clock, and
\* requests arrive late (Requests.Expire under the read lock).
KindsWithinAll ==
    \A r \in Objects, k \in Keys :
        Readers(r) = {} => reqs[r].app[k] + reqs[r].other[k] <= reqs[r].all[k]

\* Expiring never forgets a request of the last NumWindows windows, whoever
\* expires and however old its reading of the clock.
LiveBucketsStay ==
    [][\A r \in 1..made, k \in Keys :
          k >= now - WindowSize * NumWindows => reqs'[r].all[k] >= reqs[r].all[k]]_vars

\* Every call of Add comes to an end: the locks of History and Requests and the
\* rendezvous with the history goroutine never wait for each other in a circle.
AddReturns == \A p \in Adders : (add[p].pc # "idle") ~> (add[p].pc = "idle")

\* When no request is being added, the total that decides about a block counts
\* every request of the entry (requests.go: "this makes sure the maximum number
\* for the overall time window is used").  True of a single adder.
StoredTotalIsCurrent ==
    ((\A p \in Adders : add[p].pc = "idle") /\ entry # 0) =>
        stored[entry].total >= Count(reqs[entry].all)

-----------------------------------------------------------------------------
(* What comments say and the code does not keep. *)

\* requests.go: "App returns the number of all application requests", "Total
\* returns the total number of requests": in the statistics of one address the
\* first is not above the second (their ratio decides about a block).
SentAppWithinTotal == \A p \in Adders : add[p].pc = "send" => add[p].app <= add[p].total

\* history.go: "Add adds a single HTTP request to the history": a request that
\* has been counted and is not expired is counted in the entry of its address.
AddedToHistory ==
    \A p \in Adders :
        (add[p].pc = "total" /\ KeyFor(add[p].time) >= Threshold(now)) => entry = add[p].obj
=============================================================================
