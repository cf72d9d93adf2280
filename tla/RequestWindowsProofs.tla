------------------------ MODULE RequestWindowsProofs ------------------------
(***************************************************************************)
(* Theorems about RequestWindows, for any number of goroutines, requests,   *)
(* Requests objects and agents, and all sizes of windows and lists.         *)
(***************************************************************************)
EXTENDS RequestWindows, Sums

Counters == [Keys -> Nat]

Lists == {l \in Seq(Times) : Len(l) <= KeepRequests}

Reqs == [all : Counters, app : Counters, other : Counters, agents : [Agents -> Counters],
         latest : Lists, createdAt : Times, expiredAt : Times]

\* No bucket of r counts more than b requests.
Bounded(r, b) ==
    \A k \in Keys : /\ r.all[k] <= b /\ r.app[k] <= b /\ r.other[k] <= b
                    /\ \A a \in Agents : r.agents[a][k] <= b

ExpStates == [obj : 0..MaxObjects, step : 0..Returned, left : BOOLEAN]

-----------------------------------------------------------------------------
(* Windows and lists. *)

LEMMA PartsAre ==
    /\ Parts[1] = "all" /\ Parts[2] = "app" /\ Parts[3] = "other"
    /\ Parts[4] = "agents" /\ Parts[5] = "latest"
    /\ Len(Parts) = 5 /\ Stamping = 6 /\ Returned = 7
  BY DEF Parts, Stamping, Returned

LEMMA KeysFinite == IsFiniteSet(Keys) /\ Keys \subseteq Nat
<1>1. IsFiniteSet(Times) /\ Keys \subseteq Times /\ Times \subseteq Nat
  BY SizeAssumption, FS_Interval DEF Times, Keys
<1> QED
  BY <1>1, FS_Subset

LEMMA CountTyped == ASSUME NEW w \in Counters PROVE Count(w) \in Nat
<1>1. SumFunctionOnSet(w, Keys) \in Nat
  BY KeysFinite, SumNotNegative DEF Counters
<1> QED
  BY <1>1 DEF Count, SumFunction, Counters

LEMMA CountMonotone ==
    ASSUME NEW v \in Counters, NEW w \in Counters, \A k \in Keys : v[k] <= w[k]
    PROVE  Count(v) <= Count(w)
<1>1. \A k \in Keys : v[k] \in Int /\ w[k] \in Int /\ v[k] <= w[k]
  BY DEF Counters
<1>2. SumFunctionOnSet(v, Keys) <= SumFunctionOnSet(w, Keys)
  BY <1>1, KeysFinite, SumMonotone
<1> QED
  BY <1>2 DEF Count, SumFunction, Counters

LEMMA ThresholdTyped == ASSUME NEW t \in Int PROVE Threshold(t) \in Int
<1>1. WindowSize * NumWindows \in Int
  BY SizeAssumption
<1> QED
  BY <1>1 DEF Threshold

LEMMA ThresholdMoves ==
    ASSUME NEW t \in Int, NEW u \in Int, t <= u PROVE Threshold(t) <= Threshold(u)
<1>1. WindowSize * NumWindows \in Int
  BY SizeAssumption
<1> QED
  BY <1>1 DEF Threshold

LEMMA UnexpiredTyped ==
    ASSUME NEW w \in Counters, NEW t
    PROVE  /\ Unexpired(w, t) \in Counters
           /\ \A k \in Keys : Unexpired(w, t)[k] = IF k >= Threshold(t) THEN w[k] ELSE 0
  BY DEF Unexpired, Counters

LEMMA WithRequestTyped ==
    ASSUME NEW w \in Counters, NEW t
    PROVE  /\ WithRequest(w, t) \in Counters
           /\ \A k \in Keys : WithRequest(w, t)[k] = IF k = KeyFor(t) THEN w[k] + 1 ELSE w[k]
<1> DEFINE x == KeyFor(t)
<1>1. WithRequest(w, t) = [w EXCEPT ![x] = w[x] + 1]
  BY DEF WithRequest
<1> HIDE DEF x
<1>2. CASE x \in Keys
  <2>1. w[x] + 1 \in Nat
    BY <1>2 DEF Counters
  <2> QED
    BY <1>1, <1>2, <2>1 DEF Counters, x
<1>3. CASE x \notin Keys
  BY <1>1, <1>3 DEF Counters, x
<1> QED
  BY <1>2, <1>3

LEMMA NoRequestsTyped == NoRequests \in Counters /\ \A k \in Keys : NoRequests[k] = 0
  BY DEF NoRequests, Counters

LEMMA FirstOnes ==
    ASSUME NEW l \in Seq(Times), NEW n \in 0..Len(l)
    PROVE  SubSeq(l, 1, n) \in Seq(Times) /\ Len(SubSeq(l, 1, n)) = n
  OBVIOUS

LEMMA PushedTyped ==
    ASSUME NEW l \in Lists, NEW t \in Times PROVE Pushed(l, t) \in Lists
<1> DEFINE longer == <<t>> \o l
<1>1. longer \in Seq(Times) /\ Len(longer) = Len(l) + 1 /\ Len(l) \in Nat
  BY DEF Lists
<1> HIDE DEF longer
<1>2. SubSeq(longer, 1, Len(longer) - 1) \in Seq(Times)
      /\ Len(SubSeq(longer, 1, Len(longer) - 1)) = Len(longer) - 1
  <2>1. Len(longer) - 1 \in 0..Len(longer)
    BY <1>1
  <2> QED
    BY <1>1, <2>1, FirstOnes
<1>3. Pushed(l, t) = IF Len(longer) > KeepRequests THEN SubSeq(longer, 1, Len(longer) - 1)
                     ELSE longer
  BY DEF Pushed, longer
<1> QED
  BY <1>1, <1>2, <1>3, SizeAssumption DEF Lists

LEMMA TrimmedTyped ==
    ASSUME NEW l \in Lists, NEW t PROVE Trimmed(l, t) \in Lists
<1> DEFINE live == {i \in 1..Len(l) : t - l[i] <= WindowSize * NumWindows}
           n == IF live = {} THEN 0 ELSE Max(live)
<1>1. l \in Seq(Times) /\ Len(l) \in Nat /\ Len(l) <= KeepRequests
  BY DEF Lists
<1>2. live \subseteq 1..Len(l)
  OBVIOUS
<1>3. Trimmed(l, t) = SubSeq(l, 1, n)
  BY DEF Trimmed
<1> HIDE DEF live
<1>4. n \in 0..Len(l)
  <2>1. CASE live = {}
    BY <1>1, <2>1
  <2>2. CASE live # {}
    <3>1. live \subseteq Int /\ Len(l) \in Int /\ \A m \in live : m <= Len(l)
      BY <1>1, <1>2
    <3>2. \E i \in live : \A m \in live : m <= i
      BY <2>2, <3>1, Greatest, Zenon
    <3>3. \E i \in live : \A m \in live : i >= m
      BY <3>1, <3>2
    <3>4. Max(live) \in live
      BY <3>3 DEF Max
    <3>5. n = Max(live)
      BY <2>2
    <3> HIDE DEF n
    <3>6. n \in 1..Len(l)
      BY <1>2, <3>4, <3>5
    <3> QED
      BY <1>1, <3>6
  <2> QED
    BY <2>1, <2>2
<1> HIDE DEF n
<1>5. SubSeq(l, 1, n) \in Seq(Times) /\ Len(SubSeq(l, 1, n)) = n
  BY <1>1, <1>4, FirstOnes
<1> QED
  BY <1>1, <1>3, <1>4, <1>5, SizeAssumption DEF Lists

-----------------------------------------------------------------------------
(* The fields of a Requests object. *)

LEMMA SetAll ==
    ASSUME NEW r \in Reqs, NEW w \in Counters
    PROVE  LET s == [r EXCEPT !.all = w]
           IN  s \in Reqs /\ s.all = w /\ s.app = r.app /\ s.other = r.other
                   /\ s.agents = r.agents /\ s.latest = r.latest
  BY DEF Reqs

LEMMA SetApp ==
    ASSUME NEW r \in Reqs, NEW w \in Counters
    PROVE  LET s == [r EXCEPT !.app = w]
           IN  s \in Reqs /\ s.all = r.all /\ s.app = w /\ s.other = r.other
                   /\ s.agents = r.agents /\ s.latest = r.latest
  BY DEF Reqs

LEMMA SetOther ==
    ASSUME NEW r \in Reqs, NEW w \in Counters
    PROVE  LET s == [r EXCEPT !.other = w]
           IN  s \in Reqs /\ s.all = r.all /\ s.app = r.app /\ s.other = w
                   /\ s.agents = r.agents /\ s.latest = r.latest
  BY DEF Reqs

LEMMA SetAgents ==
    ASSUME NEW r \in Reqs, NEW g \in [Agents -> Counters]
    PROVE  LET s == [r EXCEPT !.agents = g]
           IN  s \in Reqs /\ s.all = r.all /\ s.app = r.app /\ s.other = r.other
                   /\ s.agents = g /\ s.latest = r.latest
  BY DEF Reqs

LEMMA SetLatest ==
    ASSUME NEW r \in Reqs, NEW l \in Lists
    PROVE  LET s == [r EXCEPT !.latest = l]
           IN  s \in Reqs /\ s.all = r.all /\ s.app = r.app /\ s.other = r.other
                   /\ s.agents = r.agents /\ s.latest = l
  BY DEF Reqs

LEMMA SetExpiredAt ==
    ASSUME NEW r \in Reqs, NEW t \in Times
    PROVE  LET s == [r EXCEPT !.expiredAt = t]
           IN  s \in Reqs /\ s.all = r.all /\ s.app = r.app /\ s.other = r.other
                   /\ s.agents = r.agents /\ s.latest = r.latest
  BY DEF Reqs

LEMMA FieldsTyped ==
    ASSUME NEW r \in Reqs
    PROVE  /\ r.all \in Counters /\ r.app \in Counters /\ r.other \in Counters
           /\ r.agents \in [Agents -> Counters] /\ r.latest \in Lists
           /\ r.createdAt \in Times /\ r.expiredAt \in Times
  BY DEF Reqs

LEMMA NewTyped ==
    ASSUME NEW t \in Times
    PROVE  LET s == NewRequests(t)
           IN  /\ s \in Reqs /\ \A b \in Nat : Bounded(s, b)
               /\ s.all = NoRequests /\ s.app = NoRequests /\ s.other = NoRequests
<1> DEFINE s == NewRequests(t)
<1>1. <<>> \in Lists
  BY SizeAssumption DEF Lists
<1>2. s \in Reqs /\ s.all = NoRequests /\ s.app = NoRequests /\ s.other = NoRequests
      /\ s.agents = [a \in Agents |-> NoRequests]
  BY <1>1, NoRequestsTyped DEF NewRequests, Reqs
<1> HIDE DEF s
<1>3. \A b \in Nat : Bounded(s, b)
  BY <1>2, NoRequestsTyped DEF Bounded
<1> QED
  BY <1>2, <1>3 DEF s

\* What Expire does to one window leaves the others alone, and forgets only
\* requests below the threshold.
PartExpired(r, s, i, t) ==
    /\ s \in Reqs
    /\ s.all = IF i = 1 THEN Unexpired(r.all, t) ELSE r.all
    /\ s.app = IF i = 2 THEN Unexpired(r.app, t) ELSE r.app
    /\ s.other = IF i = 3 THEN Unexpired(r.other, t) ELSE r.other
    /\ \A b \in Nat : Bounded(r, b) => Bounded(s, b)

LEMMA ExpirePartDoes ==
    ASSUME NEW r \in Reqs, NEW i \in 1..Len(Parts), NEW t
    PROVE  PartExpired(r, ExpirePart(r, Parts[i], t), i, t)
<1> DEFINE s == ExpirePart(r, Parts[i], t)
<1>0. /\ r.all \in Counters /\ r.app \in Counters /\ r.other \in Counters
      /\ r.agents \in [Agents -> Counters] /\ r.latest \in Lists
  BY FieldsTyped
<1>1. CASE i = 1
  <2>1. s = [r EXCEPT !.all = Unexpired(r.all, t)]
    BY <1>1, PartsAre DEF ExpirePart, Reqs
  <2>2. Unexpired(r.all, t) \in Counters
    BY <1>0, UnexpiredTyped
  <2> HIDE DEF s
  <2>3. s \in Reqs /\ s.all = Unexpired(r.all, t) /\ s.app = r.app /\ s.other = r.other
        /\ s.agents = r.agents
    BY <2>1, <2>2, SetAll
  <2>4. \A k \in Keys : s.all[k] \in {0, r.all[k]}
    BY <1>0, <2>3, UnexpiredTyped
  <2>5. ASSUME NEW b \in Nat, Bounded(r, b) PROVE Bounded(s, b)
    BY <2>3, <2>4, <2>5 DEF Bounded
  <2> QED
    BY <1>1, <2>3, <2>5 DEF PartExpired, s
<1>2. CASE i = 2
  <2>1. s = [r EXCEPT !.app = Unexpired(r.app, t)]
    BY <1>2, PartsAre DEF ExpirePart, Reqs
  <2>2. Unexpired(r.app, t) \in Counters
    BY <1>0, UnexpiredTyped
  <2> HIDE DEF s
  <2>3. s \in Reqs /\ s.all = r.all /\ s.app = Unexpired(r.app, t) /\ s.other = r.other
        /\ s.agents = r.agents
    BY <2>1, <2>2, SetApp
  <2>4. \A k \in Keys : s.app[k] \in {0, r.app[k]}
    BY <1>0, <2>3, UnexpiredTyped
  <2>5. ASSUME NEW b \in Nat, Bounded(r, b) PROVE Bounded(s, b)
    BY <2>3, <2>4, <2>5 DEF Bounded
  <2> QED
    BY <1>2, <2>3, <2>5 DEF PartExpired, s
<1>3. CASE i = 3
  <2>1. s = [r EXCEPT !.other = Unexpired(r.other, t)]
    BY <1>3, PartsAre DEF ExpirePart, Reqs
  <2>2. Unexpired(r.other, t) \in Counters
    BY <1>0, UnexpiredTyped
  <2> HIDE DEF s
  <2>3. s \in Reqs /\ s.all = r.all /\ s.app = r.app /\ s.other = Unexpired(r.other, t)
        /\ s.agents = r.agents
    BY <2>1, <2>2, SetOther
  <2>4. \A k \in Keys : s.other[k] \in {0, r.other[k]}
    BY <1>0, <2>3, UnexpiredTyped
  <2>5. ASSUME NEW b \in Nat, Bounded(r, b) PROVE Bounded(s, b)
    BY <2>3, <2>4, <2>5 DEF Bounded
  <2> QED
    BY <1>3, <2>3, <2>5 DEF PartExpired, s
<1>4. CASE i = 4
  <2> DEFINE g == [a \in Agents |-> Unexpired(r.agents[a], t)]
  <2>1. s = [r EXCEPT !.agents = g]
    BY <1>4, PartsAre DEF ExpirePart, Reqs
  <2>2. g \in [Agents -> Counters]
        /\ \A a \in Agents, k \in Keys : g[a][k] \in {0, r.agents[a][k]}
    BY <1>0, UnexpiredTyped
  <2> HIDE DEF s, g
  <2>3. s \in Reqs /\ s.all = r.all /\ s.app = r.app /\ s.other = r.other /\ s.agents = g
    BY <2>1, <2>2, SetAgents
  <2>4. ASSUME NEW b \in Nat, Bounded(r, b) PROVE Bounded(s, b)
    BY <2>2, <2>3, <2>4 DEF Bounded
  <2> QED
    BY <1>4, <2>3, <2>4 DEF PartExpired, s
<1>5. CASE i = 5
  <2>1. s = [r EXCEPT !.latest = Trimmed(r.latest, t)]
    BY <1>5, PartsAre DEF ExpirePart, Reqs
  <2>2. Trimmed(r.latest, t) \in Lists
    BY <1>0, TrimmedTyped
  <2> HIDE DEF s
  <2>3. s \in Reqs /\ s.all = r.all /\ s.app = r.app /\ s.other = r.other /\ s.agents = r.agents
    BY <2>1, <2>2, SetLatest
  <2> QED
    BY <1>5, <2>3 DEF Bounded, PartExpired, s
<1> HIDE DEF s
<1>6. i \in 1..5
  BY PartsAre
<1> QED
  BY <1>1, <1>2, <1>3, <1>4, <1>5, <1>6 DEF s

\* Requests.Add counts a request in the window of all and in that of its kind.
LEMMA RequestRecorded ==
    ASSUME NEW r \in Reqs, NEW kind \in {"app", "other"}, NEW agent \in Agents, NEW t \in Times
    PROVE  LET s == Recorded(r, kind, agent, t)
           IN  /\ s \in Reqs
               /\ s.all = WithRequest(r.all, t)
               /\ s.app = IF kind = "app" THEN WithRequest(r.app, t) ELSE r.app
               /\ s.other = IF kind = "other" THEN WithRequest(r.other, t) ELSE r.other
               /\ \A b \in Nat : Bounded(r, b) => Bounded(s, b + 1)
<1> DEFINE all == WithRequest(r.all, t)
           app == IF kind = "app" THEN WithRequest(r.app, t) ELSE r.app
           other == IF kind = "other" THEN WithRequest(r.other, t) ELSE r.other
           agents == [r.agents EXCEPT ![agent] = WithRequest(r.agents[agent], t)]
           r1 == [r EXCEPT !.all = all]
           r2 == [r1 EXCEPT !.app = app]
           r3 == [r2 EXCEPT !.other = other]
           r4 == [r3 EXCEPT !.agents = agents]
           s == [r4 EXCEPT !.latest = Pushed(r.latest, t)]
<1>0. /\ r.all \in Counters /\ r.app \in Counters /\ r.other \in Counters
      /\ r.agents \in [Agents -> Counters] /\ r.latest \in Lists
  BY FieldsTyped
<1>1. all \in Counters /\ app \in Counters /\ other \in Counters /\ agents \in [Agents -> Counters]
      /\ Pushed(r.latest, t) \in Lists
  BY <1>0, WithRequestTyped, PushedTyped
<1>2. /\ \A k \in Keys : /\ all[k] \in {r.all[k], r.all[k] + 1}
                         /\ app[k] \in {r.app[k], r.app[k] + 1}
                         /\ other[k] \in {r.other[k], r.other[k] + 1}
      /\ \A a \in Agents, k \in Keys : agents[a][k] \in {r.agents[a][k], r.agents[a][k] + 1}
  BY <1>0, WithRequestTyped
<1>3. Recorded(r, kind, agent, t) = s
  <2>1. CASE kind = "app"
    BY <1>0, <2>1 DEF Recorded, Reqs
  <2>2. CASE kind = "other"
    BY <1>0, <2>2 DEF Recorded, Reqs
  <2> QED
    BY <2>1, <2>2
<1> HIDE DEF all, app, other, agents
<1>4. r1 \in Reqs /\ r1.all = all
  BY <1>1, SetAll
<1> HIDE DEF r1
<1>5. r2 \in Reqs /\ r2.all = all /\ r2.app = app
  BY <1>1, <1>4, SetApp
<1> HIDE DEF r2
<1>6. r3 \in Reqs /\ r3.all = all /\ r3.app = app /\ r3.other = other
  BY <1>1, <1>5, SetOther
<1> HIDE DEF r3
<1>7. r4 \in Reqs /\ r4.all = all /\ r4.app = app /\ r4.other = other /\ r4.agents = agents
  BY <1>1, <1>6, SetAgents
<1> HIDE DEF r4
<1>8. s \in Reqs /\ s.all = all /\ s.app = app /\ s.other = other /\ s.agents = agents
  BY <1>1, <1>7, SetLatest
<1> HIDE DEF s
<1>9. ASSUME NEW b \in Nat, Bounded(r, b) PROVE Bounded(s, b + 1)
  <2>1. ASSUME NEW k \in Keys
        PROVE  s.all[k] <= b + 1 /\ s.app[k] <= b + 1 /\ s.other[k] <= b + 1
    BY <1>0, <1>2, <1>8, <1>9 DEF Bounded, Counters
  <2>2. ASSUME NEW k \in Keys, NEW a \in Agents PROVE s.agents[a][k] <= b + 1
    <3>1. r.agents[a] \in Counters
      BY <1>0
    <3> QED
      BY <1>2, <1>8, <1>9, <3>1 DEF Bounded, Counters
  <2> QED
    BY <2>1, <2>2 DEF Bounded
<1> QED
  BY <1>3, <1>8, <1>9 DEF all, app, other
-----------------------------------------------------------------------------
(* The invariant behind the types: a goroutine works on an object that has    *)
(* been made, and a bucket counts at most the requests that have arrived and  *)
(* are not still on their way to it.                                          *)

Holding == {"expire", "record", "total", "app", "send"}
Pending == {p \in Adders : add[p].pc \in {"look", "expire", "record"}}

Typed ==
    /\ now \in Times /\ made \in 0..MaxObjects /\ entry \in 0..made
    /\ arrived \in 0..MaxRequests
    /\ reqs \in [Objects -> Reqs]
    /\ stored \in [Objects -> [total : Nat, app : Nat]]
    /\ add \in [Adders -> AdderStates]
    /\ hist \in {"idle", "expire"}
    /\ exp \in [Expirers -> ExpStates]

ObjectsMade ==
    /\ \A p \in Adders : add[p].pc \in Holding => add[p].obj \in 1..made
    /\ \A x \in Expirers : exp[x].step # 0 => exp[x].obj \in 1..made
    /\ hist = "expire" => entry # 0

CountedOnce ==
    /\ IsFiniteSet(Pending) /\ Cardinality(Pending) <= arrived
    /\ \A r \in Objects : Bounded(reqs[r], arrived - Cardinality(Pending))

TypeInv == Typed /\ ObjectsMade /\ CountedOnce

-----------------------------------------------------------------------------
(* What a step does to the adder and the expirer that take it. *)

\* Adder p goes from one place to the next, the others stay where they are.
Moves(p, from, to) ==
    /\ add[p].pc = from
    /\ add' \in [Adders -> AdderStates]
    /\ add'[p].pc = to
    /\ \A q \in Adders : q # p => add'[q] = add[q]

LEMMA IdleAdderTyped == IdleAdder \in AdderStates /\ IdleAdder.pc = "idle"
<1>1. (CHOOSE a \in Agents : TRUE) \in Agents
  BY AgentAssumption
<1>2. 0 \in 0..MaxObjects /\ 0 \in Times
  BY SizeAssumption DEF Times
<1> QED
  BY <1>1, <1>2 DEF IdleAdder, AdderStates

LEMMA SetPc ==
    ASSUME NEW s \in AdderStates, NEW pc \in {"idle", "look"} \cup Holding
    PROVE  /\ [s EXCEPT !.pc = pc] \in AdderStates
           /\ [s EXCEPT !.pc = pc].pc = pc
           /\ [s EXCEPT !.pc = pc].obj = s.obj
           /\ [s EXCEPT !.pc = pc].total = s.total
  BY DEF AdderStates, Holding

LEMMA SetObj ==
    ASSUME NEW s \in AdderStates, NEW r \in 0..MaxObjects
    PROVE  /\ [s EXCEPT !.obj = r] \in AdderStates
           /\ [s EXCEPT !.obj = r].obj = r /\ [s EXCEPT !.obj = r].pc = s.pc
  BY DEF AdderStates

LEMMA SetTotal ==
    ASSUME NEW s \in AdderStates, NEW n \in Nat
    PROVE  /\ [s EXCEPT !.total = n] \in AdderStates
           /\ [s EXCEPT !.total = n].total = n
           /\ [s EXCEPT !.total = n].obj = s.obj /\ [s EXCEPT !.total = n].pc = s.pc
  BY DEF AdderStates

LEMMA SetAppCount ==
    ASSUME NEW s \in AdderStates, NEW n \in Nat
    PROVE  /\ [s EXCEPT !.app = n] \in AdderStates
           /\ [s EXCEPT !.app = n].total = s.total
           /\ [s EXCEPT !.app = n].obj = s.obj /\ [s EXCEPT !.app = n].pc = s.pc
  BY DEF AdderStates

LEMMA AdderUpdated ==
    ASSUME add \in [Adders -> AdderStates], NEW p \in Adders, NEW s \in AdderStates,
           add' = [add EXCEPT ![p] = s]
    PROVE  Moves(p, add[p].pc, s.pc) /\ add'[p] = s
  BY DEF Moves

LEMMA InsertMoves ==
    ASSUME Typed, NEW p \in Adders, Insert(p) PROVE Moves(p, "idle", "look")
<1>1. PICK t \in Times, kind \in {"app", "other"}, a \in Agents :
          add' = [add EXCEPT ![p] = [IdleAdder EXCEPT !.pc = "look", !.time = t,
                                                      !.kind = kind, !.agent = a]]
  BY DEF Insert
<1> DEFINE s1 == [IdleAdder EXCEPT !.pc = "look"]
           s2 == [s1 EXCEPT !.time = t]
           s3 == [s2 EXCEPT !.kind = kind]
           s4 == [s3 EXCEPT !.agent = a]
<1>2. [IdleAdder EXCEPT !.pc = "look", !.time = t, !.kind = kind, !.agent = a] = s4
  BY IdleAdderTyped DEF AdderStates
<1>3. s1 \in AdderStates /\ s1.pc = "look"
  BY IdleAdderTyped, SetPc
<1> HIDE DEF s1
<1>4. s2 \in AdderStates /\ s2.pc = "look"
  BY <1>3 DEF AdderStates
<1> HIDE DEF s2
<1>5. s3 \in AdderStates /\ s3.pc = "look"
  BY <1>4 DEF AdderStates
<1> HIDE DEF s3
<1>6. s4 \in AdderStates /\ s4.pc = "look"
  BY <1>5 DEF AdderStates
<1> HIDE DEF s4
<1>7. add' = [add EXCEPT ![p] = s4]
  BY <1>1, <1>2
<1>8. add \in [Adders -> AdderStates] /\ add[p].pc = "idle"
  BY DEF Insert, Typed
<1> QED
  BY <1>6, <1>7, <1>8, AdderUpdated

LEMMA LookUpMoves ==
    ASSUME Typed, NEW p \in Adders, LookUp(p)
    PROVE  IF entry = 0 THEN Moves(p, "look", "idle")
           ELSE Moves(p, "look", "expire") /\ add'[p].obj = entry
<1>1. add \in [Adders -> AdderStates] /\ add[p] \in AdderStates /\ add[p].pc = "look"
  BY DEF Typed, LookUp
<1>2. CASE entry = 0
  <2>1. add' = [add EXCEPT ![p] = IdleAdder]
    BY <1>2 DEF LookUp
  <2> QED
    BY <1>1, <1>2, <2>1, IdleAdderTyped, AdderUpdated
<1>3. CASE entry # 0
  <2> DEFINE s1 == [add[p] EXCEPT !.pc = "expire"]
             s2 == [s1 EXCEPT !.obj = entry]
  <2>1. [add[p] EXCEPT !.pc = "expire", !.obj = entry] = s2
    BY <1>1 DEF AdderStates
  <2>2. add' = [add EXCEPT ![p] = s2]
    BY <1>3, <2>1 DEF LookUp
  <2>3. s1 \in AdderStates /\ s1.pc = "expire"
    BY <1>1, SetPc DEF Holding
  <2> HIDE DEF s1
  <2>4. entry \in 0..MaxObjects
    BY SizeAssumption DEF Typed
  <2>5. s2 \in AdderStates /\ s2.pc = "expire" /\ s2.obj = entry
    BY <2>3, <2>4, SetObj
  <2> HIDE DEF s2
  <2> QED
    BY <1>1, <1>3, <2>2, <2>5, AdderUpdated
<1> QED
  BY <1>2, <1>3

LEMMA LockMoves ==
    ASSUME Typed, NEW p \in Adders, Lock(p)
    PROVE  Moves(p, "expire", "record") /\ add'[p].obj = add[p].obj
<1> DEFINE s == [add[p] EXCEPT !.pc = "record"]
<1>1. add \in [Adders -> AdderStates] /\ add[p] \in AdderStates /\ add[p].pc = "expire"
  BY DEF Typed, Lock
<1>2. s \in AdderStates /\ s.pc = "record" /\ s.obj = add[p].obj
  BY <1>1, SetPc DEF Holding
<1>3. add' = [add EXCEPT ![p] = s]
  BY DEF Lock
<1> HIDE DEF s
<1> QED
  BY <1>1, <1>2, <1>3, AdderUpdated

LEMMA RecordMoves ==
    ASSUME Typed, NEW p \in Adders, Record(p)
    PROVE  Moves(p, "record", "total") /\ add'[p].obj = add[p].obj
<1> DEFINE s == [add[p] EXCEPT !.pc = "total"]
<1>1. add \in [Adders -> AdderStates] /\ add[p] \in AdderStates /\ add[p].pc = "record"
  BY DEF Typed, Record
<1>2. s \in AdderStates /\ s.pc = "total" /\ s.obj = add[p].obj
  BY <1>1, SetPc DEF Holding
<1>3. add' = [add EXCEPT ![p] = s]
  BY DEF Record
<1> HIDE DEF s
<1> QED
  BY <1>1, <1>2, <1>3, AdderUpdated

\* The counts that are read are natural numbers.
LEMMA ObjectCounts ==
    ASSUME Typed, ObjectsMade, NEW p \in Adders, add[p].pc \in Holding
    PROVE  /\ add[p].obj \in Objects
           /\ Count(reqs[add[p].obj].all) \in Nat /\ Count(reqs[add[p].obj].app) \in Nat
<1>1. add[p].obj \in Objects
  BY SizeAssumption DEF Typed, ObjectsMade, Objects
<1>2. reqs[add[p].obj] \in Reqs
  BY <1>1 DEF Typed
<1> QED
  BY <1>1, <1>2, FieldsTyped, CountTyped

LEMMA ReadTotalMoves ==
    ASSUME Typed, ObjectsMade, NEW p \in Adders, ReadTotal(p)
    PROVE  /\ Moves(p, "total", "app") /\ add'[p].obj = add[p].obj
           /\ add'[p].total = Count(reqs[add[p].obj].all)
<1> DEFINE n == Count(reqs[add[p].obj].all)
           s1 == [add[p] EXCEPT !.pc = "app"]
           s2 == [s1 EXCEPT !.total = n]
<1>1. add \in [Adders -> AdderStates] /\ add[p] \in AdderStates /\ add[p].pc = "total"
  BY DEF Typed, ReadTotal
<1>2. n \in Nat
  BY <1>1, ObjectCounts DEF Holding
<1>3. [add[p] EXCEPT !.pc = "app", !.total = n] = s2
  BY <1>1 DEF AdderStates
<1>4. add' = [add EXCEPT ![p] = s2]
  BY <1>3 DEF ReadTotal
<1> HIDE DEF n
<1>5. s1 \in AdderStates /\ s1.pc = "app" /\ s1.obj = add[p].obj
  BY <1>1, SetPc DEF Holding
<1> HIDE DEF s1
<1>6. s2 \in AdderStates /\ s2.pc = "app" /\ s2.obj = add[p].obj /\ s2.total = n
  BY <1>2, <1>5, SetTotal
<1> HIDE DEF s2
<1> QED
  BY <1>1, <1>4, <1>6, AdderUpdated DEF n

LEMMA ReadAppMoves ==
    ASSUME Typed, ObjectsMade, NEW p \in Adders, ReadApp(p)
    PROVE  /\ Moves(p, "app", "send") /\ add'[p].obj = add[p].obj
           /\ add'[p].total = add[p].total
<1> DEFINE n == Count(reqs[add[p].obj].app)
           s1 == [add[p] EXCEPT !.pc = "send"]
           s2 == [s1 EXCEPT !.app = n]
<1>1. add \in [Adders -> AdderStates] /\ add[p] \in AdderStates /\ add[p].pc = "app"
  BY DEF Typed, ReadApp
<1>2. n \in Nat
  BY <1>1, ObjectCounts DEF Holding
<1>3. [add[p] EXCEPT !.pc = "send", !.app = n] = s2
  BY <1>1 DEF AdderStates
<1>4. add' = [add EXCEPT ![p] = s2]
  BY <1>3 DEF ReadApp
<1> HIDE DEF n
<1>5. s1 \in AdderStates /\ s1.pc = "send" /\ s1.obj = add[p].obj /\ s1.total = add[p].total
  BY <1>1, SetPc DEF Holding
<1> HIDE DEF s1
<1>6. s2 \in AdderStates /\ s2.pc = "send" /\ s2.obj = add[p].obj /\ s2.total = add[p].total
  BY <1>2, <1>5, SetAppCount
<1> HIDE DEF s2
<1> QED
  BY <1>1, <1>4, <1>6, AdderUpdated

LEMMA DeliverMoves ==
    ASSUME Typed, NEW p \in Adders, Deliver(p) PROVE Moves(p, "send", "idle")
  BY IdleAdderTyped, AdderUpdated DEF Deliver, Typed

\* Who is on its way to count a request, after a step of adder p.
LEMMA PendingMoves ==
    ASSUME NEW p \in Adders, NEW from, NEW to, Moves(p, from, to)
    PROVE  Pending' = IF to \in {"look", "expire", "record"} THEN Pending \cup {p}
                      ELSE Pending \ {p}
  BY DEF Pending, Moves

\* Expirer x is in a call on object r, the others stay where they are.
Expires(x, r, step) ==
    /\ exp' \in [Expirers -> ExpStates]
    /\ exp'[x].obj = r /\ exp'[x].step = step
    /\ \A y \in Expirers : y # x => exp'[y] = exp[y]

LEMMA NoCallTyped == NoCall \in ExpStates /\ NoCall.step = 0
  BY SizeAssumption, PartsAre DEF NoCall, ExpStates

LEMMA CallExpireDoes ==
    ASSUME Typed, NEW x \in Expirers, NEW r \in Objects, CallExpire(x, r)
    PROVE  Expires(x, r, 1) \/ Expires(x, r, Returned)
<1>1. CASE CanBeExpired(reqs[r], now)
  <2>1. exp' = [exp EXCEPT ![x] = [obj |-> r, step |-> 1, left |-> FALSE]]
    BY <1>1 DEF CallExpire
  <2>2. [obj |-> r, step |-> 1, left |-> FALSE] \in ExpStates
    BY PartsAre, SizeAssumption DEF ExpStates, Objects
  <2> QED
    BY <2>1, <2>2 DEF Expires, Typed
<1>2. CASE ~CanBeExpired(reqs[r], now)
  <2> DEFINE left == reqs[r].latest # <<>>
  <2>1. exp' = [exp EXCEPT ![x] = [obj |-> r, step |-> Returned, left |-> left]]
    BY <1>2 DEF CallExpire
  <2>2. left \in BOOLEAN
    OBVIOUS
  <2> HIDE DEF left
  <2>3. [obj |-> r, step |-> Returned, left |-> left] \in ExpStates
    BY <2>2, PartsAre, SizeAssumption DEF ExpStates, Objects
  <2> QED
    BY <2>1, <2>3 DEF Expires, Typed
<1> QED
  BY <1>1, <1>2

LEMMA ExpireNextDoes ==
    ASSUME Typed, ObjectsMade, NEW x \in Expirers, ExpireNext(x)
    PROVE  /\ exp[x].step \in 1..5 /\ exp[x].obj \in Objects
           /\ Expires(x, exp[x].obj, exp[x].step + 1)
           /\ reqs' \in [Objects -> Reqs]
           /\ PartExpired(reqs[exp[x].obj], reqs'[exp[x].obj], exp[x].step, now)
           /\ \A q \in Objects : q # exp[x].obj => reqs'[q] = reqs[q]
<1> DEFINE r == exp[x].obj
           i == exp[x].step
           new == ExpirePart(reqs[r], Parts[i], now)
           left == exp[x].left \/ ~PartIsEmpty(new, Parts[i])
           e1 == [exp[x] EXCEPT !.step = i + 1]
           e2 == [e1 EXCEPT !.left = left]
<1>1. i \in 1..5 /\ i \in 1..Len(Parts)
  BY PartsAre DEF ExpireNext
<1>2. r \in Objects /\ exp[x] \in ExpStates
  BY <1>1, SizeAssumption DEF Typed, ObjectsMade, Objects
<1>3. reqs' = [reqs EXCEPT ![r] = new]
  BY DEF ExpireNext
<1>4. exp' = [exp EXCEPT ![x] = e2]
  <2>1. exp' = [exp EXCEPT ![x].step = @ + 1, ![x].left = @ \/ ~PartIsEmpty(new, Parts[i])]
    BY DEF ExpireNext
  <2> QED
    BY <2>1, <1>2 DEF Typed, ExpStates
<1>5. left \in BOOLEAN
  BY <1>2 DEF ExpStates
<1> HIDE DEF left
<1>6. e1 \in ExpStates /\ e1.step = i + 1 /\ e1.obj = r
  BY <1>1, <1>2, PartsAre DEF ExpStates
<1> HIDE DEF e1
<1>7. e2 \in ExpStates /\ e2.step = i + 1 /\ e2.obj = r
  BY <1>5, <1>6 DEF ExpStates
<1> HIDE DEF e2
<1>8. Expires(x, r, i + 1)
  BY <1>4, <1>7 DEF Expires, Typed
<1>9. reqs[r] \in Reqs
  BY <1>2 DEF Typed
<1> HIDE DEF r, i
<1>10. PartExpired(reqs[r], new, i, now)
  BY <1>1, <1>9, ExpirePartDoes
<1>11. new \in Reqs
  BY <1>10 DEF PartExpired
<1> HIDE DEF new
<1>12. reqs' \in [Objects -> Reqs] /\ reqs'[r] = new
       /\ \A q \in Objects : q # r => reqs'[q] = reqs[q]
  BY <1>2, <1>3, <1>11 DEF Typed
<1> QED
  BY <1>1, <1>2, <1>8, <1>10, <1>12 DEF r, i

LEMMA StampDoes ==
    ASSUME Typed, ObjectsMade, NEW x \in Expirers, Stamp(x)
    PROVE  /\ exp[x].step = 6 /\ exp[x].obj \in Objects
           /\ Expires(x, exp[x].obj, Returned)
           /\ reqs' \in [Objects -> Reqs]
           /\ \A q \in Objects : /\ reqs'[q].all = reqs[q].all /\ reqs'[q].app = reqs[q].app
                                 /\ reqs'[q].other = reqs[q].other
                                 /\ reqs'[q].agents = reqs[q].agents
<1> DEFINE r == exp[x].obj
           e == [exp[x] EXCEPT !.step = Returned]
           new == [reqs[r] EXCEPT !.expiredAt = now]
<1>1. exp[x].step = 6 /\ exp[x] \in ExpStates
  BY PartsAre DEF Stamp, Typed
<1>2. r \in Objects
  BY <1>1, SizeAssumption DEF Typed, ObjectsMade, Objects
<1>3. exp' = [exp EXCEPT ![x] = e] /\ reqs' = [reqs EXCEPT ![r] = new]
  BY DEF Stamp
<1>4. e \in ExpStates /\ e.step = Returned /\ e.obj = r
  BY <1>1, PartsAre DEF ExpStates
<1> HIDE DEF e
<1>5. Expires(x, r, Returned)
  BY <1>3, <1>4 DEF Expires, Typed
<1> HIDE DEF r
<1>6. reqs \in [Objects -> Reqs] /\ now \in Times
  BY DEF Typed
<1>7. reqs[r] \in Reqs
  BY <1>2, <1>6
<1>8. new \in Reqs /\ new.all = reqs[r].all /\ new.app = reqs[r].app
      /\ new.other = reqs[r].other /\ new.agents = reqs[r].agents
  BY <1>6, <1>7, SetExpiredAt
<1> HIDE DEF new
<1>9. reqs' \in [Objects -> Reqs] /\ reqs'[r] = new
      /\ \A q \in Objects : q # r => reqs'[q] = reqs[q]
  BY <1>2, <1>3, <1>6, <1>8
<1> QED
  BY <1>1, <1>2, <1>5, <1>8, <1>9 DEF r

-----------------------------------------------------------------------------
(* Every step keeps the invariant. *)

LEMMA BoundedMore ==
    ASSUME NEW r \in Reqs, NEW b \in Nat, Bounded(r, b) PROVE Bounded(r, b + 1)
<1>1. r.all \in Counters /\ r.app \in Counters /\ r.other \in Counters
      /\ r.agents \in [Agents -> Counters]
  BY FieldsTyped
<1>2. ASSUME NEW k \in Keys PROVE r.all[k] <= b + 1 /\ r.app[k] <= b + 1 /\ r.other[k] <= b + 1
  BY <1>1 DEF Bounded, Counters
<1>3. ASSUME NEW k \in Keys, NEW a \in Agents PROVE r.agents[a][k] <= b + 1
  <2>1. r.agents[a] \in Counters
    BY <1>1
  <2> QED
    BY <2>1 DEF Bounded, Counters
<1> QED
  BY <1>2, <1>3 DEF Bounded

\* Nobody comes or goes, and no bucket grows.
LEMMA SamePending ==
    ASSUME TypeInv, Pending' = Pending, arrived' = arrived,
           \A r \in Objects, b \in Nat : Bounded(reqs[r], b) => Bounded(reqs'[r], b)
    PROVE  CountedOnce'
<1>1. IsFiniteSet(Pending) /\ Cardinality(Pending) <= arrived
      /\ \A r \in Objects : Bounded(reqs[r], arrived - Cardinality(Pending))
  BY DEF TypeInv, CountedOnce
<1>2. Cardinality(Pending) \in Nat /\ arrived \in Nat
  BY <1>1, FS_CardinalityType, SizeAssumption DEF TypeInv, Typed
<1>3. arrived - Cardinality(Pending) \in Nat
  BY <1>1, <1>2
<1>4. \A r \in Objects : Bounded(reqs'[r], arrived - Cardinality(Pending))
  BY <1>1, <1>3
<1> QED
  BY <1>1, <1>4 DEF CountedOnce

\* A request is counted, or dropped: the bound grows by one.
LEMMA OneLessPending ==
    ASSUME TypeInv, NEW p \in Pending, Pending' = Pending \ {p}, arrived' = arrived,
           \A r \in Objects, b \in Nat : Bounded(reqs[r], b) => Bounded(reqs'[r], b + 1)
    PROVE  CountedOnce'
<1>1. IsFiniteSet(Pending) /\ Cardinality(Pending) <= arrived
      /\ \A r \in Objects : Bounded(reqs[r], arrived - Cardinality(Pending))
  BY DEF TypeInv, CountedOnce
<1>2. Cardinality(Pending) \in Nat /\ arrived \in Nat
  BY <1>1, FS_CardinalityType, SizeAssumption DEF TypeInv, Typed
<1>3. IsFiniteSet(Pending') /\ Cardinality(Pending') = Cardinality(Pending) - 1
  BY <1>1, FS_RemoveElement
<1>4. /\ arrived - Cardinality(Pending) \in Nat
      /\ (arrived - Cardinality(Pending)) + 1 = arrived' - Cardinality(Pending')
      /\ Cardinality(Pending') <= arrived'
  BY <1>1, <1>2, <1>3
<1>5. \A r \in Objects : Bounded(reqs'[r], (arrived - Cardinality(Pending)) + 1)
  BY <1>1, <1>4
<1> QED
  BY <1>3, <1>4, <1>5 DEF CountedOnce

LEMMA InsertKeepsTypes ==
    ASSUME TypeInv, NEW p \in Adders, Insert(p) PROVE TypeInv'
<1>1. Moves(p, "idle", "look")
  BY InsertMoves DEF TypeInv
<1>2. arrived' = arrived + 1 /\ arrived' \in 0..MaxRequests /\ hist = "idle"
      /\ UNCHANGED <<now, stored, hist, exp>>
  BY SizeAssumption DEF Insert, HistoryUnlocked, TypeInv, Typed
<1>3. /\ made' \in 0..MaxObjects /\ entry' \in 0..made' /\ made' \in made..(made + 1)
      /\ reqs' \in [Objects -> Reqs]
      /\ \A r \in Objects, b \in Nat : Bounded(reqs[r], b) => Bounded(reqs'[r], b)
  <2>1. CASE entry # 0 /\ UNCHANGED <<entry, made, reqs>>
    BY <2>1, SizeAssumption DEF TypeInv, Typed
  <2>2. CASE /\ entry = 0 /\ made < MaxObjects /\ made' = made + 1 /\ entry' = made'
             /\ reqs' = [reqs EXCEPT ![made'] = NewRequests(now)]
    <3> DEFINE new == NewRequests(now)
    <3>1. made' \in Objects /\ made' \in 0..MaxObjects /\ made \in Nat
      BY <2>2, SizeAssumption DEF TypeInv, Typed, Objects
    <3>2. new \in Reqs /\ \A b \in Nat : Bounded(new, b)
      BY NewTyped DEF TypeInv, Typed
    <3> HIDE DEF new
    <3>3. reqs' \in [Objects -> Reqs] /\ reqs'[made'] = new
          /\ \A q \in Objects : q # made' => reqs'[q] = reqs[q]
      BY <2>2, <3>1, <3>2 DEF TypeInv, Typed, new
    <3>4. entry' \in 0..made' /\ made' \in made..(made + 1)
      BY <2>2, <3>1
    <3>5. \A r \in Objects, b \in Nat : Bounded(reqs[r], b) => Bounded(reqs'[r], b)
      BY <3>2, <3>3
    <3> QED
      BY <3>1, <3>3, <3>4, <3>5
  <2> QED
    BY <2>1, <2>2 DEF Insert
<1>4. Typed'
  BY <1>1, <1>2, <1>3 DEF TypeInv, Typed, Moves
<1>5. ObjectsMade'
  <2>1. \A n : n \in 1..made => n \in 1..made'
    BY <1>3, SizeAssumption DEF TypeInv, Typed
  <2>2. \A q \in Adders : add'[q].pc \in Holding => add'[q].obj \in 1..made'
    BY <1>1, <2>1 DEF TypeInv, ObjectsMade, Moves, Holding
  <2> QED
    BY <1>2, <2>1, <2>2 DEF TypeInv, ObjectsMade
<1>6. CountedOnce'
  <2>1. IsFiniteSet(Pending) /\ Cardinality(Pending) <= arrived
        /\ \A r \in Objects : Bounded(reqs[r], arrived - Cardinality(Pending))
    BY DEF TypeInv, CountedOnce
  <2>2. Cardinality(Pending) \in Nat /\ arrived \in Nat
    BY <2>1, FS_CardinalityType, SizeAssumption DEF TypeInv, Typed
  <2>3. p \notin Pending /\ Pending' = Pending \cup {p}
    BY <1>1, PendingMoves DEF Pending, Moves
  <2>4. IsFiniteSet(Pending') /\ Cardinality(Pending') = Cardinality(Pending) + 1
    BY <2>1, <2>3, FS_AddElement
  <2>5. /\ arrived - Cardinality(Pending) \in Nat
        /\ arrived' - Cardinality(Pending') = arrived - Cardinality(Pending)
        /\ Cardinality(Pending') <= arrived'
    BY <1>2, <2>1, <2>2, <2>4
  <2>6. \A r \in Objects : Bounded(reqs'[r], arrived - Cardinality(Pending))
    BY <1>3, <2>1, <2>5
  <2> QED
    BY <2>4, <2>5, <2>6 DEF CountedOnce
<1> QED
  BY <1>4, <1>5, <1>6 DEF TypeInv

LEMMA LookUpKeepsTypes ==
    ASSUME TypeInv, NEW p \in Adders, LookUp(p) PROVE TypeInv'
<1>0. UNCHANGED <<now, entry, made, reqs, stored, hist, exp, arrived>>
  BY DEF LookUp
<1>1. IF entry = 0 THEN Moves(p, "look", "idle")
      ELSE Moves(p, "look", "expire") /\ add'[p].obj = entry
  BY LookUpMoves DEF TypeInv
<1>2. Typed'
  BY <1>0, <1>1 DEF TypeInv, Typed, Moves
<1>3. ObjectsMade'
  <2>1. entry # 0 => entry \in 1..made
    BY SizeAssumption DEF TypeInv, Typed
  <2>2. \A q \in Adders : add'[q].pc \in Holding => add'[q].obj \in 1..made'
    BY <1>0, <1>1, <2>1 DEF TypeInv, ObjectsMade, Moves, Holding
  <2> QED
    BY <1>0, <2>2 DEF TypeInv, ObjectsMade
<1>4. p \in Pending
  BY <1>1 DEF Pending, Moves
<1>5. CASE entry = 0
  <2>1. Pending' = Pending \ {p}
    BY <1>1, <1>5, PendingMoves
  <2>2. ASSUME NEW r \in Objects, NEW b \in Nat, Bounded(reqs[r], b)
        PROVE  Bounded(reqs'[r], b + 1)
    <3>1. reqs[r] \in Reqs
      BY DEF TypeInv, Typed
    <3> QED
      BY <1>0, <2>2, <3>1, BoundedMore
  <2>3. CountedOnce'
    BY <1>0, <1>4, <2>1, <2>2, OneLessPending
  <2> QED
    BY <1>2, <1>3, <2>3 DEF TypeInv
<1>6. CASE entry # 0
  <2>1. Pending' = Pending
    BY <1>1, <1>4, <1>6, PendingMoves
  <2>2. CountedOnce'
    BY <1>0, <2>1, SamePending
  <2> QED
    BY <1>2, <1>3, <2>2 DEF TypeInv
<1> QED
  BY <1>5, <1>6

\* An expirer goes on, and nothing else changes but the windows, none of which grows.
LEMMA ExpirerKeepsTypes ==
    ASSUME TypeInv, NEW x \in Expirers, NEW r \in 1..made, NEW step, Expires(x, r, step),
           reqs' \in [Objects -> Reqs],
           \A q \in Objects, b \in Nat : Bounded(reqs[q], b) => Bounded(reqs'[q], b),
           UNCHANGED <<now, entry, made, stored, add, hist, arrived>>
    PROVE  TypeInv'
<1>1. Typed'
  BY DEF TypeInv, Typed, Expires
<1>2. ObjectsMade'
  BY DEF TypeInv, ObjectsMade, Expires
<1>3. Pending' = Pending
  BY DEF Pending
<1>4. CountedOnce'
  BY <1>3, SamePending
<1> QED
  BY <1>1, <1>2, <1>4 DEF TypeInv

LEMMA CallKeepsTypes ==
    ASSUME TypeInv, NEW x \in Expirers, NEW r \in 1..made, CallExpire(x, r),
           UNCHANGED <<now, entry, made, reqs, stored, add, hist, arrived>>
    PROVE  TypeInv'
<1>1. r \in Objects
  BY SizeAssumption DEF TypeInv, Typed, Objects
<1>2. Expires(x, r, 1) \/ Expires(x, r, Returned)
  BY <1>1, CallExpireDoes DEF TypeInv
<1>3. reqs' \in [Objects -> Reqs]
      /\ \A q \in Objects, b \in Nat : Bounded(reqs[q], b) => Bounded(reqs'[q], b)
  BY DEF TypeInv, Typed
<1> QED
  BY <1>2, <1>3, ExpirerKeepsTypes

LEMMA ExpireNextKeepsTypes ==
    ASSUME TypeInv, NEW x \in Expirers, ExpireNext(x) PROVE TypeInv'
<1>1. /\ exp[x].step \in 1..5 /\ exp[x].obj \in Objects
      /\ Expires(x, exp[x].obj, exp[x].step + 1)
      /\ reqs' \in [Objects -> Reqs]
      /\ PartExpired(reqs[exp[x].obj], reqs'[exp[x].obj], exp[x].step, now)
      /\ \A q \in Objects : q # exp[x].obj => reqs'[q] = reqs[q]
  BY ExpireNextDoes DEF TypeInv
<1>2. exp[x].obj \in 1..made
  BY <1>1 DEF TypeInv, ObjectsMade
<1>3. \A b \in Nat : Bounded(reqs[exp[x].obj], b) => Bounded(reqs'[exp[x].obj], b)
  BY <1>1 DEF PartExpired
<1>4. \A q \in Objects, b \in Nat : Bounded(reqs[q], b) => Bounded(reqs'[q], b)
  BY <1>1, <1>3
<1>5. UNCHANGED <<now, entry, made, stored, add, hist, arrived>>
  BY DEF ExpireNext
<1> QED
  BY <1>1, <1>2, <1>4, <1>5, ExpirerKeepsTypes

LEMMA StampKeepsTypes ==
    ASSUME TypeInv, NEW x \in Expirers, Stamp(x) PROVE TypeInv'
<1>1. /\ exp[x].step = 6 /\ exp[x].obj \in Objects
      /\ Expires(x, exp[x].obj, Returned)
      /\ reqs' \in [Objects -> Reqs]
      /\ \A q \in Objects : /\ reqs'[q].all = reqs[q].all /\ reqs'[q].app = reqs[q].app
                            /\ reqs'[q].other = reqs[q].other
                            /\ reqs'[q].agents = reqs[q].agents
  BY StampDoes DEF TypeInv
<1>2. exp[x].obj \in 1..made
  BY <1>1 DEF TypeInv, ObjectsMade
<1>3. \A q \in Objects, b \in Nat : Bounded(reqs[q], b) => Bounded(reqs'[q], b)
  BY <1>1 DEF Bounded
<1>4. UNCHANGED <<now, entry, made, stored, add, hist, arrived>>
  BY DEF Stamp
<1> QED
  BY <1>1, <1>2, <1>3, <1>4, ExpirerKeepsTypes

LEMMA AddExpiresKeepsTypes ==
    ASSUME TypeInv, NEW p \in Adders, AddExpires(p) PROVE TypeInv'
<1>1. add[p].obj \in 1..made
  BY DEF AddExpires, TypeInv, ObjectsMade, Holding
<1>2. p \in Expirers
  BY DEF Expirers
<1>3. CallExpire(p, add[p].obj)
      /\ UNCHANGED <<now, entry, made, reqs, stored, add, hist, arrived>>
  BY DEF AddExpires
<1> QED
  BY <1>1, <1>2, <1>3, CallKeepsTypes

LEMMA HistoryExpiresKeepsTypes == TypeInv /\ HistoryExpires => TypeInv'
<1> SUFFICES ASSUME TypeInv, HistoryExpires PROVE TypeInv'
  OBVIOUS
<1>1. entry \in 1..made
  BY SizeAssumption DEF HistoryExpires, TypeInv, Typed, ObjectsMade
<1>2. "history" \in Expirers
  BY DEF Expirers
<1>3. CallExpire("history", entry)
      /\ UNCHANGED <<now, entry, made, reqs, stored, add, hist, arrived>>
  BY DEF HistoryExpires
<1> QED
  BY <1>1, <1>2, <1>3, CallKeepsTypes

\* An adder goes from one place to the next with the object it holds.
LEMMA AdderKeepsTypes ==
    ASSUME TypeInv, NEW p \in Adders, NEW from, NEW to, Moves(p, from, to),
           from \in Holding, to \in Holding => add'[p].obj = add[p].obj,
           stored' \in [Objects -> [total : Nat, app : Nat]],
           exp' \in [Expirers -> ExpStates],
           \A x \in Expirers : exp'[x] = exp[x] \/ exp'[x].step = 0,
           reqs' \in [Objects -> Reqs],
           UNCHANGED <<now, entry, made, hist, arrived>>
    PROVE  Typed' /\ ObjectsMade'
<1>1. Typed'
  BY DEF TypeInv, Typed, Moves
<1>2. ASSUME NEW q \in Adders, add'[q].pc \in Holding PROVE add'[q].obj \in 1..made'
  BY <1>2 DEF TypeInv, ObjectsMade, Moves
<1>3. ObjectsMade'
  BY <1>2 DEF TypeInv, ObjectsMade
<1> QED
  BY <1>1, <1>3

LEMMA LockKeepsTypes ==
    ASSUME TypeInv, NEW p \in Adders, Lock(p) PROVE TypeInv'
<1>0. UNCHANGED <<now, entry, made, reqs, stored, hist, arrived>>
      /\ exp' = [exp EXCEPT ![p] = NoCall]
  BY DEF Lock
<1>1. Moves(p, "expire", "record") /\ add'[p].obj = add[p].obj
  BY LockMoves DEF TypeInv
<1>2. p \in Pending /\ p \in Expirers
  BY <1>1 DEF Pending, Moves, Expirers
<1>3. exp' \in [Expirers -> ExpStates] /\ \A x \in Expirers : exp'[x] = exp[x] \/ exp'[x].step = 0
  BY <1>0, <1>2, NoCallTyped DEF TypeInv, Typed
<1>4. stored' \in [Objects -> [total : Nat, app : Nat]] /\ reqs' \in [Objects -> Reqs]
  BY <1>0 DEF TypeInv, Typed
<1>5. Typed' /\ ObjectsMade'
  BY <1>0, <1>1, <1>3, <1>4, AdderKeepsTypes DEF Holding
<1>6. Pending' = Pending
  BY <1>1, <1>2, PendingMoves
<1>7. CountedOnce'
  BY <1>0, <1>6, SamePending
<1> QED
  BY <1>5, <1>7 DEF TypeInv

\* The object p holds counts its request, the others do not change.
LEMMA RecordDoes ==
    ASSUME TypeInv, NEW p \in Adders, Record(p)
    PROVE  /\ add[p].obj \in Objects /\ reqs' \in [Objects -> Reqs]
           /\ reqs'[add[p].obj] =
                  Recorded(reqs[add[p].obj], add[p].kind, add[p].agent, add[p].time)
           /\ \A q \in Objects : q # add[p].obj => reqs'[q] = reqs[q]
           /\ add[p].kind \in {"app", "other"} /\ add[p].agent \in Agents /\ add[p].time \in Times
<1> DEFINE r == add[p].obj
           s == Recorded(reqs[r], add[p].kind, add[p].agent, add[p].time)
<1>1. r \in 1..made /\ add[p] \in AdderStates
  BY DEF Record, TypeInv, Typed, ObjectsMade, Holding
<1>2. r \in Objects /\ add[p].kind \in {"app", "other"} /\ add[p].agent \in Agents
      /\ add[p].time \in Times
  BY <1>1, SizeAssumption DEF TypeInv, Typed, Objects, AdderStates
<1>3. reqs' = [reqs EXCEPT ![r] = s]
  BY DEF Record
<1> HIDE DEF r
<1>4. reqs[r] \in Reqs /\ reqs \in [Objects -> Reqs]
  BY <1>2 DEF TypeInv, Typed
<1>5. s \in Reqs
  BY <1>2, <1>4, RequestRecorded
<1> HIDE DEF s
<1>6. reqs' \in [Objects -> Reqs] /\ reqs'[r] = s /\ \A q \in Objects : q # r => reqs'[q] = reqs[q]
  BY <1>2, <1>3, <1>4, <1>5
<1> QED
  BY <1>2, <1>6 DEF r, s

LEMMA RecordKeepsTypes ==
    ASSUME TypeInv, NEW p \in Adders, Record(p) PROVE TypeInv'
<1>0. UNCHANGED <<now, entry, made, stored, hist, exp, arrived>>
  BY DEF Record
<1>1. Moves(p, "record", "total") /\ add'[p].obj = add[p].obj
  BY RecordMoves DEF TypeInv
<1> DEFINE r == add[p].obj
           s == Recorded(reqs[r], add[p].kind, add[p].agent, add[p].time)
<1>2. /\ r \in Objects /\ reqs' \in [Objects -> Reqs] /\ reqs'[r] = s
      /\ \A q \in Objects : q # r => reqs'[q] = reqs[q]
      /\ add[p].kind \in {"app", "other"} /\ add[p].agent \in Agents /\ add[p].time \in Times
  BY RecordDoes
<1>3. Typed' /\ ObjectsMade'
  BY <1>0, <1>1, <1>2, AdderKeepsTypes DEF Holding, TypeInv, Typed
<1> HIDE DEF r
<1>4. \A q \in Objects : reqs[q] \in Reqs
  BY DEF TypeInv, Typed
<1>5. \A b \in Nat : Bounded(reqs[r], b) => Bounded(s, b + 1)
  BY <1>2, <1>4, RequestRecorded
<1> HIDE DEF s
<1>6. ASSUME NEW q \in Objects, NEW b \in Nat, Bounded(reqs[q], b) PROVE Bounded(reqs'[q], b + 1)
  <2>1. CASE q = r
    BY <1>2, <1>5, <1>6, <2>1
  <2>2. CASE q # r
    <3>1. Bounded(reqs[q], b + 1)
      BY <1>4, <1>6, BoundedMore
    <3> QED
      BY <1>2, <2>2, <3>1
  <2> QED
    BY <2>1, <2>2
<1>7. p \in Pending /\ Pending' = Pending \ {p}
  BY <1>1, PendingMoves DEF Pending, Moves
<1>8. CountedOnce'
  BY <1>0, <1>6, <1>7, OneLessPending
<1> QED
  BY <1>3, <1>8 DEF TypeInv

\* What comes after the counting changes no counter.
LEMMA ReportKeepsTypes ==
    ASSUME TypeInv, NEW p \in Adders, ReadTotal(p) \/ ReadApp(p) \/ Deliver(p) PROVE TypeInv'
<1>0. UNCHANGED <<now, entry, made, reqs, hist, exp, arrived>>
  BY DEF ReadTotal, ReadApp, Deliver
<1>1. \/ Moves(p, "total", "app") /\ add'[p].obj = add[p].obj
      \/ Moves(p, "app", "send") /\ add'[p].obj = add[p].obj
      \/ Moves(p, "send", "idle")
  BY ReadTotalMoves, ReadAppMoves, DeliverMoves DEF TypeInv
<1>2. stored' \in [Objects -> [total : Nat, app : Nat]]
  <2>1. stored \in [Objects -> [total : Nat, app : Nat]]
        /\ add[p].total \in Nat /\ add[p].app \in Nat
    BY DEF TypeInv, Typed, AdderStates
  <2> DEFINE new == [total |-> add[p].total, app |-> add[p].app]
  <2>2. stored' = stored \/ stored' = [stored EXCEPT ![entry] = new]
    BY DEF ReadTotal, ReadApp, Deliver
  <2>3. new \in [total : Nat, app : Nat]
    BY <2>1
  <2> HIDE DEF new
  <2> QED
    BY <2>1, <2>2, <2>3
<1>3. exp' \in [Expirers -> ExpStates] /\ reqs' \in [Objects -> Reqs]
      /\ \A x \in Expirers : exp'[x] = exp[x]
  BY <1>0 DEF TypeInv, Typed
<1>4. Typed' /\ ObjectsMade'
  BY <1>0, <1>1, <1>2, <1>3, AdderKeepsTypes DEF Holding
<1>5. p \notin Pending /\ Pending' = Pending \ {p}
  BY <1>1, PendingMoves DEF Pending, Moves
<1>6. Pending' = Pending
  BY <1>5
<1>7. CountedOnce'
  BY <1>0, <1>6, SamePending
<1> QED
  BY <1>4, <1>7 DEF TypeInv

LEMMA TickerKeepsTypes ==
    ASSUME TypeInv, TickerExpires \/ Delete \/ Tick PROVE TypeInv'
<1>1. UNCHANGED <<made, reqs, stored, add, arrived>>
  BY DEF TickerExpires, Delete, Tick
<1>2. now' \in Times
  BY SizeAssumption DEF TickerExpires, Delete, Tick, TypeInv, Typed, Times
<1>3. entry' \in {entry, 0} /\ entry' \in 0..made /\ hist' \in {"idle", "expire"}
      /\ (hist' = "expire" => entry' # 0)
  BY SizeAssumption DEF TickerExpires, Delete, Tick, TypeInv, Typed, ObjectsMade
<1>4. exp' \in [Expirers -> ExpStates] /\ \A x \in Expirers : exp'[x] = exp[x] \/ exp'[x].step = 0
  BY NoCallTyped DEF TickerExpires, Delete, Tick, TypeInv, Typed
<1>5. Typed'
  BY <1>1, <1>2, <1>3, <1>4 DEF TypeInv, Typed
<1>6. ObjectsMade'
  BY <1>1, <1>3, <1>4 DEF TypeInv, ObjectsMade
<1>7. Pending' = Pending /\ arrived' = arrived
  BY <1>1 DEF Pending
<1>8. CountedOnce'
  BY <1>1, <1>7, SamePending
<1> QED
  BY <1>5, <1>6, <1>8 DEF TypeInv

LEMMA TypesInitially == Init => TypeInv
<1> SUFFICES ASSUME Init PROVE TypeInv
  OBVIOUS
<1>1. 0 \in Times
  BY SizeAssumption DEF Times
<1> DEFINE new == NewRequests(0)
<1>2. new \in Reqs /\ \A b \in Nat : Bounded(new, b)
  BY <1>1, NewTyped
<1>3. reqs = [r \in Objects |-> new]
  BY DEF Init
<1> HIDE DEF new
<1>4. Typed
  BY <1>1, <1>2, <1>3, SizeAssumption, IdleAdderTyped, NoCallTyped DEF Init, Typed
<1>5. ObjectsMade
  BY IdleAdderTyped, NoCallTyped DEF Init, ObjectsMade, Holding
<1>6. Pending = {}
  BY IdleAdderTyped DEF Init, Pending
<1>7. IsFiniteSet(Pending) /\ Cardinality(Pending) = 0
  BY <1>6, FS_EmptySet
<1>8. CountedOnce
  BY <1>2, <1>3, <1>7 DEF CountedOnce, Init
<1> QED
  BY <1>4, <1>5, <1>8 DEF TypeInv

LEMMA TypesKept == TypeInv /\ [Next]_vars => TypeInv'
<1> SUFFICES ASSUME TypeInv, [Next]_vars PROVE TypeInv'
  OBVIOUS
<1>1. ASSUME NEW p \in Adders, Insert(p) PROVE TypeInv'
  BY <1>1, InsertKeepsTypes
<1>2. ASSUME NEW p \in Adders, LookUp(p) PROVE TypeInv'
  BY <1>2, LookUpKeepsTypes
<1>3. ASSUME NEW p \in Adders, AddExpires(p) PROVE TypeInv'
  BY <1>3, AddExpiresKeepsTypes
<1>4. ASSUME NEW x \in Expirers, ExpireSteps(x) PROVE TypeInv'
  BY <1>4, ExpireNextKeepsTypes, StampKeepsTypes DEF ExpireSteps
<1>5. ASSUME NEW p \in Adders, Lock(p) PROVE TypeInv'
  BY <1>5, LockKeepsTypes
<1>6. ASSUME NEW p \in Adders, Record(p) PROVE TypeInv'
  BY <1>6, RecordKeepsTypes
<1>7. ASSUME NEW p \in Adders, ReadTotal(p) \/ ReadApp(p) \/ Deliver(p) PROVE TypeInv'
  BY <1>7, ReportKeepsTypes
<1>8. CASE TickerExpires \/ Delete \/ Tick
  BY <1>8, TickerKeepsTypes
<1>9. CASE HistoryExpires
  BY <1>9, HistoryExpiresKeepsTypes
<1>10. CASE UNCHANGED vars
  BY <1>10 DEF vars, TypeInv, Typed, ObjectsMade, CountedOnce, Pending
<1>11. Adders \subseteq Expirers /\ "history" \in Expirers
  BY DEF Expirers
<1> QED
  BY <1>1, <1>2, <1>3, <1>4, <1>5, <1>6, <1>7, <1>8, <1>9, <1>10, <1>11
     DEF Next, AddSteps, HistorySteps

\* The counters are natural numbers, and none is above the number of requests.
LEMMA InvImpliesTypes == TypeInv => TypeOK
<1> SUFFICES ASSUME TypeInv PROVE TypeOK
  OBVIOUS
<1>1. Cardinality(Pending) \in Nat /\ Cardinality(Pending) <= arrived
  BY FS_CardinalityType DEF TypeInv, CountedOnce
<1>2. \A n \in Nat : n <= arrived - Cardinality(Pending) => n \in 0..MaxRequests
  BY <1>1, SizeAssumption DEF TypeInv, Typed
<1>3. ASSUME NEW r \in Objects
      PROVE  /\ \A part \in {"all", "app", "other"} : reqs[r][part] \in Windows
             /\ reqs[r].agents \in [Agents -> Windows]
             /\ reqs[r].latest \in Seq(Times) /\ Len(reqs[r].latest) <= KeepRequests
             /\ reqs[r].createdAt \in Times /\ reqs[r].expiredAt \in Times
  <2>1. Bounded(reqs[r], arrived - Cardinality(Pending)) /\ reqs[r] \in Reqs
    BY DEF TypeInv, Typed, CountedOnce
  <2>2. /\ reqs[r].all \in Counters /\ reqs[r].app \in Counters /\ reqs[r].other \in Counters
        /\ reqs[r].agents \in [Agents -> Counters] /\ reqs[r].latest \in Lists
        /\ reqs[r].createdAt \in Times /\ reqs[r].expiredAt \in Times
    BY <2>1, FieldsTyped
  <2>3. reqs[r].all \in Windows /\ reqs[r].app \in Windows /\ reqs[r].other \in Windows
    BY <1>2, <2>1, <2>2 DEF Bounded, Counters, Windows
  <2>4. \A a \in Agents : reqs[r].agents[a] \in Windows
    BY <1>2, <2>1, <2>2 DEF Bounded, Counters, Windows
  <2> QED
    BY <2>2, <2>3, <2>4 DEF Lists
<1>4. now \in Times /\ made \in 0..MaxObjects /\ entry \in 0..made
      /\ arrived \in 0..MaxRequests
      /\ stored \in [Objects -> [total : Nat, app : Nat]]
      /\ add \in [Adders -> AdderStates] /\ hist \in {"idle", "expire"}
      /\ exp \in [Expirers -> ExpStates]
  BY DEF TypeInv, Typed
<1> QED
  BY <1>3, <1>4 DEF TypeOK, ExpStates

LEMMA AlwaysTyped == Spec => []TypeInv
  BY TypesInitially, TypesKept, PTL DEF Spec

\* No window counts a request twice, or one that is still on its way: a bucket
\* counts at most the requests that have arrived, less those that have not been
\* recorded (History.Add, Requests.Add).
THEOREM NeverTwice == Spec => []CountedOnce
<1>1. TypeInv => CountedOnce
  BY DEF TypeInv
<1> QED
  BY AlwaysTyped, <1>1, PTL

\* Every variable keeps its type, no counter of Requests exceeds the number of
\* requests, and the list of the latest ones stays short (Requests.Add,
\* Requests.Expire, RequestsWindow.Add).
THEOREM Typing == Spec => []TypeOK
  BY AlwaysTyped, InvImpliesTypes, PTL

-----------------------------------------------------------------------------
(* The kinds of requests never count more than all requests.                  *)

\* Who records has the lock for itself.
Exclusive == \A p \in Adders : add[p].pc = "record" => Readers(add[p].obj) = {}

\* Expirer x has forgotten the requests of bucket k in the window of all, and not
\* yet in that of every kind.
BetweenKinds(x, r, k) ==
    /\ exp[x].obj = r /\ exp[x].step \in {2, 3}
    /\ k < Threshold(now)
    /\ exp[x].step = 3 => reqs[r].app[k] = 0

Within(r, k) == reqs[r].app[k] + reqs[r].other[k] <= reqs[r].all[k]

KindsInv ==
    /\ Exclusive
    /\ \A r \in Objects, k \in Keys : Within(r, k) \/ \E x \in Expirers : BetweenKinds(x, r, k)

LEMMA SmallKeys ==
    ASSUME NEW k \in Keys PROVE k \in Int
  BY SizeAssumption DEF Keys, Times

LEMMA ClockMoves ==
    ASSUME Typed, [Next]_vars
    PROVE  /\ now \in Int /\ now' \in Int /\ now <= now'
           /\ Threshold(now) \in Int /\ Threshold(now') \in Int
           /\ Threshold(now) <= Threshold(now')
<1>1. now \in Int /\ now' \in {now, now + 1}
  <2>1. ASSUME NEW p \in Adders, Insert(p) \/ LookUp(p) \/ AddExpires(p) \/ Lock(p) \/ Record(p)
        PROVE  now' = now
    BY <2>1 DEF Insert, LookUp, AddExpires, Lock, Record
  <2>2. ASSUME NEW p \in Adders, ReadTotal(p) \/ ReadApp(p) \/ Deliver(p) PROVE now' = now
    BY <2>2 DEF ReadTotal, ReadApp, Deliver
  <2>3. ASSUME NEW x, ExpireSteps(x) PROVE now' = now
    BY <2>3 DEF ExpireSteps, ExpireNext, Stamp
  <2>4. TickerExpires \/ HistoryExpires \/ Delete => now' = now
    BY DEF TickerExpires, HistoryExpires, Delete
  <2>5. now' = now \/ now' = now + 1
    BY <2>1, <2>2, <2>3, <2>4 DEF Next, AddSteps, HistorySteps, Tick, vars
  <2> QED
    BY <2>5, SizeAssumption DEF Typed, Times
<1>2. now' \in Int /\ now <= now'
  BY <1>1
<1> QED
  BY <1>1, <1>2, ThresholdTyped, ThresholdMoves

\* A reader that is between the windows.
LEMMA BetweenReads ==
    ASSUME NEW x \in Expirers, NEW r, NEW k, BetweenKinds(x, r, k) PROVE x \in Readers(r)
  BY PartsAre DEF BetweenKinds, Readers

\* Neither windows nor expirers that are between two of them change.
LEMMA SameKinds ==
    ASSUME Typed, KindsInv, [Next]_vars,
           \A r \in Objects : reqs'[r].all = reqs[r].all /\ reqs'[r].app = reqs[r].app
                              /\ reqs'[r].other = reqs[r].other,
           \A x \in Expirers : exp[x].step \in {2, 3} => exp'[x] = exp[x]
    PROVE  \A r \in Objects, k \in Keys : Within(r, k)' \/ \E x \in Expirers : BetweenKinds(x, r, k)'
<1> SUFFICES ASSUME NEW r \in Objects, NEW k \in Keys
             PROVE  Within(r, k)' \/ \E x \in Expirers : BetweenKinds(x, r, k)'
  OBVIOUS
<1>1. CASE Within(r, k)
  BY <1>1 DEF Within
<1>2. ASSUME NEW x \in Expirers, BetweenKinds(x, r, k) PROVE BetweenKinds(x, r, k)'
  <2>1. k < Threshold(now')
    BY <1>2, ClockMoves, SmallKeys DEF BetweenKinds
  <2>2. exp'[x] = exp[x]
    BY <1>2 DEF BetweenKinds
  <2>3. reqs'[r].app = reqs[r].app
    OBVIOUS
  <2> QED
    BY <1>2, <2>1, <2>2, <2>3 DEF BetweenKinds
<1> QED
  BY <1>1, <1>2 DEF KindsInv

\* The next window is expired: first that of all, then those of the kinds.
LEMMA ExpireNextKeepsKinds ==
    ASSUME TypeInv, KindsInv, NEW x \in Expirers, ExpireNext(x)
    PROVE  \A r \in Objects, k \in Keys : Within(r, k)' \/ \E y \in Expirers : BetweenKinds(y, r, k)'
<1> SUFFICES ASSUME NEW r \in Objects, NEW k \in Keys
             PROVE  Within(r, k)' \/ \E y \in Expirers : BetweenKinds(y, r, k)'
  OBVIOUS
<1>1. /\ exp[x].step \in 1..5 /\ exp[x].obj \in Objects
      /\ Expires(x, exp[x].obj, exp[x].step + 1)
      /\ PartExpired(reqs[exp[x].obj], reqs'[exp[x].obj], exp[x].step, now)
      /\ \A q \in Objects : q # exp[x].obj => reqs'[q] = reqs[q]
  BY ExpireNextDoes DEF TypeInv
<1>2. now' = now
  BY DEF ExpireNext
<1>3. reqs[r].all \in Counters /\ reqs[r].app \in Counters /\ reqs[r].other \in Counters
  BY FieldsTyped DEF TypeInv, Typed
<1>4. Threshold(now) \in Int /\ k \in Int
  BY ThresholdTyped, SmallKeys, SizeAssumption DEF TypeInv, Typed, Times
<1>5. CASE exp[x].obj # r
  <2>1. reqs'[r] = reqs[r]
    BY <1>1, <1>5
  <2>2. \A y \in Expirers : BetweenKinds(y, r, k) => BetweenKinds(y, r, k)'
    BY <1>1, <1>2, <1>5, <2>1 DEF BetweenKinds, Expires
  <2> QED
    BY <2>1, <2>2 DEF KindsInv, Within
<1>6. CASE exp[x].obj = r
  <2> DEFINE i == exp[x].step
  <2>1. /\ i \in 1..5
        /\ reqs'[r].all = IF i = 1 THEN Unexpired(reqs[r].all, now) ELSE reqs[r].all
        /\ reqs'[r].app = IF i = 2 THEN Unexpired(reqs[r].app, now) ELSE reqs[r].app
        /\ reqs'[r].other = IF i = 3 THEN Unexpired(reqs[r].other, now) ELSE reqs[r].other
        /\ exp'[x].obj = r /\ exp'[x].step = i + 1
        /\ \A y \in Expirers : y # x => exp'[y] = exp[y]
    BY <1>1, <1>6 DEF PartExpired, Expires
  <2> DEFINE low == k < Threshold(now)
  <2>2. /\ Unexpired(reqs[r].all, now)[k] = IF low THEN 0 ELSE reqs[r].all[k]
        /\ Unexpired(reqs[r].app, now)[k] = IF low THEN 0 ELSE reqs[r].app[k]
        /\ Unexpired(reqs[r].other, now)[k] = IF low THEN 0 ELSE reqs[r].other[k]
    <3>1. k >= Threshold(now) <=> ~low
      BY <1>4
    <3> HIDE DEF low
    <3>2. \A w \in Counters : Unexpired(w, now)[k] = IF low THEN 0 ELSE w[k]
      BY <3>1, UnexpiredTyped
    <3> QED
      BY <1>3, <3>2
  <2>3. reqs[r].all[k] \in Nat /\ reqs[r].app[k] \in Nat /\ reqs[r].other[k] \in Nat
    BY <1>3 DEF Counters
  <2> HIDE DEF i
  \* Others that are between the windows stay there: app is 0 below the threshold
  \* once it is.
  <2>4. ASSUME NEW y \in Expirers, y # x, BetweenKinds(y, r, k) PROVE BetweenKinds(y, r, k)'
    <3>1. reqs[r].app[k] = 0 => reqs'[r].app[k] = 0
      BY <2>1, <2>2
    <3>2. exp'[y] = exp[y]
      BY <2>1, <2>4
    <3> QED
      BY <1>2, <2>4, <3>1, <3>2 DEF BetweenKinds
  <2>5. CASE low
    <3>1. CASE i = 1
      <4>1. BetweenKinds(x, r, k)'
        BY <1>2, <2>1, <2>5, <3>1 DEF BetweenKinds
      <4> QED
        BY <4>1
    <3>2. CASE i = 2
      <4>1. reqs'[r].app[k] = 0
        BY <2>1, <2>2, <2>5, <3>2
      <4>2. BetweenKinds(x, r, k)'
        BY <1>2, <2>1, <2>5, <3>2, <4>1 DEF BetweenKinds
      <4> QED
        BY <4>2
    <3>3. CASE i = 3
      <4>1. CASE BetweenKinds(x, r, k)
        <5>1. reqs[r].app[k] = 0
          BY <3>3, <4>1 DEF BetweenKinds, i
        <5> QED
          BY <2>1, <2>2, <2>3, <2>5, <3>3, <5>1 DEF Within
      <4>2. CASE ~BetweenKinds(x, r, k)
        <5>1. Within(r, k) => Within(r, k)'
          BY <2>1, <2>2, <2>3, <2>5, <3>3 DEF Within
        <5> QED
          BY <2>4, <4>2, <5>1 DEF KindsInv
      <4> QED
        BY <4>1, <4>2
    <3>4. CASE i \in {4, 5}
      <4>1. ~BetweenKinds(x, r, k)
        BY <3>4 DEF BetweenKinds, i
      <4>2. Within(r, k) => Within(r, k)'
        BY <2>1, <3>4 DEF Within
      <4> QED
        BY <2>4, <4>1, <4>2 DEF KindsInv
    <3> QED
      BY <2>1, <3>1, <3>2, <3>3, <3>4
  <2>6. CASE ~low
    <3>1. \A y \in Expirers : ~BetweenKinds(y, r, k)
      BY <2>6 DEF BetweenKinds
    <3>2. Within(r, k)
      BY <3>1 DEF KindsInv
    <3>3. Within(r, k)'
      BY <2>1, <2>2, <2>6, <3>2 DEF Within
    <3> QED
      BY <3>3
  <2> QED
    BY <2>5, <2>6
<1> QED
  BY <1>5, <1>6

\* A request is recorded while nobody expires: it counts for all and for its kind.
LEMMA RecordKeepsKinds ==
    ASSUME TypeInv, KindsInv, NEW p \in Adders, Record(p)
    PROVE  \A r \in Objects, k \in Keys : Within(r, k)' \/ \E y \in Expirers : BetweenKinds(y, r, k)'
<1> SUFFICES ASSUME NEW r \in Objects, NEW k \in Keys
             PROVE  Within(r, k)' \/ \E y \in Expirers : BetweenKinds(y, r, k)'
  OBVIOUS
<1>1. /\ add[p].obj \in Objects
      /\ reqs'[add[p].obj] = Recorded(reqs[add[p].obj], add[p].kind, add[p].agent, add[p].time)
      /\ \A q \in Objects : q # add[p].obj => reqs'[q] = reqs[q]
      /\ add[p].kind \in {"app", "other"} /\ add[p].agent \in Agents /\ add[p].time \in Times
  BY RecordDoes
<1>2. now' = now /\ exp' = exp /\ add[p].pc = "record"
  BY DEF Record
<1>3. CASE add[p].obj # r
  <2>1. reqs'[r] = reqs[r]
    BY <1>1, <1>3
  <2>2. \A y \in Expirers : BetweenKinds(y, r, k) => BetweenKinds(y, r, k)'
    BY <1>2, <2>1 DEF BetweenKinds
  <2> QED
    BY <2>1, <2>2 DEF KindsInv, Within
<1>4. CASE add[p].obj = r
  <2> DEFINE t == add[p].time
             kind == add[p].kind
             agent == add[p].agent
             s == Recorded(reqs[r], kind, agent, t)
  <2>1. reqs'[r] = s /\ reqs[r] \in Reqs /\ t \in Times /\ kind \in {"app", "other"} /\ agent \in Agents
    BY <1>1, <1>4 DEF TypeInv, Typed
  <2> HIDE DEF t, kind, agent
  <2>2. /\ s.all = WithRequest(reqs[r].all, t)
        /\ s.app = IF kind = "app" THEN WithRequest(reqs[r].app, t) ELSE reqs[r].app
        /\ s.other = IF kind = "other" THEN WithRequest(reqs[r].other, t) ELSE reqs[r].other
    BY <2>1, RequestRecorded
  <2> HIDE DEF s
  <2>3. reqs[r].all \in Counters /\ reqs[r].app \in Counters /\ reqs[r].other \in Counters
    BY <2>1, FieldsTyped
  <2>4. reqs[r].all[k] \in Nat /\ reqs[r].app[k] \in Nat /\ reqs[r].other[k] \in Nat
    BY <2>3 DEF Counters
  <2>5. /\ WithRequest(reqs[r].all, t)[k] = IF k = KeyFor(t) THEN reqs[r].all[k] + 1 ELSE reqs[r].all[k]
        /\ WithRequest(reqs[r].app, t)[k] = IF k = KeyFor(t) THEN reqs[r].app[k] + 1 ELSE reqs[r].app[k]
        /\ WithRequest(reqs[r].other, t)[k] = IF k = KeyFor(t) THEN reqs[r].other[k] + 1 ELSE reqs[r].other[k]
    BY <2>3, WithRequestTyped
  <2>6. Within(r, k)
    <3>1. \A x \in Expirers : ~BetweenKinds(x, r, k)
      BY <1>2, <1>4, BetweenReads DEF KindsInv, Exclusive
    <3> QED
      BY <3>1 DEF KindsInv
  <2>7. Within(r, k)'
    <3>1. s.app[k] + s.other[k] <= s.all[k]
      BY <2>1, <2>2, <2>4, <2>5, <2>6 DEF Within
    <3> QED
      BY <2>1, <3>1 DEF Within
  <2> QED
    BY <2>7
<1> QED
  BY <1>3, <1>4

\* The lock is kept while nobody new gets it, and a reader leaves or goes on.
LEMMA ExclusiveKept ==
    ASSUME TypeInv, Exclusive,
           \A p \in Adders : add'[p].pc = "record" =>
               add[p].pc = "record" /\ add'[p].obj = add[p].obj,
           \A x \in Expirers : \/ exp'[x] = exp[x] \/ exp'[x].obj = 0
                               \/ exp'[x].obj = exp[x].obj /\ exp[x].step < Returned
    PROVE  Exclusive'
<1> SUFFICES ASSUME NEW p \in Adders, add'[p].pc = "record", NEW x \in Readers(add[p].obj)'
             PROVE  FALSE
  BY DEF Exclusive
<1>1. add[p].pc = "record" /\ add'[p].obj = add[p].obj /\ Readers(add[p].obj) = {}
  BY DEF Exclusive
<1>2. add[p].obj # 0
  BY <1>1, SizeAssumption DEF TypeInv, Typed, ObjectsMade, Holding
<1>3. x \in Expirers /\ exp'[x].obj = add[p].obj /\ exp'[x].step < Returned
  BY <1>1 DEF Readers
<1>4. x \in Readers(add[p].obj)
  BY <1>2, <1>3 DEF Readers
<1> QED
  BY <1>1, <1>4

\* The locks of a call: it waits for a writer.
LEMMA CallKeepsExclusive ==
    ASSUME TypeInv, Exclusive, NEW x \in Expirers, NEW r \in 1..made, CallExpire(x, r), add' = add
    PROVE  Exclusive'
<1> SUFFICES ASSUME NEW p \in Adders, add[p].pc = "record", NEW y \in Readers(add[p].obj)'
             PROVE  FALSE
  BY DEF Exclusive
<1>1. r \in Objects
  BY SizeAssumption DEF TypeInv, Typed, Objects
<1>2. Expires(x, r, 1) \/ Expires(x, r, Returned)
  BY <1>1, CallExpireDoes DEF TypeInv
<1>3. add[p].obj # r /\ Readers(add[p].obj) = {}
  BY DEF CallExpire, Writers, Exclusive
<1>4. y \in Expirers /\ exp'[y].obj = add[p].obj /\ exp'[y].step < Returned
  BY DEF Readers
<1>5. y # x
  BY <1>2, <1>3, <1>4 DEF Expires
<1>6. y \in Readers(add[p].obj)
  BY <1>2, <1>4, <1>5 DEF Expires, Readers
<1> QED
  BY <1>3, <1>6

\* A call takes the lock of an object when no kind is behind.
LEMMA CallKeepsKinds ==
    ASSUME TypeInv, KindsInv, [Next]_vars, NEW x \in Expirers, NEW r \in 1..made,
           exp[x] = NoCall, CallExpire(x, r), add' = add, reqs' = reqs
    PROVE  KindsInv'
<1>1. Exclusive'
  BY CallKeepsExclusive DEF KindsInv
<1>2. r \in Objects
  BY SizeAssumption DEF TypeInv, Typed, Objects
<1>3. Expires(x, r, 1) \/ Expires(x, r, Returned)
  BY <1>2, CallExpireDoes DEF TypeInv
<1>4. \A y \in Expirers : exp[y].step \in {2, 3} => exp'[y] = exp[y]
  BY <1>3, NoCallTyped DEF Expires
<1>5. \A q \in Objects : reqs'[q].all = reqs[q].all /\ reqs'[q].app = reqs[q].app
                         /\ reqs'[q].other = reqs[q].other
  OBVIOUS
<1>6. \A q \in Objects, k \in Keys : Within(q, k)' \/ \E y \in Expirers : BetweenKinds(y, q, k)'
  BY <1>4, <1>5, SameKinds DEF TypeInv
<1> QED
  BY <1>1, <1>6 DEF KindsInv

\* A step that neither records, calls nor goes on to the next window.
LEMMA OtherStepsKeepKinds ==
    ASSUME TypeInv, KindsInv, [Next]_vars, Exclusive',
           \A r \in Objects : reqs'[r].all = reqs[r].all /\ reqs'[r].app = reqs[r].app
                              /\ reqs'[r].other = reqs[r].other,
           \A x \in Expirers : exp[x].step \in {2, 3} => exp'[x] = exp[x]
    PROVE  KindsInv'
<1>1. \A r \in Objects, k \in Keys : Within(r, k)' \/ \E x \in Expirers : BetweenKinds(x, r, k)'
  BY SameKinds DEF TypeInv
<1> QED
  BY <1>1 DEF KindsInv

LEMMA AdderKeepsExclusive ==
    ASSUME TypeInv, Exclusive, NEW p \in Adders, NEW from, NEW to, Moves(p, from, to),
           to # "record", exp' = exp
    PROVE  Exclusive'
<1>1. \A q \in Adders : add'[q].pc = "record" =>
          add[q].pc = "record" /\ add'[q].obj = add[q].obj
  BY DEF Moves
<1> QED
  BY <1>1, ExclusiveKept

LEMMA InsertKeepsKinds ==
    ASSUME TypeInv, KindsInv, NEW p \in Adders, Insert(p) PROVE KindsInv'
<1>1. Moves(p, "idle", "look") /\ exp' = exp /\ now' = now
  BY InsertMoves DEF TypeInv, Insert
<1>2. Exclusive'
  BY <1>1, AdderKeepsExclusive DEF KindsInv
<1>3. ASSUME NEW r \in Objects, NEW k \in Keys
      PROVE  Within(r, k)' \/ \E x \in Expirers : BetweenKinds(x, r, k)'
  <2>1. CASE reqs'[r] = reqs[r]
    BY <1>1, <2>1 DEF KindsInv, Within, BetweenKinds
  <2>2. CASE reqs'[r] = NewRequests(now)
    <3> DEFINE new == NewRequests(now)
    <3>1. new.all = NoRequests /\ new.app = NoRequests /\ new.other = NoRequests
      BY NewTyped DEF TypeInv, Typed
    <3> HIDE DEF new
    <3>2. reqs'[r] = new /\ NoRequests[k] = 0
      BY <2>2, NoRequestsTyped DEF new
    <3> QED
      BY <3>1, <3>2 DEF Within
  <2>3. reqs' = reqs \/ reqs' = [reqs EXCEPT ![made'] = NewRequests(now)]
    BY DEF Insert
  <2>4. reqs \in [Objects -> Reqs]
    BY DEF TypeInv, Typed
  <2>5. reqs'[r] = reqs[r] \/ reqs'[r] = NewRequests(now)
    BY <2>3, <2>4
  <2> QED
    BY <2>1, <2>2, <2>5
<1> QED
  BY <1>2, <1>3 DEF KindsInv

LEMMA LockKeepsKinds ==
    ASSUME TypeInv, KindsInv, [Next]_vars, NEW p \in Adders, Lock(p) PROVE KindsInv'
<1>1. Moves(p, "expire", "record") /\ add'[p].obj = add[p].obj
  BY LockMoves DEF TypeInv
<1>2. /\ exp' = [exp EXCEPT ![p] = NoCall] /\ p \in Expirers
      /\ exp[p].step = 7 /\ Readers(add[p].obj) = {} /\ reqs' = reqs
  BY PartsAre DEF Lock, Expirers
<1>3. exp'[p].obj = 0 /\ \A x \in Expirers : x # p => exp'[x] = exp[x]
  BY <1>2 DEF TypeInv, Typed, NoCall
<1>4. Exclusive'
  <2> SUFFICES ASSUME NEW q \in Adders, add'[q].pc = "record", NEW x \in Readers(add[q].obj)'
               PROVE  FALSE
    BY DEF Exclusive
  <2>1. add'[q].obj = add[q].obj /\ Readers(add[q].obj) = {} /\ add[q].pc \in {"expire", "record"}
    BY <1>1, <1>2 DEF Moves, KindsInv, Exclusive
  <2>2. add[q].obj # 0
    BY <2>1, SizeAssumption DEF TypeInv, Typed, ObjectsMade, Holding
  <2>3. x \in Expirers /\ exp'[x].obj = add[q].obj /\ exp'[x].step < Returned
    BY <2>1 DEF Readers
  <2>4. x \in Readers(add[q].obj)
    BY <1>3, <2>2, <2>3 DEF Readers
  <2> QED
    BY <2>1, <2>4
<1>5. \A x \in Expirers : exp[x].step \in {2, 3} => exp'[x] = exp[x]
  BY <1>2, <1>3
<1>6. \A r \in Objects : reqs'[r].all = reqs[r].all /\ reqs'[r].app = reqs[r].app
                         /\ reqs'[r].other = reqs[r].other
  BY <1>2
<1> QED
  BY <1>4, <1>5, <1>6, OtherStepsKeepKinds

LEMMA AddersKeepKinds ==
    ASSUME TypeInv, KindsInv, [Next]_vars, NEW p \in Adders,
           LookUp(p) \/ Record(p) \/ ReadTotal(p) \/ ReadApp(p) \/ Deliver(p)
    PROVE  KindsInv'
<1>1. exp' = exp
  BY DEF LookUp, Record, ReadTotal, ReadApp, Deliver
<1>2. \E from, to : Moves(p, from, to) /\ to # "record"
  <2>1. CASE LookUp(p)
    BY <2>1, LookUpMoves DEF TypeInv
  <2>2. CASE Record(p)
    BY <2>2, RecordMoves DEF TypeInv
  <2>3. CASE ReadTotal(p)
    BY <2>3, ReadTotalMoves DEF TypeInv
  <2>4. CASE ReadApp(p)
    BY <2>4, ReadAppMoves DEF TypeInv
  <2>5. CASE Deliver(p)
    BY <2>5, DeliverMoves DEF TypeInv
  <2> QED
    BY <2>1, <2>2, <2>3, <2>4, <2>5
<1>3. Exclusive'
  BY <1>1, <1>2, AdderKeepsExclusive DEF KindsInv
<1>4. CASE Record(p)
  BY <1>3, <1>4, RecordKeepsKinds DEF KindsInv
<1>5. CASE ~Record(p)
  <2>1. reqs' = reqs
    BY <1>5 DEF LookUp, ReadTotal, ReadApp, Deliver
  <2> QED
    BY <1>1, <1>3, <2>1, OtherStepsKeepKinds
<1> QED
  BY <1>4, <1>5

LEMMA ExpirersKeepKinds ==
    ASSUME TypeInv, KindsInv, [Next]_vars, NEW x \in Expirers, ExpireSteps(x) PROVE KindsInv'
<1>1. CASE ExpireNext(x)
  <2>1. exp[x].step \in 1..5 /\ Expires(x, exp[x].obj, exp[x].step + 1)
    BY <1>1, ExpireNextDoes DEF TypeInv
  <2>2. add' = add
    BY <1>1 DEF ExpireNext
  <2>3. \A y \in Expirers : \/ exp'[y] = exp[y]
                            \/ exp'[y].obj = exp[y].obj /\ exp[y].step < Returned
    BY <2>1, PartsAre DEF Expires
  <2>4. Exclusive'
    BY <2>2, <2>3, ExclusiveKept DEF KindsInv
  <2> QED
    BY <1>1, <2>4, ExpireNextKeepsKinds DEF KindsInv
<1>2. CASE Stamp(x)
  <2>1. /\ exp[x].step = 6 /\ Expires(x, exp[x].obj, Returned)
        /\ \A q \in Objects : /\ reqs'[q].all = reqs[q].all /\ reqs'[q].app = reqs[q].app
                              /\ reqs'[q].other = reqs[q].other
    BY <1>2, StampDoes DEF TypeInv
  <2>2. add' = add
    BY <1>2 DEF Stamp
  <2>3. \A y \in Expirers : \/ exp'[y] = exp[y]
                            \/ exp'[y].obj = exp[y].obj /\ exp[y].step < Returned
    BY <2>1, PartsAre DEF Expires
  <2>4. Exclusive'
    BY <2>2, <2>3, ExclusiveKept DEF KindsInv
  <2>5. \A y \in Expirers : exp[y].step \in {2, 3} => exp'[y] = exp[y]
    BY <2>1 DEF Expires
  <2> QED
    BY <2>1, <2>4, <2>5, OtherStepsKeepKinds
<1> QED
  BY <1>1, <1>2 DEF ExpireSteps

LEMMA HistoryKeepsKinds ==
    ASSUME TypeInv, KindsInv, [Next]_vars, TickerExpires \/ Delete \/ Tick \/ UNCHANGED vars
    PROVE  KindsInv'
<1>1. add' = add /\ reqs' = reqs
  BY DEF TickerExpires, Delete, Tick, vars
<1>2. \A x \in Expirers : \/ exp'[x] = exp[x]
                          \/ exp'[x].obj = 0 /\ exp[x].step = 7
  BY PartsAre DEF TickerExpires, Delete, Tick, vars, NoCall, TypeInv, Typed
<1>3. Exclusive'
  BY <1>1, <1>2, ExclusiveKept DEF KindsInv
<1>4. \A x \in Expirers : exp[x].step \in {2, 3} => exp'[x] = exp[x]
  BY <1>2
<1> QED
  BY <1>1, <1>3, <1>4, OtherStepsKeepKinds

LEMMA KindsInitially == Init => KindsInv
<1> SUFFICES ASSUME Init PROVE KindsInv
  OBVIOUS
<1>1. 0 \in Times
  BY SizeAssumption DEF Times
<1> DEFINE new == NewRequests(0)
<1>2. new.all = NoRequests /\ new.app = NoRequests /\ new.other = NoRequests
  BY <1>1, NewTyped
<1>3. \A r \in Objects : reqs[r] = new
  BY DEF Init
<1> HIDE DEF new
<1>4. \A r \in Objects, k \in Keys : Within(r, k)
  BY <1>2, <1>3, NoRequestsTyped DEF Within
<1>5. Exclusive
  BY IdleAdderTyped DEF Exclusive, Init
<1> QED
  BY <1>4, <1>5 DEF KindsInv

LEMMA KindsKept == TypeInv /\ KindsInv /\ [Next]_vars => KindsInv'
<1> SUFFICES ASSUME TypeInv, KindsInv, [Next]_vars PROVE KindsInv'
  OBVIOUS
<1>1. ASSUME NEW p \in Adders, Insert(p) PROVE KindsInv'
  BY <1>1, InsertKeepsKinds
<1>2. ASSUME NEW p \in Adders, LookUp(p) \/ Record(p) \/ ReadTotal(p) \/ ReadApp(p) \/ Deliver(p)
      PROVE  KindsInv'
  BY <1>2, AddersKeepKinds
<1>3. ASSUME NEW p \in Adders, AddExpires(p) PROVE KindsInv'
  <2>1. add[p].obj \in 1..made /\ p \in Expirers
    BY <1>3 DEF AddExpires, TypeInv, ObjectsMade, Holding, Expirers
  <2>2. CallExpire(p, add[p].obj) /\ exp[p] = NoCall /\ add' = add /\ reqs' = reqs
    BY <1>3 DEF AddExpires
  <2> QED
    BY <2>1, <2>2, CallKeepsKinds
<1>4. ASSUME NEW x \in Expirers, ExpireSteps(x) PROVE KindsInv'
  BY <1>4, ExpirersKeepKinds
<1>5. ASSUME NEW p \in Adders, Lock(p) PROVE KindsInv'
  BY <1>5, LockKeepsKinds
<1>6. CASE HistoryExpires
  <2>1. entry \in 1..made /\ "history" \in Expirers
    BY <1>6, SizeAssumption DEF HistoryExpires, TypeInv, Typed, ObjectsMade, Expirers
  <2>2. CallExpire("history", entry) /\ exp["history"] = NoCall /\ add' = add /\ reqs' = reqs
    BY <1>6 DEF HistoryExpires
  <2> QED
    BY <2>1, <2>2, CallKeepsKinds
<1>7. CASE TickerExpires \/ Delete \/ Tick \/ UNCHANGED vars
  BY <1>7, HistoryKeepsKinds
<1>8. Adders \subseteq Expirers /\ "history" \in Expirers
  BY DEF Expirers
<1> QED
  BY <1>1, <1>2, <1>3, <1>4, <1>5, <1>6, <1>7, <1>8 DEF Next, AddSteps, HistorySteps

\* While nobody expires an object, no bucket counts more requests of the two kinds
\* than requests, however many goroutines expire the object at once, each with its
\* own reading of the clock (Requests.Expire).
THEOREM Kinds == Spec => []KindsWithinAll
<1>1. KindsInv => KindsWithinAll
  <2> SUFFICES ASSUME KindsInv, NEW r \in Objects, NEW k \in Keys, Readers(r) = {}
               PROVE  Within(r, k)
    BY DEF KindsWithinAll, Within
  <2>1. \A x \in Expirers : ~BetweenKinds(x, r, k)
    BY BetweenReads
  <2> QED
    BY <2>1 DEF KindsInv
<1> QED
  BY AlwaysTyped, KindsInitially, KindsKept, <1>1, PTL DEF Spec

-----------------------------------------------------------------------------
(* What happens to the window of all requests.                                *)

\* Only Record adds to a window, and only below the threshold requests are forgotten.
LEMMA AllMoves ==
    ASSUME TypeInv, [Next]_vars, NEW r \in Objects, NEW k \in Keys
    PROVE  /\ (k >= Threshold(now) /\ r \in 1..made) => reqs'[r].all[k] >= reqs[r].all[k]
           /\ (\A p \in Adders : ~Record(p)) => reqs'[r].all[k] <= reqs[r].all[k]
<1>0. reqs[r] \in Reqs /\ reqs[r].all \in Counters /\ reqs[r].all[k] \in Nat
  BY FieldsTyped DEF TypeInv, Typed, Counters
<1>1. ASSUME reqs'[r].all = reqs[r].all PROVE reqs'[r].all[k] = reqs[r].all[k]
  BY <1>1
<1>2. ASSUME NEW p \in Adders, Insert(p)
      PROVE  /\ r \in 1..made => reqs'[r].all[k] = reqs[r].all[k]
             /\ reqs'[r].all[k] <= reqs[r].all[k]
  <2>1. CASE reqs'[r] = reqs[r]
    BY <1>0, <2>1
  <2>2. CASE reqs'[r] = NewRequests(now) /\ r = made + 1
    <3> DEFINE new == NewRequests(now)
    <3>1. new.all = NoRequests
      BY NewTyped DEF TypeInv, Typed
    <3> HIDE DEF new
    <3>2. reqs'[r] = new /\ NoRequests[k] = 0
      BY <2>2, NoRequestsTyped DEF new
    <3>3. reqs'[r].all[k] = 0
      BY <3>1, <3>2
    <3>4. r \notin 1..made
      BY <2>2, SizeAssumption DEF TypeInv, Typed
    <3> QED
      BY <1>0, <3>3, <3>4
  <2>3. \/ reqs' = reqs
        \/ made' = made + 1 /\ reqs' = [reqs EXCEPT ![made'] = NewRequests(now)]
    BY <1>2 DEF Insert
  <2>4. reqs \in [Objects -> Reqs]
    BY DEF TypeInv, Typed
  <2>5. \/ reqs'[r] = reqs[r]
        \/ reqs'[r] = NewRequests(now) /\ r = made + 1
    BY <2>3, <2>4
  <2> QED
    BY <2>1, <2>2, <2>5
<1>3. ASSUME NEW x \in Expirers, ExpireNext(x)
      PROVE  /\ k >= Threshold(now) => reqs'[r].all[k] = reqs[r].all[k]
             /\ reqs'[r].all[k] <= reqs[r].all[k]
  <2>1. /\ PartExpired(reqs[exp[x].obj], reqs'[exp[x].obj], exp[x].step, now)
        /\ \A q \in Objects : q # exp[x].obj => reqs'[q] = reqs[q]
    BY <1>3, ExpireNextDoes DEF TypeInv
  <2>2. reqs'[r].all = reqs[r].all \/ reqs'[r].all = Unexpired(reqs[r].all, now)
    BY <2>1 DEF PartExpired
  <2>3. Unexpired(reqs[r].all, now)[k] = IF k >= Threshold(now) THEN reqs[r].all[k] ELSE 0
    BY <1>0, UnexpiredTyped
  <2> QED
    BY <1>0, <2>2, <2>3
<1>4. ASSUME NEW x \in Expirers, Stamp(x) PROVE reqs'[r].all = reqs[r].all
  BY <1>4, StampDoes DEF TypeInv
<1>5. ASSUME NEW p \in Adders, Record(p) PROVE reqs'[r].all[k] >= reqs[r].all[k]
  <2>1. /\ reqs'[add[p].obj] = Recorded(reqs[add[p].obj], add[p].kind, add[p].agent, add[p].time)
        /\ \A q \in Objects : q # add[p].obj => reqs'[q] = reqs[q]
        /\ add[p].kind \in {"app", "other"} /\ add[p].agent \in Agents /\ add[p].time \in Times
    BY <1>5, RecordDoes
  <2>2. CASE r # add[p].obj
    BY <1>0, <2>1, <2>2
  <2>3. CASE r = add[p].obj
    <3> DEFINE t == add[p].time
               s == Recorded(reqs[r], add[p].kind, add[p].agent, t)
    <3>1. s.all = WithRequest(reqs[r].all, t) /\ reqs'[r] = s
      BY <1>0, <2>1, <2>3, RequestRecorded
    <3> HIDE DEF s, t
    <3>2. WithRequest(reqs[r].all, t)[k] \in {reqs[r].all[k], reqs[r].all[k] + 1}
      BY <1>0, WithRequestTyped
    <3> QED
      BY <1>0, <3>1, <3>2
  <2> QED
    BY <2>2, <2>3
<1>6. ASSUME NEW p \in Adders,
             LookUp(p) \/ AddExpires(p) \/ Lock(p) \/ ReadTotal(p) \/ ReadApp(p) \/ Deliver(p)
      PROVE  reqs'[r].all = reqs[r].all
  BY <1>6 DEF LookUp, AddExpires, Lock, ReadTotal, ReadApp, Deliver
<1>7. ASSUME TickerExpires \/ HistoryExpires \/ Delete \/ Tick \/ UNCHANGED vars
      PROVE  reqs'[r].all = reqs[r].all
  BY <1>7 DEF TickerExpires, HistoryExpires, Delete, Tick, vars
<1>8. Adders \subseteq Expirers /\ "history" \in Expirers
  BY DEF Expirers
<1> DEFINE Grows == reqs'[r].all[k] >= reqs[r].all[k]
           Shrinks == reqs'[r].all[k] <= reqs[r].all[k]
<1>9. reqs'[r].all = reqs[r].all => Grows /\ Shrinks
  BY <1>0, <1>1
<1>10. ASSUME NEW p \in Adders, Insert(p) PROVE (r \in 1..made => Grows) /\ Shrinks
  BY <1>0, <1>2, <1>10
<1>11. ASSUME NEW x \in Expirers, ExpireSteps(x) PROVE (k >= Threshold(now) => Grows) /\ Shrinks
  BY <1>0, <1>3, <1>4, <1>9, <1>11 DEF ExpireSteps
<1> QED
  BY <1>4, <1>5, <1>6, <1>7, <1>8, <1>9, <1>10, <1>11 DEF Next, AddSteps, HistorySteps

\* Expiring never forgets a request of the last NumWindows windows, whoever expires
\* and however old its reading of the clock (Window.Expire, Requests.Expire).
THEOREM LiveBuckets == Spec => LiveBucketsStay
<1>1. TypeInv /\ [Next]_vars =>
          [\A r \in 1..made, k \in Keys :
              k >= now - WindowSize * NumWindows => reqs'[r].all[k] >= reqs[r].all[k]]_vars
  <2> SUFFICES ASSUME TypeInv, [Next]_vars, NEW r \in 1..made, NEW k \in Keys, k >= Threshold(now)
               PROVE  reqs'[r].all[k] >= reqs[r].all[k]
    BY DEF Threshold
  <2>1. r \in Objects
    BY SizeAssumption DEF TypeInv, Typed, Objects
  <2> QED
    BY <2>1, AllMoves
<1> QED
  BY AlwaysTyped, <1>1, PTL DEF Spec, LiveBucketsStay

-----------------------------------------------------------------------------
(* The total that decides about a block, with a single adder.                 *)

AllCount(r) == Count(reqs[r].all)
CountAfter(r) == Count(reqs'[r].all)

\* From the counting to the delivery, the new total is only known to adder p.
TotalInv(p) ==
    /\ add[p].pc \in Holding /\ entry # 0 => entry = add[p].obj
    /\ add[p].pc \notin {"total", "app", "send"} /\ entry # 0 =>
           stored[entry].total >= AllCount(entry)
    /\ add[p].pc \in {"app", "send"} => add[p].total >= AllCount(add[p].obj)

LEMMA AllCountTyped ==
    ASSUME TypeInv, NEW r \in Objects PROVE AllCount(r) \in Nat
<1>1. reqs[r].all \in Counters
  BY FieldsTyped DEF TypeInv, Typed
<1> QED
  BY <1>1, CountTyped DEF AllCount

LEMMA AllCountShrinks ==
    ASSUME TypeInv, TypeInv', [Next]_vars, \A p \in Adders : ~Record(p), NEW r \in Objects
    PROVE  CountAfter(r) <= AllCount(r) /\ CountAfter(r) \in Nat /\ AllCount(r) \in Nat
<1> DEFINE v == reqs'[r].all
           w == reqs[r].all
<1>1. v \in Counters /\ w \in Counters
  BY FieldsTyped DEF TypeInv, Typed
<1>2. \A k \in Keys : v[k] <= w[k]
  BY AllMoves
<1>3. CountAfter(r) = Count(v) /\ AllCount(r) = Count(w)
  BY DEF AllCount, CountAfter
<1> HIDE DEF v, w
<1>4. Count(v) <= Count(w) /\ Count(v) \in Nat /\ Count(w) \in Nat
  BY <1>1, <1>2, CountMonotone, CountTyped
<1> QED
  BY <1>3, <1>4

LEMMA NewCountsNothing == Count(NoRequests) = 0
<1>1. SumFunctionOnSet(NoRequests, Keys) = 0
  BY KeysFinite, NoRequestsTyped, SumZero
<1> QED
  BY <1>1 DEF Count, SumFunction, NoRequests

LEMMA TotalKept ==
    ASSUME TypeInv, TypeInv', [Next]_vars, NEW p \in Adders, Adders = {p}, TotalInv(p)
    PROVE  TotalInv(p)'
<1>0. \A r : r \in 1..made => r \in Objects
  BY SizeAssumption DEF TypeInv, Typed, Objects
<1>1. entry # 0 => entry \in Objects
  BY <1>0, SizeAssumption DEF TypeInv, Typed
<1>2. stored \in [Objects -> [total : Nat, app : Nat]]
  BY DEF TypeInv, Typed
<1>3. ASSUME \A q \in Adders : ~Record(q)
      PROVE  \A r \in Objects : CountAfter(r) <= AllCount(r) /\ CountAfter(r) \in Nat /\ AllCount(r) \in Nat
  BY <1>3, AllCountShrinks
<1>4. add[p].pc \in Holding => add[p].obj \in Objects
  BY <1>0 DEF TypeInv, ObjectsMade
<1>5. \A r \in Objects : stored[r].total \in Nat
  BY <1>2
<1>6. add[p].total \in Nat
  BY DEF TypeInv, Typed, AdderStates
<1>7. CASE Insert(p)
  <2>1. Moves(p, "idle", "look") /\ stored' = stored
    BY <1>7, InsertMoves DEF TypeInv, Insert
  <2>2. \A q \in Adders : ~Record(q)
    BY <2>1 DEF Moves, Record
  <2>3. ASSUME entry' # 0 PROVE stored'[entry'].total >= CountAfter(entry')
    <3>1. CASE entry # 0 /\ entry' = entry
      BY <1>1, <1>3, <1>5, <2>1, <2>2, <3>1 DEF TotalInv, Moves
    <3>2. CASE /\ entry = 0 /\ made < MaxObjects /\ made' = made + 1 /\ entry' = made'
               /\ reqs' = [reqs EXCEPT ![made'] = NewRequests(now)]
      <4> DEFINE new == NewRequests(now)
      <4>1. new.all = NoRequests
        BY NewTyped DEF TypeInv, Typed
      <4> HIDE DEF new
      <4>2. entry' \in Objects
        BY <3>2, SizeAssumption DEF TypeInv, Typed, Objects
      <4>3. reqs'[entry'] = new
        BY <3>2, <4>2 DEF TypeInv, Typed, new
      <4>4. CountAfter(entry') = 0
        BY <4>1, <4>3, NewCountsNothing DEF CountAfter
      <4> QED
        BY <1>5, <2>1, <4>2, <4>4
    <3> QED
      BY <1>7, <3>1, <3>2 DEF Insert
  <2> QED
    BY <2>1, <2>3 DEF TotalInv, Moves, Holding, AllCount, CountAfter
<1>8. CASE LookUp(p)
  <2>1. IF entry = 0 THEN Moves(p, "look", "idle")
        ELSE Moves(p, "look", "expire") /\ add'[p].obj = entry
    BY <1>8, LookUpMoves DEF TypeInv
  <2>2. entry' = entry /\ stored' = stored /\ reqs' = reqs
    BY <1>8 DEF LookUp
  <2>3. entry # 0 => stored[entry].total >= AllCount(entry)
    BY <2>1 DEF TotalInv, Moves
  <2> QED
    BY <2>1, <2>2, <2>3 DEF TotalInv, Moves, Holding, AllCount, CountAfter
<1>9. CASE Lock(p)
  <2>1. Moves(p, "expire", "record") /\ add'[p].obj = add[p].obj
    BY <1>9, LockMoves DEF TypeInv
  <2>2. entry' = entry /\ stored' = stored /\ reqs' = reqs
    BY <1>9 DEF Lock
  <2> QED
    BY <2>1, <2>2 DEF TotalInv, Moves, Holding, AllCount, CountAfter
<1>10. CASE Record(p)
  <2>1. Moves(p, "record", "total") /\ add'[p].obj = add[p].obj
    BY <1>10, RecordMoves DEF TypeInv
  <2>2. entry' = entry
    BY <1>10 DEF Record
  <2> QED
    BY <2>1, <2>2 DEF TotalInv, Moves, Holding
<1>11. CASE ReadTotal(p)
  <2>1. /\ Moves(p, "total", "app") /\ add'[p].obj = add[p].obj
        /\ add'[p].total = AllCount(add[p].obj)
    BY <1>11, ReadTotalMoves DEF TypeInv, AllCount
  <2>2. entry' = entry /\ reqs' = reqs
    BY <1>11 DEF ReadTotal
  <2>3. AllCount(add[p].obj) \in Nat
    BY <1>4, <2>1, AllCountTyped DEF Moves, Holding
  <2>4. add'[p].total >= CountAfter(add'[p].obj)
    BY <2>1, <2>2, <2>3 DEF AllCount, CountAfter
  <2> QED
    BY <2>1, <2>2, <2>4 DEF TotalInv, Moves, Holding, AllCount, CountAfter
<1>12. CASE ReadApp(p)
  <2>1. /\ Moves(p, "app", "send") /\ add'[p].obj = add[p].obj /\ add'[p].total = add[p].total
    BY <1>12, ReadAppMoves DEF TypeInv
  <2>2. entry' = entry /\ reqs' = reqs
    BY <1>12 DEF ReadApp
  <2> QED
    BY <2>1, <2>2 DEF TotalInv, Moves, Holding, AllCount, CountAfter
<1>13. CASE Deliver(p)
  <2>1. Moves(p, "send", "idle")
    BY <1>13, DeliverMoves DEF TypeInv
  <2>2. entry' = entry /\ reqs' = reqs
    BY <1>13 DEF Deliver
  <2>3. ASSUME entry # 0 PROVE stored'[entry].total >= AllCount(entry)
    <3>1. entry = add[p].obj /\ add[p].total >= AllCount(entry) /\ AllCount(entry) \in Nat
      BY <1>1, <2>1, <2>3, AllCountTyped DEF TotalInv, Moves, Holding
    <3>2. CASE add[p].total <= 0
      <4>1. stored' = stored
        BY <1>13, <3>2 DEF Deliver
      <4>2. stored[entry].total \in Nat
        BY <1>1, <1>5, <2>3
      <4> QED
        BY <1>6, <3>1, <3>2, <4>1, <4>2
    <3>3. CASE ~(add[p].total <= 0)
      <4> DEFINE new == [total |-> add[p].total, app |-> add[p].app]
      <4>1. stored' = [stored EXCEPT ![entry] = new]
        BY <1>13, <2>3, <3>3 DEF Deliver
      <4>2. stored'[entry] = new
        BY <1>1, <1>2, <2>3, <4>1
      <4> QED
        BY <3>1, <4>2
    <3> QED
      BY <3>2, <3>3
  <2> QED
    BY <2>1, <2>2, <2>3 DEF TotalInv, Moves, Holding, AllCount, CountAfter
\* The other steps leave the adder alone, and no window grows.
<1>14. CASE /\ add' = add /\ stored' = stored /\ entry' \in {entry, 0}
            /\ \A q \in Adders : ~Record(q)
  <2>1. \A r \in Objects : CountAfter(r) <= AllCount(r) /\ CountAfter(r) \in Nat /\ AllCount(r) \in Nat
    BY <1>3, <1>14
  <2>2. entry' # 0 => entry' = entry /\ entry' \in Objects
    BY <1>1, <1>14
  <2>3. add[p].pc \in Holding /\ entry' # 0 => entry' = add[p].obj
    BY <2>2 DEF TotalInv
  <2>4. ASSUME add[p].pc \notin {"total", "app", "send"}, entry' # 0
        PROVE  stored[entry'].total >= CountAfter(entry')
    <3>1. stored[entry].total >= AllCount(entry) /\ entry \in Objects /\ entry' = entry
      BY <2>2, <2>4 DEF TotalInv
    <3>2. stored[entry].total \in Nat /\ CountAfter(entry) <= AllCount(entry)
          /\ CountAfter(entry) \in Nat /\ AllCount(entry) \in Nat
      BY <1>5, <2>1, <3>1
    <3>3. CountAfter(entry') = CountAfter(entry)
      BY <3>1
    <3> QED
      BY <3>1, <3>2, <3>3
  <2>5. ASSUME add[p].pc \in {"app", "send"} PROVE add[p].total >= CountAfter(add[p].obj)
    <3>1. add[p].total >= AllCount(add[p].obj) /\ add[p].obj \in Objects
      BY <1>4, <2>5 DEF TotalInv, Holding
    <3> QED
      BY <1>6, <2>1, <3>1
  <2> QED
    BY <1>14, <2>3, <2>4, <2>5 DEF TotalInv, AllCount, CountAfter
<1>15. ASSUME NEW x, ExpireSteps(x)
       PROVE  add' = add /\ stored' = stored /\ entry' = entry /\ \A q \in Adders : ~Record(q)
  <2>1. add' = add /\ stored' = stored /\ entry' = entry
    BY <1>15 DEF ExpireSteps, ExpireNext, Stamp
  <2>2. ASSUME NEW q \in Adders, Record(q) PROVE FALSE
    BY <2>1, <2>2, RecordMoves DEF TypeInv, Moves
  <2> QED
    BY <2>1, <2>2
<1>16. ASSUME AddExpires(p) \/ HistoryExpires \/ TickerExpires \/ Delete \/ Tick \/ UNCHANGED vars
       PROVE  add' = add /\ stored' = stored /\ entry' \in {entry, 0} /\ \A q \in Adders : ~Record(q)
  <2>1. add' = add /\ stored' = stored /\ entry' \in {entry, 0}
    BY <1>16 DEF AddExpires, HistoryExpires, TickerExpires, Delete, Tick, vars
  <2>2. ASSUME NEW q \in Adders, Record(q) PROVE FALSE
    BY <2>1, <2>2, RecordMoves DEF TypeInv, Moves
  <2> QED
    BY <2>1, <2>2
<1> QED
  BY <1>7, <1>8, <1>9, <1>10, <1>11, <1>12, <1>13, <1>14, <1>15, <1>16
     DEF Next, AddSteps, HistorySteps

\* With a single adder the total that decides about a block counts every request of
\* the entry whenever no request is being added: it is the overlap of two calls of
\* History.Add that makes it too low (requests.go: "this makes sure the maximum
\* number for the overall time window is used").
THEOREM OneAdder ==
    ASSUME NEW p, Adders = {p} PROVE Spec => []StoredTotalIsCurrent
<1>0. p \in Adders
  OBVIOUS
<1>1. Init => TotalInv(p)
  BY <1>0, IdleAdderTyped DEF Init, TotalInv, Holding
<1>2. TypeInv /\ TypeInv' /\ TotalInv(p) /\ [Next]_vars => TotalInv(p)'
  BY <1>0, TotalKept
<1>3. TotalInv(p) => StoredTotalIsCurrent
  BY <1>0 DEF TotalInv, StoredTotalIsCurrent, AllCount
<1> QED
  BY AlwaysTyped, <1>1, <1>2, <1>3, PTL DEF Spec
=============================================================================
