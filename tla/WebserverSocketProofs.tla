----------------------- MODULE WebserverSocketProofs -----------------------
(***************************************************************************)
(* Theorems about WebserverSocket, for any number of addresses, connections *)
(* and lines: types, why each answer was given, and that no look-up is left *)
(* behind.                                                                 *)
(***************************************************************************)
EXTENDS WebserverSocket, FiniteSetTheorems, TLAPS

-----------------------------------------------------------------------------
(* Types. *)

PCs == {"none", "dialled", "reading", "decide", "collect", "write"}
Verdicts == {"OK", "BLOCK"}
LookupStates == {"looking", "OK", "BLOCK", "done"}
Datas == [ip : IPs \cup {NoIP}, xff : Seq(IPs \cup {NoIP}), cookies : Seq(Cookies)]
LookupMaps == UNION {[S -> LookupStates] : S \in SUBSET Nat}
ConnStates == [pc : PCs, data : Datas, lookups : LookupMaps, left : Nat, decision : Verdicts]
SeenStates == [named : SUBSET IPs, listed : SUBSET IPs, free : SUBSET IPs, failed : SUBSET IPs,
               valid : SUBSET Cookies]

Types ==
    /\ ttl \in [IPs -> 0..BlockTTL]
    /\ lapsed \subseteq Cookies
    /\ cancelled \in BOOLEAN /\ storeOpen \in BOOLEAN
    /\ listener \in {"select", "accept", "closed", "dead"}
    /\ late \in Nat /\ sent \in 0..MaxLines
    /\ inbox \in [Conns -> Seq(Inputs)] /\ \A c \in Conns : Len(inbox[c]) <= InboxCap
    /\ conn \in [Conns -> ConnStates]
    /\ seen \in [Conns -> SeenStates]

LEMMA ConnFields ==
    ASSUME NEW x \in ConnStates
    PROVE  /\ x.pc \in PCs /\ x.data \in Datas /\ x.lookups \in LookupMaps
           /\ x.left \in Nat /\ x.decision \in Verdicts
  BY DEF ConnStates

LEMMA SetPC ==
    ASSUME NEW x \in ConnStates, NEW p \in PCs
    PROVE  /\ [x EXCEPT !.pc = p] \in ConnStates
           /\ [x EXCEPT !.pc = p].pc = p
           /\ [x EXCEPT !.pc = p].data = x.data
           /\ [x EXCEPT !.pc = p].lookups = x.lookups
           /\ [x EXCEPT !.pc = p].left = x.left
           /\ [x EXCEPT !.pc = p].decision = x.decision
  BY Zenon DEF ConnStates

WithData(x, p, d) == [x EXCEPT !.pc = p, !.data = d]
Started(x, n, m) == [x EXCEPT !.pc = "collect", !.left = n, !.lookups = m]
Collected(x, i, d) == [x EXCEPT !.lookups[i] = "done", !.left = x.left - 1, !.decision = d]
Concluded(x, d) == [x EXCEPT !.pc = "write", !.decision = d]
Written(x) == [x EXCEPT !.pc = "reading", !.lookups = NoLookups, !.left = 0, !.decision = "OK"]

LEMMA SetData ==
    ASSUME NEW x \in ConnStates, NEW p \in PCs, NEW d \in Datas
    PROVE  LET y == WithData(x, p, d)
           IN  /\ y \in ConnStates
               /\ y.pc = p /\ y.data = d /\ y.lookups = x.lookups
               /\ y.left = x.left /\ y.decision = x.decision
  BY Zenon DEF ConnStates, WithData

LEMMA SetStart ==
    ASSUME NEW x \in ConnStates, NEW n \in Nat, NEW m \in LookupMaps
    PROVE  LET y == Started(x, n, m)
           IN  /\ y \in ConnStates
               /\ y.pc = "collect" /\ y.data = x.data /\ y.lookups = m
               /\ y.left = n /\ y.decision = x.decision
<1>1. "collect" \in PCs
  BY DEF PCs
<1> QED
  BY <1>1, Zenon DEF ConnStates, Started

LEMMA SetLookup ==
    ASSUME NEW x \in ConnStates, NEW i, NEW v
    PROVE  LET y == [x EXCEPT !.lookups[i] = v]
           IN  /\ y = [x EXCEPT !.lookups = [x.lookups EXCEPT ![i] = v]]
               /\ y.pc = x.pc /\ y.data = x.data
               /\ y.lookups = [x.lookups EXCEPT ![i] = v]
               /\ y.left = x.left /\ y.decision = x.decision
  BY Zenon DEF ConnStates

LEMMA SetAnswer ==
    ASSUME NEW x \in ConnStates, NEW m \in LookupMaps
    PROVE  [x EXCEPT !.lookups = m] \in ConnStates
  BY Zenon DEF ConnStates

LEMMA SetCollected ==
    ASSUME NEW x \in ConnStates, NEW i, NEW d \in Verdicts, x.left - 1 \in Nat,
           [x.lookups EXCEPT ![i] = "done"] \in LookupMaps
    PROVE  LET y == Collected(x, i, d)
           IN  /\ y \in ConnStates
               /\ y.pc = x.pc /\ y.data = x.data
               /\ y.lookups = [x.lookups EXCEPT ![i] = "done"]
               /\ y.left = x.left - 1 /\ y.decision = d
  BY Zenon DEF ConnStates, Collected

LEMMA SetConcluded ==
    ASSUME NEW x \in ConnStates, NEW d \in Verdicts
    PROVE  LET y == Concluded(x, d)
           IN  /\ y \in ConnStates
               /\ y.pc = "write" /\ y.data = x.data /\ y.lookups = x.lookups
               /\ y.left = x.left /\ y.decision = d
<1>1. "write" \in PCs
  BY DEF PCs
<1> QED
  BY <1>1, Zenon DEF ConnStates, Concluded

LEMMA SetWritten ==
    ASSUME NEW x \in ConnStates, NoLookups \in LookupMaps, 0 \in Nat
    PROVE  LET y == Written(x)
           IN  /\ y \in ConnStates
               /\ y.pc = "reading" /\ y.data = x.data /\ y.lookups = NoLookups
               /\ y.left = 0 /\ y.decision = "OK"
<1>1. "reading" \in PCs /\ "OK" \in Verdicts
  BY DEF PCs, Verdicts
<1> QED
  BY <1>1, Zenon DEF ConnStates, Written

-----------------------------------------------------------------------------
(* What a step does to the records of one connection. *)

\* The goroutines of c go on to this state, those of others stay where they are.
Becomes(c, pc, data, lookups, left, decision) ==
    /\ conn' \in [Conns -> ConnStates]
    /\ conn'[c].pc = pc /\ conn'[c].data = data /\ conn'[c].lookups = lookups
    /\ conn'[c].left = left /\ conn'[c].decision = decision
    /\ \A d \in Conns \ {c} : conn'[d] = conn[d]

LEMMA Replaced ==
    ASSUME Types, NEW c \in Conns, NEW y \in ConnStates, conn' = [conn EXCEPT ![c] = y]
    PROVE  Becomes(c, y.pc, y.data, y.lookups, y.left, y.decision)
  BY DEF Types, Becomes

LEMMA PCBecomes ==
    ASSUME Types, NEW c \in Conns, NEW p \in PCs, conn' = [conn EXCEPT ![c].pc = p]
    PROVE  Becomes(c, p, conn[c].data, conn[c].lookups, conn[c].left, conn[c].decision)
<1> DEFINE y == [conn[c] EXCEPT !.pc = p]
<1>1. conn[c] \in ConnStates
  BY DEF Types
<1>2. conn' = [conn EXCEPT ![c] = y]
  OBVIOUS
<1>3. y \in ConnStates
  BY <1>1, SetPC
<1>4. Becomes(c, y.pc, y.data, y.lookups, y.left, y.decision)
  BY <1>2, <1>3, Replaced
<1> QED
  BY <1>1, <1>4, SetPC

LEMMA NoLookupsTyped == NoLookups \in LookupMaps /\ DOMAIN NoLookups = {}
<1>1. NoLookups \in [{} -> LookupStates] /\ {} \in SUBSET Nat
  BY DEF NoLookups
<1> QED
  BY <1>1 DEF LookupMaps

LEMMA ClosedTyped ==
    /\ Closed \in ConnStates
    /\ Closed.pc = "none" /\ Closed.data = NoData /\ Closed.lookups = NoLookups
    /\ Closed.left = 0 /\ Closed.decision = "OK"
    /\ NoData \in Datas /\ NoData.ip = NoIP /\ NoData.xff = <<>>
  BY NoLookupsTyped DEF Closed, ConnStates, PCs, Verdicts, NoData, Datas

LEMMA Answered ==
    ASSUME NEW m \in LookupMaps, NEW i \in DOMAIN m, NEW v \in LookupStates
    PROVE  /\ [m EXCEPT ![i] = v] \in LookupMaps
           /\ DOMAIN [m EXCEPT ![i] = v] = DOMAIN m
           /\ [m EXCEPT ![i] = v][i] = v
           /\ \A j \in DOMAIN m : j # i => [m EXCEPT ![i] = v][j] = m[j]
<1>1. PICK S \in SUBSET Nat : m \in [S -> LookupStates]
  BY DEF LookupMaps
<1>2. [m EXCEPT ![i] = v] \in [S -> LookupStates]
  BY <1>1
<1> QED
  BY <1>1, <1>2 DEF LookupMaps

LEMMA Verdicted == ASSUME NEW ip, NEW fails PROVE Verdict(ip, fails) \in {"OK", "BLOCK"}
  BY DEF Verdict

LEMMA DecisionTyped ==
    ASSUME NEW d \in Verdicts, NEW v \in {"OK", "BLOCK"}
    PROVE  OneBlocks(d, v) \in Verdicts
  BY DEF OneBlocks, Verdicts

\* The positions of a line are finitely many.
LEMMA PositionsFinite ==
    ASSUME NEW d \in Datas
    PROVE  /\ Positions(d) \in SUBSET Nat /\ IsFiniteSet(Positions(d))
           /\ \A S \in SUBSET Positions(d) : IsFiniteSet(S) /\ Cardinality(S) \in Nat
<1>1. Len(d.xff) \in Nat
  BY DEF Datas
<1>2. IsFiniteSet(0..Len(d.xff))
  BY <1>1, FS_Interval
<1>3. Positions(d) \in SUBSET (0..Len(d.xff)) /\ (0..Len(d.xff)) \subseteq Nat
  BY <1>1 DEF Positions
<1>4. \A S \in SUBSET Positions(d) : S \in SUBSET (0..Len(d.xff))
  BY <1>3
<1>5. \A S \in SUBSET Positions(d) : IsFiniteSet(S)
  BY <1>2, <1>4, FS_Subset
<1> QED
  BY <1>3, <1>5, FS_CardinalityType

LEMMA Unmarshals ==
    ASSUME NEW d \in Datas, NEW line \in Lines
    PROVE  Unmarshalled(d, line) \in Datas
<1>1. /\ line.ip \in IPs \cup {NoIP, Omitted, Mistyped}
      /\ line.xff \in Seq(IPs \cup {NoIP}) \cup {Omitted, Mistyped}
      /\ line.cookies \in Seq(Cookies) \cup {Omitted, Mistyped}
  BY LineAssumption
<1>2. d.ip \in IPs \cup {NoIP} /\ d.xff \in Seq(IPs \cup {NoIP}) /\ d.cookies \in Seq(Cookies)
  BY DEF Datas
<1>3. Taken(d.ip, line.ip) \in IPs \cup {NoIP}
  BY <1>1, <1>2 DEF Taken, Missing
<1>4. Taken(d.xff, line.xff) \in Seq(IPs \cup {NoIP})
  BY <1>1, <1>2 DEF Taken, Missing
<1>5. Taken(d.cookies, line.cookies) \in Seq(Cookies)
  BY <1>1, <1>2 DEF Taken, Missing
<1> QED
  BY <1>3, <1>4, <1>5 DEF Unmarshalled, Datas

-----------------------------------------------------------------------------
(* The steps of a connection, field by field. *)

\* Next to conn: c's history, and that of the others stays what it is.
SeenBecomes(c, named, listed, free, failed, valid) ==
    /\ seen' \in [Conns -> SeenStates]
    /\ seen'[c].named = named /\ seen'[c].listed = listed /\ seen'[c].free = free
    /\ seen'[c].failed = failed /\ seen'[c].valid = valid
    /\ \A d \in Conns \ {c} : seen'[d] = seen[d]

LEMMA SeenReplaced ==
    ASSUME Types, NEW c \in Conns, NEW z \in SeenStates, seen' = [seen EXCEPT ![c] = z]
    PROVE  SeenBecomes(c, z.named, z.listed, z.free, z.failed, z.valid)
  BY DEF Types, SeenBecomes

LEMMA SeenFields ==
    ASSUME NEW z \in SeenStates
    PROVE  /\ z.named \subseteq IPs /\ z.listed \subseteq IPs /\ z.free \subseteq IPs
           /\ z.failed \subseteq IPs /\ z.valid \subseteq Cookies
  BY DEF SeenStates

SawNames(z, S) == [z EXCEPT !.named = S]
SawFail(z, S) == [z EXCEPT !.failed = S]
Saw(z, L, F, V) == [z EXCEPT !.listed = L, !.free = F, !.valid = V]

LEMMA SetNamed ==
    ASSUME NEW z \in SeenStates, NEW S \in SUBSET IPs
    PROVE  LET y == SawNames(z, S)
           IN  /\ y \in SeenStates
               /\ y.named = S /\ y.listed = z.listed /\ y.free = z.free
               /\ y.failed = z.failed /\ y.valid = z.valid
  BY Zenon DEF SeenStates, SawNames

LEMMA SetFailed ==
    ASSUME NEW z \in SeenStates, NEW S \in SUBSET IPs
    PROVE  LET y == SawFail(z, S)
           IN  /\ y \in SeenStates
               /\ y.named = z.named /\ y.listed = z.listed /\ y.free = z.free
               /\ y.failed = S /\ y.valid = z.valid
  BY Zenon DEF SeenStates, SawFail

LEMMA SetSeen ==
    ASSUME NEW z \in SeenStates, NEW L \in SUBSET IPs, NEW F \in SUBSET IPs, NEW V \in SUBSET Cookies
    PROVE  LET y == Saw(z, L, F, V)
           IN  /\ y \in SeenStates
               /\ y.named = z.named /\ y.listed = L /\ y.free = F
               /\ y.failed = z.failed /\ y.valid = V
  BY Zenon DEF SeenStates, Saw

LEMMA UnseenTyped ==
    /\ Unseen \in SeenStates /\ Unseen.named = {} /\ Unseen.listed = {}
    /\ Unseen.free = {} /\ Unseen.failed = {} /\ Unseen.valid = {}
  BY DEF Unseen, SeenStates

LEMMA NamedTyped == ASSUME NEW line \in Lines PROVE Named(line) \subseteq IPs
  BY DEF Named

LEMMA DialStep ==
    ASSUME Types, NEW c \in Conns, Dial(c)
    PROVE  /\ Becomes(c, "dialled", conn[c].data, conn[c].lookups, conn[c].left, conn[c].decision)
           /\ seen' = seen
<1>1. "dialled" \in PCs
  BY DEF PCs
<1> QED
  BY <1>1, PCBecomes DEF Dial

LEMMA AcceptStep ==
    ASSUME Types, NEW c \in Conns, Accept(c)
    PROVE  /\ Becomes(c, "reading", conn[c].data, conn[c].lookups, conn[c].left, conn[c].decision)
           /\ seen' = seen
<1>1. "reading" \in PCs
  BY DEF PCs
<1> QED
  BY <1>1, PCBecomes DEF Accept

LEMMA ReadStep ==
    ASSUME Types, NEW c \in Conns, Read(c)
    PROVE  \E line \in Lines :
              /\ Becomes(c, IF Broken(line) THEN "write" ELSE "decide", Unmarshalled(conn[c].data, line),
                         conn[c].lookups, conn[c].left, conn[c].decision)
              /\ SeenBecomes(c, seen[c].named \cup Named(line), seen[c].listed, seen[c].free, seen[c].failed,
                             seen[c].valid)
              /\ inbox' \in [Conns -> Seq(Inputs)]
              /\ \A d \in Conns : Len(inbox'[d]) <= InboxCap
<1> DEFINE line == Head(inbox[c])
           p == IF Broken(line) THEN "write" ELSE "decide"
           y == WithData(conn[c], p, Unmarshalled(conn[c].data, line))
           z == SawNames(seen[c], seen[c].named \cup Named(line))
<1>0. /\ inbox[c] \in Seq(Inputs) /\ inbox[c] # <<>> /\ conn[c] \in ConnStates /\ seen[c] \in SeenStates
      /\ Len(inbox[c]) <= InboxCap /\ line # TooLong
  BY DEF Types, Read
<1>1. line \in Lines /\ Tail(inbox[c]) \in Seq(Inputs) /\ Len(Tail(inbox[c])) <= InboxCap
  <2>1. line \in Inputs /\ Tail(inbox[c]) \in Seq(Inputs) /\ Len(Tail(inbox[c])) <= InboxCap
    BY <1>0, BoundAssumption
  <2> QED
    BY <1>0, <2>1 DEF Inputs
<1>2. p \in PCs /\ conn[c].data \in Datas
  BY <1>0, ConnFields DEF PCs
<1>3. Unmarshalled(conn[c].data, line) \in Datas
  BY <1>1, <1>2, Unmarshals
<1>4. /\ y \in ConnStates
      /\ y.pc = p /\ y.data = Unmarshalled(conn[c].data, line) /\ y.lookups = conn[c].lookups
      /\ y.left = conn[c].left /\ y.decision = conn[c].decision
  BY <1>0, <1>2, <1>3, SetData
<1>5. seen[c].named \cup Named(line) \in SUBSET IPs
  BY <1>0, <1>1, SeenFields, NamedTyped
<1>6. /\ z \in SeenStates
      /\ z.named = seen[c].named \cup Named(line) /\ z.listed = seen[c].listed
      /\ z.free = seen[c].free /\ z.failed = seen[c].failed /\ z.valid = seen[c].valid
  BY <1>0, <1>5, SetNamed
<1>7. conn' = [conn EXCEPT ![c] = y]
  BY Zenon DEF Read, WithData
<1>8. seen' = [seen EXCEPT ![c] = z]
  BY Zenon DEF Read, SawNames
<1>9. inbox' = [inbox EXCEPT ![c] = Tail(inbox[c])]
  BY DEF Read
<1>10. inbox' \in [Conns -> Seq(Inputs)] /\ \A d \in Conns : Len(inbox'[d]) <= InboxCap
  BY <1>1, <1>9 DEF Types
<1>11. Becomes(c, y.pc, y.data, y.lookups, y.left, y.decision)
  BY <1>4, <1>7, Replaced
<1>12. SeenBecomes(c, z.named, z.listed, z.free, z.failed, z.valid)
  BY <1>6, <1>8, SeenReplaced
<1> HIDE DEF line, y, z, p
<1> QED
  BY <1>1, <1>4, <1>6, <1>10, <1>11, <1>12 DEF p

LEMMA StartStep ==
    ASSUME Types, NEW c \in Conns, StartLookups(c)
    PROVE  LET m == [i \in Positions(conn[c].data) |-> "looking"]
               asked == {AddressAt(conn[c].data, i) : i \in Positions(conn[c].data)}
           IN  /\ Becomes(c, "collect", conn[c].data, m, Awaited(conn[c].data), conn[c].decision)
               /\ SeenBecomes(c, seen[c].named, {ip \in asked : ttl[ip] > 0},
                              {ip \in asked : ttl[ip] = 0}, seen[c].failed, Cookies \ lapsed)
<1> DEFINE d == conn[c].data
           m == [i \in Positions(d) |-> "looking"]
           asked == {AddressAt(d, i) : i \in Positions(d)}
           y == Started(conn[c], Awaited(d), m)
           L == {ip \in asked : ttl[ip] > 0}
           F == {ip \in asked : ttl[ip] = 0}
           z == Saw(seen[c], L, F, Cookies \ lapsed)
<1>0. conn[c] \in ConnStates /\ seen[c] \in SeenStates /\ d \in Datas
  BY ConnFields DEF Types
<1>1. Awaited(d) \in Nat
  BY <1>0, PositionsFinite DEF Awaited
<1>2. m \in LookupMaps
  <2>1. m \in [Positions(d) -> LookupStates] /\ Positions(d) \in SUBSET Nat
    BY <1>0, PositionsFinite DEF LookupStates
  <2> QED
    BY <2>1 DEF LookupMaps
<1>3. asked \subseteq IPs
  BY <1>0 DEF Positions, AddressAt, Public, Datas
<1>4. /\ y \in ConnStates
      /\ y.pc = "collect" /\ y.data = d /\ y.lookups = m
      /\ y.left = Awaited(d) /\ y.decision = conn[c].decision
  <2> HIDE DEF m
  <2> QED
    BY <1>0, <1>1, <1>2, SetStart
<1>5. conn' = [conn EXCEPT ![c] = y]
  BY Zenon DEF StartLookups, Started
<1>6. Becomes(c, y.pc, y.data, y.lookups, y.left, y.decision)
  BY <1>4, <1>5, Replaced
<1>7. conn'[c].data = d /\ conn'[c].lookups = m
  BY <1>4, <1>6 DEF Becomes
<1>8. Asked(c)' = asked
  BY <1>7 DEF Asked
<1>9. /\ z \in SeenStates /\ z.named = seen[c].named /\ z.listed = L /\ z.free = F
      /\ z.failed = seen[c].failed /\ z.valid = Cookies \ lapsed
  <2>1. L \in SUBSET IPs /\ F \in SUBSET IPs /\ Cookies \ lapsed \in SUBSET Cookies
    BY <1>3
  <2> HIDE DEF L, F
  <2> QED
    BY <1>0, <2>1, SetSeen
<1>10. seen' = [seen EXCEPT ![c] = z]
  BY <1>8, Zenon DEF StartLookups, Saw
<1>11. SeenBecomes(c, z.named, z.listed, z.free, z.failed, z.valid)
  BY <1>9, <1>10, SeenReplaced
<1> QED
  BY <1>4, <1>6, <1>9, <1>11

LEMMA LookupStep ==
    ASSUME Types, NEW c \in Conns, NEW i, AddressAt(conn[c].data, i) \in IPs, Lookup(c, i)
    PROVE  \E fails \in BOOLEAN :
              /\ Becomes(c, conn[c].pc, conn[c].data,
                         [conn[c].lookups EXCEPT ![i] = Verdict(AddressAt(conn[c].data, i), fails)],
                         conn[c].left, conn[c].decision)
              /\ SeenBecomes(c, seen[c].named, seen[c].listed, seen[c].free,
                             IF fails THEN seen[c].failed \cup {AddressAt(conn[c].data, i)}
                             ELSE seen[c].failed,
                             seen[c].valid)
<1> DEFINE ip == AddressAt(conn[c].data, i)
           v(fails) == Verdict(ip, fails)
           m(fails) == [conn[c].lookups EXCEPT ![i] = v(fails)]
           y(fails) == [conn[c] EXCEPT !.lookups[i] = v(fails)]
           S(fails) == IF fails THEN seen[c].failed \cup {ip} ELSE seen[c].failed
           z == SawFail(seen[c], seen[c].failed \cup {ip})
<1>0. /\ conn[c] \in ConnStates /\ conn[c].lookups \in LookupMaps /\ i \in DOMAIN conn[c].lookups
      /\ seen[c] \in SeenStates
  BY ConnFields DEF Types, Lookup
<1>1. PICK fails \in BOOLEAN :
          /\ conn' = [conn EXCEPT ![c].lookups[i] = v(fails)]
          /\ seen' = IF fails THEN [seen EXCEPT ![c].failed = @ \cup {ip}] ELSE seen
  BY Zenon DEF Lookup
<1>2. v(fails) \in LookupStates
  BY Verdicted DEF LookupStates
<1> HIDE DEF v
<1>3. m(fails) \in LookupMaps
  BY <1>0, <1>2, Answered
<1>4. /\ y(fails) = [conn[c] EXCEPT !.lookups = m(fails)]
      /\ y(fails).pc = conn[c].pc /\ y(fails).data = conn[c].data /\ y(fails).lookups = m(fails)
      /\ y(fails).left = conn[c].left /\ y(fails).decision = conn[c].decision
  BY <1>0, SetLookup
<1>5. y(fails) \in ConnStates
  <2> HIDE DEF m, y
  <2> QED
    BY <1>0, <1>3, <1>4, SetAnswer
<1>6. conn' = [conn EXCEPT ![c] = y(fails)]
  BY <1>1, Zenon
<1>7. Becomes(c, y(fails).pc, y(fails).data, y(fails).lookups, y(fails).left, y(fails).decision)
  BY <1>5, <1>6, Replaced
<1>8. SeenBecomes(c, seen[c].named, seen[c].listed, seen[c].free, S(fails), seen[c].valid)
  <2>1. CASE fails
    <3>1. /\ z \in SeenStates
          /\ z.named = seen[c].named /\ z.listed = seen[c].listed /\ z.free = seen[c].free
          /\ z.failed = seen[c].failed \cup {ip} /\ z.valid = seen[c].valid
      <4>1. seen[c].failed \cup {ip} \in SUBSET IPs
        BY <1>0, SeenFields
      <4> HIDE DEF ip
      <4> QED
        BY <1>0, <4>1, SetFailed
    <3>2. seen' = [seen EXCEPT ![c] = z]
      BY <1>1, <2>1, Zenon DEF SawFail
    <3>3. SeenBecomes(c, z.named, z.listed, z.free, z.failed, z.valid)
      BY <3>1, <3>2, SeenReplaced
    <3> QED
      BY <2>1, <3>1, <3>3
  <2>2. CASE ~fails
    BY <1>0, <1>1, <2>2 DEF SeenBecomes, Types
  <2> QED
    BY <2>1, <2>2
<1>9. Becomes(c, conn[c].pc, conn[c].data, m(fails), conn[c].left, conn[c].decision)
  <2> HIDE DEF m, y
  <2> QED
    BY <1>4, <1>7
<1> QED
  BY <1>8, <1>9 DEF v

LEMMA CollectStep ==
    ASSUME Types, NEW c \in Conns, NEW i, Collect(c, i)
    PROVE  /\ Becomes(c, "collect", conn[c].data, [conn[c].lookups EXCEPT ![i] = "done"],
                      conn[c].left - 1, OneBlocks(conn[c].decision, conn[c].lookups[i]))
           /\ seen' = seen
<1> DEFINE d == OneBlocks(conn[c].decision, conn[c].lookups[i])
           y == Collected(conn[c], i, d)
<1>0. /\ conn[c] \in ConnStates /\ conn[c].lookups \in LookupMaps /\ i \in DOMAIN conn[c].lookups
      /\ conn[c].left \in Nat /\ conn[c].left > 0 /\ conn[c].decision \in Verdicts
      /\ conn[c].pc = "collect"
  BY ConnFields DEF Types, Collect
<1>1. d \in Verdicts
  BY <1>0, DecisionTyped DEF Collect
<1>2. [conn[c].lookups EXCEPT ![i] = "done"] \in LookupMaps
  <2>1. "done" \in LookupStates
    BY DEF LookupStates
  <2> QED
    BY <1>0, <2>1, Answered
<1>3. conn[c].left - 1 \in Nat
  BY <1>0
<1> HIDE DEF d
<1>4. /\ y \in ConnStates
      /\ y.pc = conn[c].pc /\ y.data = conn[c].data
      /\ y.lookups = [conn[c].lookups EXCEPT ![i] = "done"]
      /\ y.left = conn[c].left - 1 /\ y.decision = d
  BY <1>0, <1>1, <1>2, <1>3, SetCollected
<1>5. conn' = [conn EXCEPT ![c] = y]
  BY Zenon DEF Collect, Collected, d
<1>6. Becomes(c, y.pc, y.data, y.lookups, y.left, y.decision)
  BY <1>4, <1>5, Replaced
<1> QED
  BY <1>0, <1>4, <1>6 DEF Collect, d

\* What Conclude decides.
Outcome(c) ==
    IF conn[c].decision = "OK" \/ HasValidCookie(conn[c].data.cookies, Asked(c)) THEN "OK" ELSE "BLOCK"

LEMMA ConcludeStep ==
    ASSUME Types, NEW c \in Conns, Conclude(c)
    PROVE  /\ Becomes(c, "write", conn[c].data, conn[c].lookups, conn[c].left, Outcome(c))
           /\ seen' = seen
<1> DEFINE y == Concluded(conn[c], Outcome(c))
<1>0. conn[c] \in ConnStates /\ Outcome(c) \in Verdicts
  BY DEF Types, Outcome, Verdicts
<1>1. /\ y \in ConnStates
      /\ y.pc = "write" /\ y.data = conn[c].data /\ y.lookups = conn[c].lookups
      /\ y.left = conn[c].left /\ y.decision = Outcome(c)
  BY <1>0, SetConcluded
<1>2. conn' = [conn EXCEPT ![c] = y]
  BY Zenon DEF Conclude, Concluded, Outcome
<1>3. Becomes(c, y.pc, y.data, y.lookups, y.left, y.decision)
  BY <1>1, <1>2, Replaced
<1> QED
  BY <1>1, <1>3 DEF Conclude

LEMMA WriteStep ==
    ASSUME Types, NEW c \in Conns, Write(c)
    PROVE  /\ Becomes(c, "reading", conn[c].data, NoLookups, 0, "OK")
           /\ SeenBecomes(c, seen[c].named, {}, {}, {}, {})
<1> DEFINE y == Written(conn[c])
           z == SawNames(Unseen, seen[c].named)
<1>0. conn[c] \in ConnStates /\ seen[c] \in SeenStates
  BY DEF Types
<1>1. /\ y \in ConnStates
      /\ y.pc = "reading" /\ y.data = conn[c].data /\ y.lookups = NoLookups
      /\ y.left = 0 /\ y.decision = "OK"
  BY <1>0, NoLookupsTyped, SetWritten
<1>2. conn' = [conn EXCEPT ![c] = y]
  BY Zenon DEF Write, Written
<1>3. Becomes(c, y.pc, y.data, y.lookups, y.left, y.decision)
  BY <1>1, <1>2, Replaced
<1>4. /\ z \in SeenStates
      /\ z.named = seen[c].named /\ z.listed = {} /\ z.free = {}
      /\ z.failed = {} /\ z.valid = {}
  BY <1>0, SeenFields, UnseenTyped, SetNamed
<1>5. seen' = [seen EXCEPT ![c] = z]
  BY Zenon DEF Write, SawNames
<1>6. SeenBecomes(c, z.named, z.listed, z.free, z.failed, z.valid)
  BY <1>4, <1>5, SeenReplaced
<1> QED
  BY <1>1, <1>3, <1>4, <1>6

LEMMA EndStep ==
    ASSUME Types, NEW c \in Conns, EndOfInput(c) \/ HangUp(c)
    PROVE  /\ Becomes(c, "none", NoData, NoLookups, 0, "OK")
           /\ SeenBecomes(c, {}, {}, {}, {}, {})
<1>1. conn' = [conn EXCEPT ![c] = Closed] /\ seen' = [seen EXCEPT ![c] = Unseen]
  BY DEF EndOfInput, HangUp
<1>2. Becomes(c, Closed.pc, Closed.data, Closed.lookups, Closed.left, Closed.decision)
  BY <1>1, ClosedTyped, Replaced
<1>3. SeenBecomes(c, Unseen.named, Unseen.listed, Unseen.free, Unseen.failed, Unseen.valid)
  BY <1>1, UnseenTyped, SeenReplaced
<1> QED
  BY <1>2, <1>3, ClosedTyped, UnseenTyped

\* Look-ups are for positions of the line, and there are none, and no verdict, between
\* two decisions.
Shaped(c) ==
    /\ DOMAIN conn[c].lookups \subseteq Positions(conn[c].data)
    /\ conn[c].pc \notin {"collect", "write"} => DOMAIN conn[c].lookups = {} /\ conn[c].decision = "OK"

LEMMA AskedTyped ==
    ASSUME Types, NEW c \in Conns, Shaped(c)
    PROVE  Asked(c) \subseteq IPs
<1>1. DOMAIN conn[c].lookups \subseteq Positions(conn[c].data) /\ conn[c].data \in Datas
  BY ConnFields DEF Types, Shaped
<1> QED
  BY <1>1 DEF Asked, Positions, AddressAt, Public, Datas

\* The list as it is now, for those who decide.
LEMMA SeenStep ==
    ASSUME Types, ttl' \in [IPs -> 0..BlockTTL], Seen, \A c \in Conns : Asked(c) \subseteq IPs
    PROVE  /\ seen' \in [Conns -> SeenStates]
           /\ \A c \in Conns :
                 IF conn[c].pc # "collect" THEN seen'[c] = seen[c]
                 ELSE /\ seen'[c].named = seen[c].named
                      /\ seen'[c].listed = seen[c].listed \cup {ip \in Asked(c) : ttl'[ip] > 0}
                      /\ seen'[c].free = seen[c].free \cup {ip \in Asked(c) : ttl'[ip] = 0}
                      /\ seen'[c].failed = seen[c].failed /\ seen'[c].valid = seen[c].valid
<1> DEFINE L(c) == seen[c].listed \cup {ip \in Asked(c) : ttl'[ip] > 0}
           F(c) == seen[c].free \cup {ip \in Asked(c) : ttl'[ip] = 0}
           now(c) == Saw(seen[c], L(c), F(c), seen[c].valid)
<1>1. ASSUME NEW c \in Conns
      PROVE  /\ now(c) \in SeenStates
             /\ now(c).named = seen[c].named /\ now(c).listed = L(c)
             /\ now(c).free = F(c) /\ now(c).failed = seen[c].failed
             /\ now(c).valid = seen[c].valid
  <2>1. seen[c] \in SeenStates
    BY DEF Types
  <2>2. L(c) \in SUBSET IPs /\ F(c) \in SUBSET IPs /\ seen[c].valid \in SUBSET Cookies
    BY <2>1, SeenFields
  <2> HIDE DEF L, F
  <2> QED
    BY <2>1, <2>2, SetSeen
<1>2. ASSUME NEW c \in Conns, conn[c].pc = "collect"
      PROVE  seen'[c] = [seen[c] EXCEPT !.listed = L(c), !.free = F(c)]
  BY <1>2 DEF Seen
<1>3. ASSUME NEW c \in Conns
      PROVE  [seen[c] EXCEPT !.listed = L(c), !.free = F(c)] = now(c)
  <2>1. seen[c] \in SeenStates
    BY DEF Types
  <2> HIDE DEF L, F
  <2> QED
    BY <2>1, Zenon DEF Saw, SeenStates
<1>4. ASSUME NEW c \in Conns, conn[c].pc # "collect"
      PROVE  seen'[c] = seen[c]
  BY <1>4 DEF Seen
<1>5. seen' = [c \in Conns |-> seen'[c]]
  BY DEF Seen
<1> HIDE DEF now, L, F
<1>6. ASSUME NEW c \in Conns
      PROVE  seen'[c] \in SeenStates
  <2>1. CASE conn[c].pc = "collect"
    BY <1>1, <1>2, <1>3, <2>1
  <2>2. CASE conn[c].pc # "collect"
    BY <1>4, <2>2 DEF Types
  <2> QED
    BY <2>1, <2>2
<1>7. seen' \in [Conns -> SeenStates]
  BY <1>5, <1>6
<1>8. ASSUME NEW c \in Conns, conn[c].pc = "collect"
      PROVE  seen'[c] = now(c)
  BY <1>2, <1>3, <1>8
<1> QED
  BY <1>1, <1>4, <1>7, <1>8 DEF L, F

LEMMA ListStep ==
    ASSUME Types, ListChanges
    PROVE  ttl' \in [IPs -> 0..BlockTTL]
<1>1. BlockTTL \in 0..BlockTTL /\ 0 \in 0..BlockTTL
  BY BoundAssumption
<1>2. CASE BlockedIPs!Elapse
  <2>1. \A ip \in IPs : (IF ttl[ip] > 0 THEN ttl[ip] - 1 ELSE 0) \in 0..BlockTTL
    BY BoundAssumption DEF Types
  <2> QED
    BY <1>2, <2>1 DEF BlockedIPs!Elapse
<1>3. CASE \E ip \in IPs : BlockedIPs!Enter(ip) \/ BlockedIPs!Remove(ip)
  BY <1>1, <1>3 DEF BlockedIPs!Enter, BlockedIPs!Remove, Types
<1> QED
  BY <1>2, <1>3 DEF ListChanges

LEMMA CloseStep ==
    ASSUME Types, CloseListener
    PROVE  /\ conn' \in [Conns -> ConnStates] /\ seen' = seen
           /\ \A c \in Conns : conn'[c] = IF conn[c].pc = "dialled" THEN Closed ELSE conn[c]
           /\ inbox' \in [Conns -> Seq(Inputs)] /\ \A c \in Conns : Len(inbox'[c]) <= InboxCap
<1>1. conn' \in [Conns -> ConnStates]
  BY ClosedTyped DEF CloseListener, Types
<1>2. inbox' \in [Conns -> Seq(Inputs)]
  BY DEF CloseListener, Types
<1>3. \A c \in Conns : Len(inbox'[c]) <= InboxCap
  <2>1. Len(<<>>) <= InboxCap
    BY BoundAssumption
  <2> QED
    BY <2>1 DEF CloseListener, Types
<1> QED
  BY <1>1, <1>2, <1>3 DEF CloseListener

\* Nothing is left of a process that dies.
LEMMA ExitStep ==
    ASSUME Types, Exit
    PROVE  /\ Types'
           /\ \A c \in Conns : conn'[c] = Closed /\ seen'[c] = Unseen
<1>1. conn' \in [Conns -> ConnStates] /\ seen' \in [Conns -> SeenStates]
  BY ClosedTyped, UnseenTyped DEF Exit
<1>2. inbox' \in [Conns -> Seq(Inputs)] /\ \A c \in Conns : Len(inbox'[c]) <= InboxCap
  BY BoundAssumption DEF Exit
<1> QED
  BY <1>1, <1>2 DEF Exit, Types

LEMMA SendTyped ==
    ASSUME Types, NEW c \in Conns, NEW line \in Inputs, SendLine(c, line)
    PROVE  Types'
<1>1. inbox[c] \in Seq(Inputs) /\ Len(inbox[c]) < InboxCap
  BY DEF Types, SendLine
<1>2. Append(inbox[c], line) \in Seq(Inputs) /\ Len(Append(inbox[c], line)) <= InboxCap
  BY <1>1, BoundAssumption
<1>3. inbox' \in [Conns -> Seq(Inputs)] /\ \A d \in Conns : Len(inbox'[d]) <= InboxCap
  BY <1>2 DEF Types, SendLine
<1>4. sent' \in 0..MaxLines
  BY BoundAssumption DEF Types, SendLine
<1> QED
  BY <1>3, <1>4 DEF Types, SendLine, worldVars, acceptVars

-----------------------------------------------------------------------------
(* Types and shape are kept. *)

Formed == Types /\ \A c \in Conns : Shaped(c)

LEMMA InitFormed == Init => Formed
<1> SUFFICES ASSUME Init
             PROVE  Formed
  OBVIOUS
<1>1. ttl \in [IPs -> 0..BlockTTL] /\ late \in Nat /\ sent \in 0..MaxLines
  BY BoundAssumption DEF Init
<1>2. inbox \in [Conns -> Seq(Inputs)] /\ \A c \in Conns : Len(inbox[c]) <= InboxCap
  BY BoundAssumption DEF Init
<1>3. conn \in [Conns -> ConnStates] /\ seen \in [Conns -> SeenStates]
  BY ClosedTyped, UnseenTyped DEF Init
<1>4. \A c \in Conns : Shaped(c)
  BY ClosedTyped, NoLookupsTyped DEF Init, Shaped
<1> QED
  BY <1>1, <1>2, <1>3, <1>4 DEF Init, Formed, Types

\* A connection that a step leaves alone.
LEMMA ShapeFrame ==
    ASSUME NEW c \in Conns, Shaped(c), conn'[c] = conn[c]
    PROVE  Shaped(c)'
  BY DEF Shaped

\* The shape of the connection that makes the step is enough.
LEMMA FormedAfter ==
    ASSUME Formed, NEW c \in Conns, Types',
           \A d \in Conns \ {c} : conn'[d] = conn[d], Shaped(c)'
    PROVE  Formed'
<1>1. ASSUME NEW d \in Conns
      PROVE  Shaped(d)'
  <2>1. CASE d = c
    BY <2>1
  <2>2. CASE d # c
    BY <2>2, ShapeFrame DEF Formed
  <2> QED
    BY <2>1, <2>2
<1> QED
  BY <1>1 DEF Formed

LEMMA WorldFormed ==
    ASSUME Formed, World
    PROVE  Formed'
<1>1. CASE ListChanges
  <2>1. Types /\ \A c \in Conns : Asked(c) \subseteq IPs
    BY AskedTyped DEF Formed
  <2>2. ttl' \in [IPs -> 0..BlockTTL] /\ Seen
    BY <1>1, <2>1, ListStep DEF ListChanges
  <2>3. seen' \in [Conns -> SeenStates]
    BY <2>1, <2>2, SeenStep
  <2>4. conn' = conn /\ UNCHANGED <<lapsed, cancelled, storeOpen, acceptVars, clientVars>>
    BY <1>1 DEF ListChanges
  <2>5. Types'
    BY <2>1, <2>2, <2>3, <2>4 DEF Types, acceptVars, clientVars
  <2>6. \A c \in Conns : Shaped(c)'
    BY <2>4, ShapeFrame DEF Formed
  <2> QED
    BY <2>5, <2>6 DEF Formed
<1>2. ASSUME NEW k \in Cookies, Lapse(k)
      PROVE  Formed'
  <2>1. conn' = conn /\ \A c \in Conns : Shaped(c)'
    BY <1>2, ShapeFrame DEF Lapse, Formed
  <2> QED
    BY <1>2, <2>1 DEF Formed, Lapse, Types, acceptVars, clientVars
<1>3. CASE Cancel \/ CloseStore
  <2>1. conn' = conn /\ \A c \in Conns : Shaped(c)'
    BY <1>3, ShapeFrame DEF Cancel, CloseStore, Formed
  <2> QED
    BY <1>3, <2>1 DEF Formed, Cancel, CloseStore, Types, acceptVars, clientVars
<1> QED
  BY <1>1, <1>2, <1>3 DEF World

LEMMA ExitFormed ==
    ASSUME Formed, Exit
    PROVE  Formed'
<1>1. Types' /\ \A c \in Conns : conn'[c] = Closed
  BY ExitStep DEF Formed
<1> QED
  BY <1>1, ClosedTyped, NoLookupsTyped DEF Formed, Shaped

LEMMA AcceptingFormed ==
    ASSUME Formed, Accepting
    PROVE  Formed'
<1>0. Types
  BY DEF Formed
<1>1. CASE StartAccept
  <2>1. conn' = conn /\ \A c \in Conns : Shaped(c)'
    BY <1>1, ShapeFrame DEF StartAccept, Formed
  <2> QED
    BY <1>1, <2>1 DEF Formed, StartAccept, Types, worldVars, clientVars
<1>2. CASE CloseListener
  <2>1. Types'
    BY <1>0, <1>2, CloseStep DEF CloseListener, Types, worldVars
  <2>2. ASSUME NEW c \in Conns
        PROVE  Shaped(c)'
    <3>1. CASE conn[c].pc = "dialled"
      <4>1. conn'[c] = Closed
        BY <1>0, <1>2, <3>1, CloseStep
      <4> QED
        BY <4>1, ClosedTyped, NoLookupsTyped DEF Shaped
    <3>2. CASE conn[c].pc # "dialled"
      <4>1. conn'[c] = conn[c]
        BY <1>0, <1>2, <3>2, CloseStep
      <4> QED
        BY <4>1, ShapeFrame DEF Formed
    <3> QED
      BY <3>1, <3>2
  <2> QED
    BY <2>1, <2>2 DEF Formed
<1>3. ASSUME NEW c \in Conns, Accept(c)
      PROVE  Formed'
  <2>1. /\ Becomes(c, "reading", conn[c].data, conn[c].lookups, conn[c].left, conn[c].decision)
        /\ seen' = seen /\ conn[c].pc = "dialled"
    BY <1>0, <1>3, AcceptStep DEF Accept
  <2>2. listener' \in {"select", "accept", "closed", "dead"} /\ late' \in Nat /\ UNCHANGED <<worldVars, clientVars>>
    BY <1>0, <1>3 DEF Accept, AfterAccept, Types
  <2>3. Types'
    BY <1>0, <2>1, <2>2 DEF Types, Becomes, worldVars, clientVars
  <2>4. Shaped(c)'
    BY <2>1 DEF Formed, Shaped, Becomes
  <2> QED
    BY <2>1, <2>3, <2>4, FormedAfter DEF Becomes
<1>4. CASE AcceptFails
  BY <1>4, ExitFormed DEF AcceptFails
<1> QED
  BY <1>1, <1>2, <1>3, <1>4 DEF Accepting

LEMMA WebServerFormed ==
    ASSUME Formed, NEW c \in Conns, WebServer(c)
    PROVE  Formed'
<1>0. Types
  BY DEF Formed
<1>1. CASE Dial(c)
  <2>1. /\ Becomes(c, "dialled", conn[c].data, conn[c].lookups, conn[c].left, conn[c].decision)
        /\ seen' = seen /\ conn[c].pc = "none" /\ UNCHANGED <<worldVars, acceptVars, clientVars>>
    BY <1>0, <1>1, DialStep DEF Dial
  <2>2. Types'
    BY <1>0, <2>1 DEF Types, Becomes, worldVars, acceptVars, clientVars
  <2>3. Shaped(c)'
    BY <2>1 DEF Formed, Shaped, Becomes
  <2> QED
    BY <2>1, <2>2, <2>3, FormedAfter DEF Becomes
<1>2. CASE EndOfInput(c)
  <2>1. /\ Becomes(c, "none", NoData, NoLookups, 0, "OK")
        /\ SeenBecomes(c, {}, {}, {}, {}, {}) /\ UNCHANGED <<worldVars, acceptVars, clientVars>>
    BY <1>0, <1>2, EndStep DEF EndOfInput
  <2>2. Types'
    BY <1>0, <2>1 DEF Types, Becomes, SeenBecomes, worldVars, acceptVars, clientVars
  <2>3. Shaped(c)'
    BY <2>1, NoLookupsTyped DEF Shaped, Becomes
  <2> QED
    BY <2>1, <2>2, <2>3, FormedAfter DEF Becomes
<1>3. ASSUME NEW line \in Inputs, SendLine(c, line)
      PROVE  Formed'
  <2>1. conn' = conn /\ \A d \in Conns : Shaped(d)'
    BY <1>3, ShapeFrame DEF SendLine, Formed
  <2> QED
    BY <1>0, <1>3, <2>1, SendTyped DEF Formed
<1> QED
  BY <1>1, <1>2, <1>3 DEF WebServer

LEMMA ServeFormed ==
    ASSUME Formed, NEW c \in Conns, Serve(c) \/ Lookups(c)
    PROVE  Formed'
<1>0. Types /\ Shaped(c) /\ conn[c].lookups \in LookupMaps
  BY ConnFields DEF Formed, Types
<1>1. CASE Read(c)
  <2>1. PICK line \in Lines :
              /\ Becomes(c, IF Broken(line) THEN "write" ELSE "decide", Unmarshalled(conn[c].data, line),
                         conn[c].lookups, conn[c].left, conn[c].decision)
              /\ SeenBecomes(c, seen[c].named \cup Named(line), seen[c].listed, seen[c].free, seen[c].failed,
                             seen[c].valid)
              /\ inbox' \in [Conns -> Seq(Inputs)]
              /\ \A d \in Conns : Len(inbox'[d]) <= InboxCap
    BY <1>0, <1>1, ReadStep
  <2>2. conn[c].pc = "reading" /\ UNCHANGED <<worldVars, acceptVars, sent>>
    BY <1>1 DEF Read
  <2>3. Types'
    BY <1>0, <2>1, <2>2 DEF Types, Becomes, SeenBecomes, worldVars, acceptVars
  <2>4. Shaped(c)'
    BY <1>0, <2>1, <2>2 DEF Shaped, Becomes
  <2> QED
    BY <2>1, <2>3, <2>4, FormedAfter DEF Becomes
<1>2. CASE StartLookups(c)
  <2> DEFINE m == [i \in Positions(conn[c].data) |-> "looking"]
             asked == {AddressAt(conn[c].data, i) : i \in Positions(conn[c].data)}
             L == {ip \in asked : ttl[ip] > 0}
             F == {ip \in asked : ttl[ip] = 0}
  <2>0. DOMAIN m = Positions(conn[c].data)
    OBVIOUS
  <2>1. /\ Becomes(c, "collect", conn[c].data, m, Awaited(conn[c].data), conn[c].decision)
        /\ SeenBecomes(c, seen[c].named, L, F, seen[c].failed, Cookies \ lapsed)
    BY <1>0, <1>2, StartStep
  <2> HIDE DEF m, L, F
  <2>2. UNCHANGED <<worldVars, acceptVars, clientVars>>
    BY <1>2 DEF StartLookups
  <2>3. Types'
    BY <1>0, <2>1, <2>2 DEF Types, Becomes, SeenBecomes, worldVars, acceptVars, clientVars
  <2>4. Shaped(c)'
    BY <2>0, <2>1 DEF Shaped, Becomes
  <2> QED
    BY <2>1, <2>3, <2>4, FormedAfter DEF Becomes
<1>3. ASSUME NEW i \in DOMAIN conn[c].lookups, Lookup(c, i) \/ Collect(c, i)
      PROVE  Formed'
  <2>1. /\ \E m, n, d :
              /\ Becomes(c, conn[c].pc, conn[c].data, m, n, d)
              /\ DOMAIN m = DOMAIN conn[c].lookups
              /\ conn[c].pc \notin {"collect", "write"} => d = conn[c].decision
        /\ seen' \in [Conns -> SeenStates]
    <3>1. ASSUME NEW v
          PROVE  DOMAIN [conn[c].lookups EXCEPT ![i] = v] = DOMAIN conn[c].lookups
      OBVIOUS
    <3>2. CASE Lookup(c, i)
      <4> DEFINE m(fails) == [conn[c].lookups EXCEPT ![i] = Verdict(AddressAt(conn[c].data, i), fails)]
      <4>1. AddressAt(conn[c].data, i) \in IPs
        BY <1>0, AskedTyped DEF Asked
      <4>2. /\ \E fails \in BOOLEAN :
                  Becomes(c, conn[c].pc, conn[c].data, m(fails), conn[c].left, conn[c].decision)
            /\ seen' \in [Conns -> SeenStates]
        BY <1>0, <3>2, <4>1, LookupStep DEF SeenBecomes
      <4>3. \A fails \in BOOLEAN : DOMAIN m(fails) = DOMAIN conn[c].lookups
        BY <3>1
      <4> HIDE DEF m
      <4> QED
        BY <4>2, <4>3
    <3>3. CASE Collect(c, i)
      <4> DEFINE m == [conn[c].lookups EXCEPT ![i] = "done"]
                 d == OneBlocks(conn[c].decision, conn[c].lookups[i])
      <4>1. Becomes(c, "collect", conn[c].data, m, conn[c].left - 1, d) /\ seen' = seen
        BY <1>0, <3>3, CollectStep
      <4>2. DOMAIN m = DOMAIN conn[c].lookups /\ conn[c].pc = "collect"
        BY <3>1, <3>3 DEF Collect
      <4> HIDE DEF m, d
      <4> QED
        BY <1>0, <4>1, <4>2 DEF Types
    <3> QED
      BY <1>3, <3>2, <3>3
  <2>2. UNCHANGED <<worldVars, acceptVars, clientVars>>
    BY <1>3 DEF Lookup, Collect
  <2>3. conn' \in [Conns -> ConnStates]
    BY <2>1 DEF Becomes
  <2>4. Types'
    BY <1>0, <2>1, <2>2, <2>3 DEF Types, worldVars, acceptVars, clientVars
  <2>5. Shaped(c)' /\ \A d \in Conns \ {c} : conn'[d] = conn[d]
    BY <1>0, <2>1 DEF Shaped, Becomes
  <2> QED
    BY <2>4, <2>5, FormedAfter
<1>4. CASE Conclude(c)
  <2>1. /\ Becomes(c, "write", conn[c].data, conn[c].lookups, conn[c].left, Outcome(c))
        /\ seen' = seen /\ UNCHANGED <<worldVars, acceptVars, clientVars>>
    BY <1>0, <1>4, ConcludeStep DEF Conclude
  <2>2. Types'
    BY <1>0, <2>1 DEF Types, Becomes, worldVars, acceptVars, clientVars
  <2>3. Shaped(c)'
    BY <1>0, <2>1 DEF Shaped, Becomes
  <2> QED
    BY <2>1, <2>2, <2>3, FormedAfter DEF Becomes
<1>5. CASE Write(c)
  <2>1. /\ Becomes(c, "reading", conn[c].data, NoLookups, 0, "OK")
        /\ SeenBecomes(c, seen[c].named, {}, {}, {}, {}) /\ UNCHANGED <<worldVars, acceptVars, clientVars>>
    BY <1>0, <1>5, WriteStep DEF Write
  <2>2. Types'
    BY <1>0, <2>1 DEF Types, Becomes, SeenBecomes, worldVars, acceptVars, clientVars
  <2>3. Shaped(c)'
    BY <2>1, NoLookupsTyped DEF Shaped, Becomes
  <2> QED
    BY <2>1, <2>2, <2>3, FormedAfter DEF Becomes
<1>6. CASE HangUp(c)
  <2>1. /\ Becomes(c, "none", NoData, NoLookups, 0, "OK")
        /\ SeenBecomes(c, {}, {}, {}, {}, {}) /\ UNCHANGED <<worldVars, acceptVars, sent>>
    BY <1>0, <1>6, EndStep DEF HangUp
  <2>2. inbox' \in [Conns -> Seq(Inputs)] /\ \A d \in Conns : Len(inbox'[d]) <= InboxCap
    BY <1>0, <1>6, BoundAssumption DEF HangUp, Types
  <2>3. Types'
    BY <1>0, <2>1, <2>2 DEF Types, Becomes, SeenBecomes, worldVars, acceptVars
  <2>4. Shaped(c)'
    BY <2>1, NoLookupsTyped DEF Shaped, Becomes
  <2> QED
    BY <2>1, <2>3, <2>4, FormedAfter DEF Becomes
<1>7. CASE Panic(c)
  BY <1>7, ExitFormed DEF Panic
<1> QED
  BY <1>1, <1>2, <1>3, <1>4, <1>5, <1>6, <1>7 DEF Serve, Lookups

LEMMA FormedStep == Formed /\ [Next]_vars => Formed'
<1> SUFFICES ASSUME Formed, [Next]_vars
             PROVE  Formed'
  OBVIOUS
<1>1. CASE UNCHANGED vars
  <2>1. \A c \in Conns : Shaped(c)'
    BY <1>1, ShapeFrame DEF vars, Formed
  <2> QED
    BY <1>1, <2>1 DEF vars, Formed, Types
<1>2. CASE World \/ Accepting
  BY <1>2, WorldFormed, AcceptingFormed
<1>3. CASE \E c \in Conns : WebServer(c) \/ Serve(c) \/ Lookups(c)
  BY <1>3, WebServerFormed, ServeFormed
<1> QED
  BY <1>1, <1>2, <1>3 DEF Next

LEMMA FormedTyped == Formed => TypeOK
<1> SUFFICES ASSUME Formed
             PROVE  TypeOK
  OBVIOUS
<1>1. ASSUME NEW c \in Conns
      PROVE  /\ conn[c].pc \in PCs /\ conn[c].data \in Datas /\ conn[c].lookups \in LookupMaps
             /\ conn[c].left \in Nat /\ conn[c].decision \in Verdicts
             /\ DOMAIN conn[c].lookups \subseteq Positions(conn[c].data)
  BY ConnFields DEF Formed, Types, Shaped
<1>2. ASSUME NEW m \in LookupMaps, NEW i \in DOMAIN m
      PROVE  m[i] \in LookupStates
  BY DEF LookupMaps
<1>3. \A c \in Conns : \A i \in DOMAIN conn[c].lookups : conn[c].lookups[i] \in LookupStates
  BY <1>1, <1>2
<1> QED
  BY <1>1, <1>3 DEF Formed, Types, TypeOK, PCs, Datas, LookupStates, Verdicts

\* The types of the variables, for every number of connections and lines: a field that
\* a line leaves out or cannot fill is never taken over (serve, decide).
THEOREM Typing == Spec => []TypeOK
<1>1. Spec => []Formed
  BY InitFormed, FormedStep, PTL DEF Spec
<1> QED
  BY <1>1, FormedTyped, PTL

-----------------------------------------------------------------------------
(* Why an answer is what it is. *)

Waiting(c) == {i \in DOMAIN conn[c].lookups : conn[c].lookups[i] # "done"}

\* decide waits for as many answers as there are.
Counted(c) ==
    IF conn[c].pc = "collect" THEN conn[c].left = Cardinality(Waiting(c)) ELSE Waiting(c) = {}

\* What the connection holds has been named on it.
Remembered(c) ==
    /\ {conn[c].data.ip} \cap IPs \subseteq seen[c].named
    /\ Elems(conn[c].data.xff) \cap (IPs \ Private) \subseteq seen[c].named

\* What the answers that are there, or have been received, stand for.
Evidence(c) ==
    conn[c].pc = "collect" =>
        /\ \A ip \in Asked(c) : /\ ttl[ip] > 0 => ip \in seen[c].listed
                                /\ ttl[ip] = 0 => ip \in seen[c].free
        /\ seen[c].listed \subseteq Asked(c)
        /\ \A i \in DOMAIN conn[c].lookups :
              conn[c].lookups[i] = "BLOCK" => AddressAt(conn[c].data, i) \in seen[c].listed
        /\ \A i \in DOMAIN conn[c].lookups :
              conn[c].lookups[i] = "OK" \/ (conn[c].lookups[i] = "done" /\ conn[c].decision = "OK") =>
                  AddressAt(conn[c].data, i) \in seen[c].free \cup seen[c].failed
        /\ conn[c].decision = "BLOCK" => seen[c].listed # {}
        /\ Cookies \ lapsed \subseteq seen[c].valid

GoodCookie(c) ==
    \E k \in Elems(conn[c].data.cookies) :
        ~KeyIs32 \/ (k \in seen[c].valid /\ CookieOf[k].secret /\ Names(k, Asked(c)))

\* What the answer that is being written stands for.
Reasons(c) ==
    conn[c].pc = "write" =>
        /\ conn[c].decision = "BLOCK" => seen[c].listed \cap seen[c].named # {}
        /\ conn[c].decision = "OK" =>
              Asked(c) \subseteq seen[c].free \cup seen[c].failed \/ GoodCookie(c)

Sound(c) == Counted(c) /\ Remembered(c) /\ Evidence(c) /\ Reasons(c)

\* Sound stays for a connection that a step leaves alone, whatever lapses.
LEMMA SoundStays ==
    ASSUME NEW c \in Conns, Sound(c), conn'[c] = conn[c], seen'[c] = seen[c],
           ttl' = ttl, lapsed \subseteq lapsed'
    PROVE  Sound(c)'
<1>1. Asked(c)' = Asked(c) /\ Waiting(c)' = Waiting(c) /\ GoodCookie(c)' = GoodCookie(c)
  BY DEF Asked, Waiting, GoodCookie, Names
<1>2. Counted(c)' /\ Remembered(c)' /\ Reasons(c)'
  BY <1>1 DEF Sound, Counted, Remembered, Reasons
<1>3. Evidence(c)'
  BY <1>1 DEF Sound, Evidence
<1> QED
  BY <1>2, <1>3 DEF Sound

\* A connection without look-ups and verdict has nothing to justify.
LEMMA SoundIdle ==
    ASSUME NEW c \in Conns, conn'[c].pc # "collect", DOMAIN conn'[c].lookups = {},
           conn'[c].decision = "OK", Remembered(c)'
    PROVE  Sound(c)'
<1>1. Waiting(c)' = {} /\ Asked(c)' = {}
  BY DEF Waiting, Asked
<1> QED
  BY <1>1 DEF Sound, Counted, Evidence, Reasons

LEMMA ListSound ==
    ASSUME Formed, \A c \in Conns : Sound(c), ListChanges
    PROVE  \A c \in Conns : Sound(c)'
<1> SUFFICES ASSUME NEW c \in Conns
             PROVE  Sound(c)'
  OBVIOUS
<1>0. Types /\ \A d \in Conns : Asked(d) \subseteq IPs
  BY AskedTyped DEF Formed
<1>1. ttl' \in [IPs -> 0..BlockTTL] /\ Seen /\ conn' = conn /\ lapsed' = lapsed
  BY <1>0, ListStep DEF ListChanges
<1>2. IF conn[c].pc # "collect" THEN seen'[c] = seen[c]
      ELSE /\ seen'[c].named = seen[c].named
           /\ seen'[c].listed = seen[c].listed \cup {ip \in Asked(c) : ttl'[ip] > 0}
           /\ seen'[c].free = seen[c].free \cup {ip \in Asked(c) : ttl'[ip] = 0}
           /\ seen'[c].failed = seen[c].failed /\ seen'[c].valid = seen[c].valid
  BY <1>0, <1>1, SeenStep
<1>3. Asked(c)' = Asked(c) /\ Waiting(c)' = Waiting(c)
  BY <1>1 DEF Asked, Waiting
<1>4. CASE conn[c].pc # "collect"
  <2>1. GoodCookie(c)' = GoodCookie(c)
    BY <1>1, <1>2, <1>3, <1>4 DEF GoodCookie, Names
  <2> QED
    BY <1>1, <1>2, <1>3, <1>4, <2>1 DEF Sound, Counted, Remembered, Evidence, Reasons
<1>5. CASE conn[c].pc = "collect"
  <2>1. Counted(c)' /\ Remembered(c)' /\ Reasons(c)'
    BY <1>1, <1>2, <1>3, <1>5 DEF Sound, Counted, Remembered, Reasons
  <2>2. Evidence(c)'
    BY <1>1, <1>2, <1>3, <1>5 DEF Sound, Evidence
  <2> QED
    BY <2>1, <2>2 DEF Sound
<1> QED
  BY <1>4, <1>5

LEMMA ReadSound ==
    ASSUME Formed, NEW c \in Conns, Sound(c), Read(c)
    PROVE  Sound(c)'
<1>0. Types /\ Shaped(c) /\ conn[c].pc = "reading" /\ Remembered(c)
  BY DEF Formed, Sound, Read
<1>1. PICK line \in Lines :
          /\ Becomes(c, IF Broken(line) THEN "write" ELSE "decide", Unmarshalled(conn[c].data, line),
                     conn[c].lookups, conn[c].left, conn[c].decision)
          /\ SeenBecomes(c, seen[c].named \cup Named(line), seen[c].listed, seen[c].free, seen[c].failed,
                             seen[c].valid)
  BY <1>0, ReadStep
<1>2. /\ conn'[c].pc # "collect" /\ DOMAIN conn'[c].lookups = {} /\ conn'[c].decision = "OK"
      /\ conn'[c].data = Unmarshalled(conn[c].data, line)
      /\ seen'[c].named = seen[c].named \cup Named(line)
  BY <1>0, <1>1 DEF Becomes, SeenBecomes, Shaped
<1>3. /\ conn'[c].data.ip = Taken(conn[c].data.ip, line.ip)
      /\ conn'[c].data.xff = Taken(conn[c].data.xff, line.xff)
  BY <1>2 DEF Unmarshalled
<1>4. Remembered(c)'
  BY <1>0, <1>2, <1>3 DEF Remembered, Taken, Named
<1> QED
  BY <1>2, <1>4, SoundIdle

LEMMA StartSound ==
    ASSUME Formed, NEW c \in Conns, Sound(c), StartLookups(c)
    PROVE  Sound(c)'
<1> DEFINE d == conn[c].data
           m == [i \in Positions(d) |-> "looking"]
           asked == {AddressAt(d, i) : i \in Positions(d)}
           L == {ip \in asked : ttl[ip] > 0}
           F == {ip \in asked : ttl[ip] = 0}
<1>0. Types /\ Shaped(c) /\ conn[c].pc = "decide" /\ Remembered(c) /\ UNCHANGED <<ttl, lapsed>>
  BY DEF Formed, Sound, StartLookups, worldVars
<1>1. /\ Becomes(c, "collect", d, m, Awaited(d), conn[c].decision)
      /\ SeenBecomes(c, seen[c].named, L, F, seen[c].failed, Cookies \ lapsed)
  BY <1>0, StartStep
<1>2. /\ conn'[c].pc = "collect" /\ conn'[c].data = d /\ conn'[c].lookups = m
      /\ conn'[c].left = Awaited(d) /\ conn'[c].decision = "OK"
  BY <1>0, <1>1 DEF Becomes, Shaped
<1>3. /\ seen'[c].named = seen[c].named /\ seen'[c].listed = L /\ seen'[c].free = F
      /\ seen'[c].valid = Cookies \ lapsed
  BY <1>1 DEF SeenBecomes
<1>4. Waiting(c)' = Positions(d) /\ Asked(c)' = asked
  BY <1>2 DEF Waiting, Asked
<1>5. Counted(c)'
  BY <1>2, <1>4 DEF Counted, Awaited
<1>6. Remembered(c)' /\ Reasons(c)'
  BY <1>0, <1>2, <1>3 DEF Remembered, Reasons
<1>7. \A i \in DOMAIN conn'[c].lookups : conn'[c].lookups[i] = "looking"
  BY <1>2
<1>8. Evidence(c)'
  BY <1>0, <1>2, <1>3, <1>4, <1>7 DEF Evidence
<1> QED
  BY <1>5, <1>6, <1>8 DEF Sound

LEMMA LookupSound ==
    ASSUME Formed, NEW c \in Conns, Sound(c), NEW i \in DOMAIN conn[c].lookups, Lookup(c, i)
    PROVE  /\ Sound(c)'
           /\ \A d \in Conns \ {c} : conn'[d] = conn[d] /\ seen'[d] = seen[d]
<1> DEFINE ip == AddressAt(conn[c].data, i)
           m(fails) == [conn[c].lookups EXCEPT ![i] = Verdict(ip, fails)]
           S(fails) == IF fails THEN seen[c].failed \cup {ip} ELSE seen[c].failed
<1>0. /\ Types /\ conn[c].lookups \in LookupMaps /\ ip \in Asked(c) /\ Asked(c) \subseteq IPs
      /\ conn[c].lookups[i] = "looking" /\ UNCHANGED <<ttl, lapsed>>
  BY AskedTyped, ConnFields DEF Formed, Types, Lookup, worldVars, Asked
<1>1. PICK fails \in BOOLEAN :
          /\ Becomes(c, conn[c].pc, conn[c].data, m(fails), conn[c].left, conn[c].decision)
          /\ SeenBecomes(c, seen[c].named, seen[c].listed, seen[c].free, S(fails), seen[c].valid)
  BY <1>0, LookupStep
<1> DEFINE v == Verdict(ip, fails)
<1>2. /\ conn'[c].pc = conn[c].pc /\ conn'[c].data = conn[c].data /\ conn'[c].lookups = m(fails)
      /\ conn'[c].left = conn[c].left /\ conn'[c].decision = conn[c].decision
  BY <1>1 DEF Becomes
<1>3. v \in {"OK", "BLOCK"} /\ v \in LookupStates
  BY Verdicted DEF LookupStates
<1>4. /\ DOMAIN m(fails) = DOMAIN conn[c].lookups /\ m(fails)[i] = v
      /\ \A j \in DOMAIN conn[c].lookups : j # i => m(fails)[j] = conn[c].lookups[j]
  BY <1>0, <1>3, Answered
<1>5. /\ seen'[c].named = seen[c].named /\ seen'[c].listed = seen[c].listed
      /\ seen'[c].free = seen[c].free /\ seen'[c].valid = seen[c].valid
      /\ seen[c].failed \subseteq seen'[c].failed /\ (fails => ip \in seen'[c].failed)
  BY <1>1 DEF SeenBecomes
<1> HIDE DEF m, S
<1>6. Waiting(c)' = Waiting(c) /\ i \in Waiting(c) /\ Asked(c)' = Asked(c)
  BY <1>0, <1>2, <1>3, <1>4 DEF Waiting, Asked
<1>7. conn[c].pc = "collect" /\ Counted(c)'
  BY <1>2, <1>6 DEF Sound, Counted
<1>8. Remembered(c)' /\ Reasons(c)'
  BY <1>2, <1>5, <1>7 DEF Sound, Remembered, Reasons
<1>9. /\ v = "BLOCK" => ip \in seen[c].listed
      /\ v = "OK" => ip \in seen[c].free \/ fails
  <2>1. ttl[ip] \in Nat /\ ip \in Asked(c)
    BY <1>0, BoundAssumption DEF Types
  <2>2. (ttl[ip] > 0 => ip \in seen[c].listed) /\ (ttl[ip] = 0 => ip \in seen[c].free)
    BY <1>7, <2>1 DEF Sound, Evidence
  <2> QED
    BY <2>1, <2>2 DEF Verdict
<1>10. Evidence(c)'
  <2>1. \A j \in DOMAIN m(fails) : m(fails)[j] = "BLOCK" => AddressAt(conn[c].data, j) \in seen[c].listed
    BY <1>4, <1>7, <1>9 DEF Sound, Evidence
  <2>2. ASSUME NEW j \in DOMAIN m(fails),
               m(fails)[j] = "OK" \/ (m(fails)[j] = "done" /\ conn[c].decision = "OK")
        PROVE  AddressAt(conn[c].data, j) \in seen'[c].free \cup seen'[c].failed
    <3>1. CASE j = i
      BY <1>3, <1>4, <1>5, <1>9, <2>2, <3>1
    <3>2. CASE j # i
      BY <1>4, <1>5, <1>7, <2>2, <3>2 DEF Sound, Evidence
    <3> QED
      BY <3>1, <3>2
  <2> QED
    BY <1>0, <1>2, <1>5, <1>6, <1>7, <2>1, <2>2 DEF Sound, Evidence
<1>11. \A d \in Conns \ {c} : conn'[d] = conn[d] /\ seen'[d] = seen[d]
  BY <1>1 DEF Becomes, SeenBecomes
<1> QED
  BY <1>7, <1>8, <1>10, <1>11 DEF Sound

LEMMA CollectSound ==
    ASSUME Formed, NEW c \in Conns, Sound(c), NEW i \in DOMAIN conn[c].lookups, Collect(c, i)
    PROVE  Sound(c)'
<1> DEFINE ip == AddressAt(conn[c].data, i)
           v == conn[c].lookups[i]
           e == OneBlocks(conn[c].decision, v)
           m == [conn[c].lookups EXCEPT ![i] = "done"]
<1>0. /\ Types /\ Shaped(c) /\ conn[c].lookups \in LookupMaps /\ conn[c].data \in Datas
      /\ conn[c].pc = "collect" /\ v \in {"OK", "BLOCK"} /\ UNCHANGED <<ttl, lapsed>>
      /\ conn[c].decision \in {"OK", "BLOCK"}
  BY ConnFields DEF Formed, Types, Collect, worldVars, Verdicts
<1>1. Becomes(c, "collect", conn[c].data, m, conn[c].left - 1, e) /\ seen' = seen
  BY <1>0, CollectStep
<1>2. /\ conn'[c].pc = "collect" /\ conn'[c].data = conn[c].data /\ conn'[c].lookups = m
      /\ conn'[c].left = conn[c].left - 1 /\ conn'[c].decision = e
  BY <1>1 DEF Becomes
<1>3. /\ DOMAIN m = DOMAIN conn[c].lookups /\ m[i] = "done"
      /\ \A j \in DOMAIN conn[c].lookups : j # i => m[j] = conn[c].lookups[j]
  <2>1. "done" \in LookupStates
    BY DEF LookupStates
  <2> QED
    BY <1>0, <2>1, Answered
<1> HIDE DEF m
<1>4. Waiting(c)' = Waiting(c) \ {i} /\ i \in Waiting(c) /\ Asked(c)' = Asked(c)
  BY <1>0, <1>2, <1>3 DEF Waiting, Asked
<1>5. Counted(c)'
  <2>1. Waiting(c) \in SUBSET Positions(conn[c].data)
    BY <1>0 DEF Waiting, Shaped
  <2>2. IsFiniteSet(Waiting(c)) /\ Cardinality(Waiting(c)) \in Nat
    BY <1>0, <2>1, PositionsFinite
  <2>3. Cardinality(Waiting(c) \ {i}) = Cardinality(Waiting(c)) - 1
    BY <1>4, <2>2, FS_RemoveElement
  <2> QED
    BY <1>0, <1>2, <1>4, <2>3 DEF Sound, Counted
<1>6. Remembered(c)' /\ Reasons(c)'
  BY <1>1, <1>2 DEF Sound, Remembered, Reasons
<1>7. e = "OK" => conn[c].decision = "OK" /\ v = "OK"
  BY <1>0 DEF OneBlocks
<1>8. e = "BLOCK" => seen[c].listed # {}
  BY <1>0 DEF OneBlocks, Sound, Evidence
<1>9. \A j \in DOMAIN m : m[j] = "BLOCK" => AddressAt(conn[c].data, j) \in seen[c].listed
  BY <1>0, <1>3 DEF Sound, Evidence
<1>10. \A j \in DOMAIN m : m[j] = "OK" \/ (m[j] = "done" /\ e = "OK") =>
          AddressAt(conn[c].data, j) \in seen[c].free \cup seen[c].failed
  <2>1. ASSUME NEW j \in DOMAIN m, m[j] = "OK" \/ (m[j] = "done" /\ e = "OK")
        PROVE  conn[c].lookups[j] = "OK" \/ (conn[c].lookups[j] = "done" /\ conn[c].decision = "OK")
    BY <1>3, <1>7, <2>1
  <2> QED
    BY <1>0, <1>3, <2>1 DEF Sound, Evidence
<1>11. Evidence(c)'
  <2> HIDE DEF e
  <2> QED
    BY <1>0, <1>1, <1>2, <1>4, <1>8, <1>9, <1>10 DEF Sound, Evidence
<1> QED
  BY <1>5, <1>6, <1>11 DEF Sound

\* What is asked for has been named.
LEMMA AskedNamed ==
    ASSUME Formed, NEW c \in Conns, Remembered(c)
    PROVE  Asked(c) \subseteq seen[c].named
<1>1. DOMAIN conn[c].lookups \subseteq Positions(conn[c].data) /\ conn[c].data \in Datas
  BY ConnFields DEF Formed, Types, Shaped
<1>2. ASSUME NEW i \in Positions(conn[c].data)
      PROVE  AddressAt(conn[c].data, i) \in seen[c].named
  <2>1. CASE i = 0
    BY <1>2, <2>1 DEF Positions, AddressAt, Remembered
  <2>2. CASE i # 0
    <3>1. i \in 1..Len(conn[c].data.xff) /\ conn[c].data.xff[i] \in IPs \ Private
      BY <1>1, <1>2, <2>2 DEF Positions, Public, Datas
    <3>2. conn[c].data.xff[i] \in Elems(conn[c].data.xff)
      BY <3>1 DEF Elems
    <3> QED
      BY <2>2, <3>1, <3>2 DEF AddressAt, Remembered
  <2> QED
    BY <2>1, <2>2
<1> QED
  BY <1>1, <1>2 DEF Asked

LEMMA ConcludeSound ==
    ASSUME Formed, NEW c \in Conns, Sound(c), Conclude(c)
    PROVE  Sound(c)'
<1>0. /\ Types /\ Shaped(c) /\ conn[c].data \in Datas /\ conn[c].pc = "collect" /\ conn[c].left = 0
      /\ conn[c].decision \in {"OK", "BLOCK"} /\ UNCHANGED <<ttl, lapsed>>
  BY ConnFields DEF Formed, Types, Conclude, Enough, worldVars, Verdicts
<1>1. /\ Becomes(c, "write", conn[c].data, conn[c].lookups, conn[c].left, Outcome(c))
      /\ seen' = seen
  BY <1>0, ConcludeStep
<1>2. /\ conn'[c].pc = "write" /\ conn'[c].data = conn[c].data /\ conn'[c].lookups = conn[c].lookups
      /\ conn'[c].decision = Outcome(c)
  BY <1>1 DEF Becomes
<1>3. Waiting(c)' = Waiting(c) /\ Asked(c)' = Asked(c) /\ GoodCookie(c)' = GoodCookie(c)
  BY <1>1, <1>2 DEF Waiting, Asked, GoodCookie, Names
<1>4. Waiting(c) = {}
  <2>1. Waiting(c) \in SUBSET Positions(conn[c].data)
    BY <1>0 DEF Waiting, Shaped
  <2>2. IsFiniteSet(Waiting(c))
    BY <1>0, <2>1, PositionsFinite
  <2>3. Cardinality(Waiting(c)) = 0
    BY <1>0 DEF Sound, Counted
  <2> QED
    BY <2>2, <2>3, FS_EmptySet
<1>5. Counted(c)' /\ Remembered(c)' /\ Evidence(c)'
  BY <1>1, <1>2, <1>3, <1>4 DEF Sound, Counted, Remembered, Evidence
<1>6. Outcome(c) = "BLOCK" => seen[c].listed \cap seen[c].named # {}
  <2>1. Outcome(c) = "BLOCK" => conn[c].decision = "BLOCK"
    BY <1>0 DEF Outcome
  <2>2. conn[c].decision = "BLOCK" => seen[c].listed # {} /\ seen[c].listed \subseteq Asked(c)
    BY <1>0 DEF Sound, Evidence
  <2> QED
    BY <2>1, <2>2, AskedNamed DEF Sound
<1>7. conn[c].decision = "OK" => Asked(c) \subseteq seen[c].free \cup seen[c].failed
  <2>1. \A i \in DOMAIN conn[c].lookups : conn[c].lookups[i] = "done"
    BY <1>4 DEF Waiting
  <2>2. conn[c].decision = "OK" => \A i \in DOMAIN conn[c].lookups :
            AddressAt(conn[c].data, i) \in seen[c].free \cup seen[c].failed
    BY <1>0, <2>1 DEF Sound, Evidence
  <2> QED
    BY <2>2 DEF Asked
<1>8. HasValidCookie(conn[c].data.cookies, Asked(c)) => GoodCookie(c)
  <2>1. SUFFICES ASSUME HasValidCookie(conn[c].data.cookies, Asked(c))
                 PROVE  GoodCookie(c)
    OBVIOUS
  <2>2. conn[c].data.cookies \in Seq(Cookies)
    BY <1>0 DEF Datas
  <2>3. CASE ~KeyIs32
    <3>1. conn[c].data.cookies[1] \in Elems(conn[c].data.cookies)
      BY <2>1, <2>2, <2>3 DEF HasValidCookie, Elems
    <3> QED
      BY <2>3, <3>1 DEF GoodCookie
  <2>4. CASE KeyIs32
    <3>1. PICK i \in 1..Len(conn[c].data.cookies) :
              /\ \A j \in 1..i : ~Refused(conn[c].data.cookies[j])
              /\ Names(conn[c].data.cookies[i], Asked(c))
      BY <2>1, <2>4 DEF HasValidCookie
    <3> DEFINE k == conn[c].data.cookies[i]
    <3>2. i \in 1..i /\ k \in Elems(conn[c].data.cookies) /\ k \in Cookies
      BY <2>2 DEF Elems
    <3>3. CookieOf[k].secret /\ k \notin lapsed
      BY <3>1, <3>2 DEF Refused
    <3>4. k \in seen[c].valid
      BY <1>0, <3>2, <3>3 DEF Sound, Evidence
    <3> QED
      BY <3>1, <3>2, <3>3, <3>4 DEF GoodCookie
  <2> QED
    BY <2>3, <2>4
<1>9. Outcome(c) = "OK" => Asked(c) \subseteq seen[c].free \cup seen[c].failed \/ GoodCookie(c)
  BY <1>7, <1>8 DEF Outcome
<1>10. Reasons(c)'
  BY <1>0, <1>1, <1>2, <1>3, <1>6, <1>9 DEF Reasons
<1> QED
  BY <1>5, <1>10 DEF Sound

\* The steps that begin or end a connection, or a decision, leave it idle.
LEMMA IdleSound ==
    ASSUME Formed, NEW c \in Conns, Sound(c), Dial(c) \/ Accept(c) \/ Write(c) \/ EndOfInput(c) \/ HangUp(c)
    PROVE  Sound(c)' /\ \A d \in Conns \ {c} : conn'[d] = conn[d] /\ seen'[d] = seen[d]
<1>0. Types /\ Shaped(c) /\ Remembered(c)
  BY DEF Formed, Sound
<1>1. CASE Dial(c)
  <2>1. /\ Becomes(c, "dialled", conn[c].data, conn[c].lookups, conn[c].left, conn[c].decision)
        /\ seen' = seen /\ conn[c].pc = "none"
    BY <1>0, <1>1, DialStep DEF Dial
  <2>2. /\ conn'[c].pc # "collect" /\ DOMAIN conn'[c].lookups = {} /\ conn'[c].decision = "OK"
        /\ Remembered(c)'
    BY <1>0, <2>1 DEF Becomes, Shaped, Remembered
  <2> QED
    BY <2>1, <2>2, SoundIdle DEF Becomes
<1>2. CASE Accept(c)
  <2>1. /\ Becomes(c, "reading", conn[c].data, conn[c].lookups, conn[c].left, conn[c].decision)
        /\ seen' = seen /\ conn[c].pc = "dialled"
    BY <1>0, <1>2, AcceptStep DEF Accept
  <2>2. /\ conn'[c].pc # "collect" /\ DOMAIN conn'[c].lookups = {} /\ conn'[c].decision = "OK"
        /\ Remembered(c)'
    BY <1>0, <2>1 DEF Becomes, Shaped, Remembered
  <2> QED
    BY <2>1, <2>2, SoundIdle DEF Becomes
<1>3. CASE Write(c)
  <2>1. /\ Becomes(c, "reading", conn[c].data, NoLookups, 0, "OK")
        /\ SeenBecomes(c, seen[c].named, {}, {}, {}, {})
    BY <1>0, <1>3, WriteStep
  <2>2. /\ conn'[c].pc # "collect" /\ DOMAIN conn'[c].lookups = {} /\ conn'[c].decision = "OK"
        /\ Remembered(c)'
    BY <1>0, <2>1, NoLookupsTyped DEF Becomes, SeenBecomes, Remembered
  <2> QED
    BY <2>1, <2>2, SoundIdle DEF Becomes, SeenBecomes
<1>4. CASE EndOfInput(c) \/ HangUp(c)
  <2>1. Becomes(c, "none", NoData, NoLookups, 0, "OK") /\ SeenBecomes(c, {}, {}, {}, {}, {})
    BY <1>0, <1>4, EndStep
  <2>2. {NoData.ip} \cap IPs = {} /\ Elems(NoData.xff) = {}
    BY ClosedTyped, PrivateAssumption DEF Elems
  <2>3. /\ conn'[c].pc # "collect" /\ DOMAIN conn'[c].lookups = {} /\ conn'[c].decision = "OK"
        /\ Remembered(c)'
    BY <2>1, <2>2, NoLookupsTyped DEF Becomes, Remembered
  <2> QED
    BY <2>1, <2>3, SoundIdle DEF Becomes, SeenBecomes
<1> QED
  BY <1>1, <1>2, <1>3, <1>4

\* Nobody is left that would have to justify anything.
LEMMA ExitSound ==
    ASSUME Formed, Exit
    PROVE  \A c \in Conns : Sound(c)'
<1> SUFFICES ASSUME NEW c \in Conns
             PROVE  Sound(c)'
  OBVIOUS
<1>1. conn'[c] = Closed
  BY ExitStep DEF Formed
<1>2. {NoData.ip} \cap IPs = {} /\ Elems(NoData.xff) = {}
  BY ClosedTyped, PrivateAssumption DEF Elems
<1>3. /\ conn'[c].pc # "collect" /\ DOMAIN conn'[c].lookups = {} /\ conn'[c].decision = "OK"
      /\ Remembered(c)'
  BY <1>1, <1>2, ClosedTyped, NoLookupsTyped DEF Remembered
<1> QED
  BY <1>3, SoundIdle

LEMMA CloseSound ==
    ASSUME Formed, \A c \in Conns : Sound(c), CloseListener
    PROVE  \A c \in Conns : Sound(c)'
<1> SUFFICES ASSUME NEW c \in Conns
             PROVE  Sound(c)'
  OBVIOUS
<1>0. Types /\ UNCHANGED <<ttl, lapsed>>
  BY DEF Formed, CloseListener, worldVars
<1>1. seen' = seen /\ conn'[c] = IF conn[c].pc = "dialled" THEN Closed ELSE conn[c]
  BY <1>0, CloseStep
<1>2. CASE conn[c].pc = "dialled"
  <2>1. {NoData.ip} \cap IPs = {} /\ Elems(NoData.xff) = {}
    BY ClosedTyped, PrivateAssumption DEF Elems
  <2>2. /\ conn'[c].pc # "collect" /\ DOMAIN conn'[c].lookups = {} /\ conn'[c].decision = "OK"
        /\ Remembered(c)'
    BY <1>1, <1>2, <2>1, ClosedTyped, NoLookupsTyped DEF Remembered
  <2> QED
    BY <2>2, SoundIdle
<1>3. CASE conn[c].pc # "dialled"
  BY <1>0, <1>1, <1>3, SoundStays
<1> QED
  BY <1>2, <1>3

-----------------------------------------------------------------------------
(* The induction. *)

Justified == Formed /\ \A c \in Conns : Sound(c)

LEMMA InitJustified == Init => Justified
<1> SUFFICES ASSUME Init
             PROVE  Justified
  OBVIOUS
<1>1. ASSUME NEW c \in Conns
      PROVE  Sound(c)
  <2>1. conn[c] = Closed /\ DOMAIN conn[c].lookups = {}
    BY ClosedTyped, NoLookupsTyped DEF Init
  <2>2. Remembered(c)
    BY <2>1, ClosedTyped, PrivateAssumption DEF Remembered, Elems
  <2> QED
    BY <2>1, <2>2, ClosedTyped DEF Sound, Counted, Waiting, Evidence, Reasons
<1> QED
  BY <1>1, InitFormed DEF Justified

\* A step of c's goroutines concerns nobody else.
LEMMA OthersSound ==
    ASSUME Justified, NEW c \in Conns, UNCHANGED worldVars, Sound(c)',
           \A d \in Conns \ {c} : conn'[d] = conn[d] /\ seen'[d] = seen[d]
    PROVE  \A d \in Conns : Sound(d)'
<1> SUFFICES ASSUME NEW d \in Conns
             PROVE  Sound(d)'
  OBVIOUS
<1>1. CASE d = c
  BY <1>1
<1>2. CASE d # c
  BY <1>2, SoundStays DEF Justified, worldVars
<1> QED
  BY <1>1, <1>2

LEMMA ConnSound ==
    ASSUME Justified, NEW c \in Conns, Serve(c) \/ Lookups(c)
    PROVE  \A d \in Conns : Sound(d)'
<1>0. Formed /\ Types /\ Sound(c)
  BY DEF Justified, Formed
<1>1. CASE Read(c)
  <2>1. \A d \in Conns \ {c} : conn'[d] = conn[d] /\ seen'[d] = seen[d]
    BY <1>0, <1>1, ReadStep DEF Becomes, SeenBecomes
  <2> QED
    BY <1>0, <1>1, <2>1, ReadSound, OthersSound DEF Read
<1>2. CASE StartLookups(c)
  <2>1. \A d \in Conns \ {c} : conn'[d] = conn[d] /\ seen'[d] = seen[d]
    BY <1>0, <1>2 DEF StartLookups, Formed, Types
  <2> QED
    BY <1>0, <1>2, <2>1, StartSound, OthersSound DEF StartLookups
<1>3. ASSUME NEW i \in DOMAIN conn[c].lookups, Lookup(c, i)
      PROVE  \A d \in Conns : Sound(d)'
  BY <1>0, <1>3, LookupSound, OthersSound DEF Lookup
<1>4. ASSUME NEW i \in DOMAIN conn[c].lookups, Collect(c, i)
      PROVE  \A d \in Conns : Sound(d)'
  <2>1. \A d \in Conns \ {c} : conn'[d] = conn[d] /\ seen'[d] = seen[d]
    BY <1>0, <1>4 DEF Collect, Types
  <2> QED
    BY <1>0, <1>4, <2>1, CollectSound, OthersSound DEF Collect
<1>5. CASE Conclude(c)
  <2>1. \A d \in Conns \ {c} : conn'[d] = conn[d] /\ seen'[d] = seen[d]
    BY <1>0, <1>5, ConcludeStep DEF Becomes
  <2> QED
    BY <1>0, <1>5, <2>1, ConcludeSound, OthersSound DEF Conclude
<1>6. CASE Write(c) \/ HangUp(c)
  BY <1>0, <1>6, IdleSound, OthersSound DEF Write, HangUp
<1>7. CASE Panic(c)
  BY <1>0, <1>7, ExitSound DEF Panic
<1> QED
  BY <1>1, <1>2, <1>3, <1>4, <1>5, <1>6, <1>7 DEF Serve, Lookups

LEMMA JustifiedStep == Justified /\ [Next]_vars => Justified'
<1> SUFFICES ASSUME Justified, [Next]_vars
             PROVE  \A c \in Conns : Sound(c)'
  BY FormedStep DEF Justified
<1>0. Formed /\ \A c \in Conns : Sound(c)
  BY DEF Justified
<1>1. CASE UNCHANGED vars
  BY <1>0, <1>1, SoundStays DEF vars
<1>2. CASE World
  <2>1. CASE ListChanges
    BY <1>0, <2>1, ListSound
  <2>2. ASSUME NEW k \in Cookies, Lapse(k)
        PROVE  \A c \in Conns : Sound(c)'
    <3>1. lapsed \subseteq lapsed' /\ conn' = conn /\ seen' = seen /\ ttl' = ttl
      BY <2>2 DEF Lapse
    <3> QED
      BY <1>0, <3>1, SoundStays
  <2>3. CASE Cancel
    BY <1>0, <2>3, SoundStays DEF Cancel
  <2>4. CASE CloseStore
    <3>1. lapsed \subseteq lapsed' /\ conn' = conn /\ seen' = seen /\ ttl' = ttl
      BY <2>4 DEF CloseStore
    <3> QED
      BY <1>0, <3>1, SoundStays
  <2> QED
    BY <1>2, <2>1, <2>2, <2>3, <2>4 DEF World
<1>3. CASE Accepting
  <2>1. CASE StartAccept
    BY <1>0, <2>1, SoundStays DEF StartAccept, worldVars
  <2>2. CASE CloseListener
    BY <1>0, <2>2, CloseSound
  <2>3. ASSUME NEW c \in Conns, Accept(c)
        PROVE  \A d \in Conns : Sound(d)'
    BY <1>0, <2>3, IdleSound, OthersSound DEF Accept
  <2>4. CASE AcceptFails
    BY <1>0, <2>4, ExitSound DEF AcceptFails
  <2> QED
    BY <1>3, <2>1, <2>2, <2>3, <2>4 DEF Accepting
<1>4. ASSUME NEW c \in Conns, WebServer(c)
      PROVE  \A d \in Conns : Sound(d)'
  <2>1. CASE Dial(c)
    BY <1>0, <2>1, IdleSound, OthersSound DEF Dial
  <2>2. CASE EndOfInput(c)
    BY <1>0, <2>2, IdleSound, OthersSound DEF EndOfInput
  <2>3. ASSUME NEW line \in Inputs, SendLine(c, line)
        PROVE  \A d \in Conns : Sound(d)'
    BY <1>0, <2>3, SoundStays DEF SendLine, worldVars
  <2> QED
    BY <1>4, <2>1, <2>2, <2>3 DEF WebServer
<1>5. ASSUME NEW c \in Conns, Serve(c) \/ Lookups(c)
      PROVE  \A d \in Conns : Sound(d)'
  BY <1>5, ConnSound
<1> QED
  BY <1>1, <1>2, <1>3, <1>4, <1>5 DEF Next

-----------------------------------------------------------------------------
(* Theorems. *)

LEMMA AlwaysJustified == Spec => []Justified
  BY InitJustified, JustifiedStep, PTL DEF Spec

\* BLOCK is only answered because an address that this connection named was listed at
\* some moment of this decision (lookup, decide), for any number of connections.
THEOREM BlockedForAReason == Spec => []BlocksJustified
<1>1. Justified => BlocksJustified
  BY DEF Justified, Sound, Reasons, BlocksJustified
<1> QED
  BY <1>1, AlwaysJustified, PTL

\* OK is only answered because every address was free at some moment of this decision
\* or its own look-up failed, or a good cookie came with the line (lookup, decide).
THEOREM PassedForAReason == Spec => []PassesJustified
<1>1. Justified => PassesJustified
  BY Zenon DEF Justified, Sound, Reasons, GoodCookie, PassesJustified
<1> QED
  BY <1>1, AlwaysJustified, PTL

\* When decide closes its channel no look-up is on its way that would send on it, for
\* any number of addresses in a line.
THEOREM NobodySendsLate == Spec => []NoLookupLeftBehind
<1>1. Justified => NoLookupLeftBehind
  BY DEF Justified, Sound, Counted, Waiting, NoLookupLeftBehind
<1> QED
  BY <1>1, AlwaysJustified, PTL

\* run looks at ctx between two connections.
Ending ==
    /\ late \in {0, 1}
    /\ ~cancelled \/ listener = "accept" => late = 0

LEMMA EndingStep == Ending /\ [Next]_vars => Ending'
<1> SUFFICES ASSUME Ending, [Next]_vars
             PROVE  Ending'
  OBVIOUS
<1>1. ASSUME UNCHANGED <<cancelled, listener, late>>
      PROVE  Ending'
  BY <1>1 DEF Ending
<1>2. CASE UNCHANGED vars
  BY <1>1, <1>2 DEF vars
<1>3. CASE World
  BY <1>3 DEF World, ListChanges, Lapse, Cancel, CloseStore, acceptVars, Ending
<1>4. CASE Accepting
  BY <1>4 DEF Accepting, StartAccept, CloseListener, Accept, AcceptFails, Exit, AfterAccept, worldVars,
             Ending
<1>5. ASSUME NEW c \in Conns, WebServer(c) \/ Serve(c) \/ Lookups(c)
      PROVE  Ending'
  <2>1. CASE Panic(c)
    BY <2>1 DEF Panic, Exit, Ending
  <2>2. CASE ~Panic(c)
    <3>1. UNCHANGED <<worldVars, acceptVars>>
      BY <1>5, <2>2 DEF WebServer, Serve, Lookups, Dial, EndOfInput, SendLine, Read, HangUp, StartLookups,
                        Lookup, Collect, Conclude, Write
    <3> QED
      BY <1>1, <3>1 DEF worldVars, acceptVars
  <2> QED
    BY <2>1, <2>2
<1> QED
  BY <1>2, <1>3, <1>4, <1>5 DEF Next

\* After ctx is done at most one more connection is accepted, whatever arrives (run).
THEOREM AcceptingEnds == Spec => []OneMoreConnection
<1>1. Init => Ending
  BY DEF Init, Ending
<1>2. Ending => OneMoreConnection
  BY DEF Ending, OneMoreConnection
<1> QED
  BY <1>1, <1>2, EndingStep, PTL DEF Spec
=============================================================================
