--------------------------- MODULE ResolverProofs ---------------------------
(***************************************************************************)
(* Theorems about Resolver, for any number of addresses and workers and    *)
(* all limits, and the proof that it implements LookupService.             *)
(***************************************************************************)
EXTENDS Resolver, TLAPS

-----------------------------------------------------------------------------
(* What a worker holds. *)

InCacheOrDNS == [pc : {"cache", "dns"}, ip : IPs, tries : 1..Tries]
WithAnswer == [pc : {"answer"}, ip : IPs, host : Hosts, fresh : BOOLEAN]
ToStore == [pc : {"store"}, ip : IPs, host : Hosts]

LEMMA WorkerSplit ==
    WorkerStates = {IdleWorker} \cup InCacheOrDNS \cup WithAnswer \cup ToStore
  BY DEF WorkerStates, InCacheOrDNS, WithAnswer, ToStore

LEMMA IdlePC == IdleWorker.pc = "idle"
  BY DEF IdleWorker

LEMMA LookingUp ==
    ASSUME NEW s \in WorkerStates, s.pc \in {"cache", "dns"}
    PROVE  s \in InCacheOrDNS /\ s.ip \in IPs /\ s.tries \in 1..Tries
<1>1. s \in InCacheOrDNS
  BY WorkerSplit, IdlePC DEF InCacheOrDNS, WithAnswer, ToStore
<1> QED
  BY <1>1 DEF InCacheOrDNS

LEMMA Answering ==
    ASSUME NEW s \in WorkerStates, s.pc = "answer"
    PROVE  s.ip \in IPs /\ s.host \in Hosts /\ s.fresh \in BOOLEAN
<1>1. s \in WithAnswer
  BY WorkerSplit, IdlePC DEF InCacheOrDNS, WithAnswer, ToStore
<1> QED
  BY <1>1 DEF WithAnswer

LEMMA Storing ==
    ASSUME NEW s \in WorkerStates, s.pc = "store"
    PROVE  s.ip \in IPs /\ s.host \in Hosts
<1>1. s \in ToStore
  BY WorkerSplit, IdlePC DEF InCacheOrDNS, WithAnswer, ToStore
<1> QED
  BY <1>1 DEF ToStore

LEMMA NewWorker ==
    ASSUME NEW ip \in IPs
    PROVE  /\ IdleWorker \in WorkerStates
           /\ \A t \in 1..Tries : [pc |-> "cache", ip |-> ip, tries |-> t] \in WorkerStates
           /\ \A h \in Hosts, b \in BOOLEAN :
                 [pc |-> "answer", ip |-> ip, host |-> h, fresh |-> b] \in WorkerStates
           /\ \A h \in Hosts : [pc |-> "store", ip |-> ip, host |-> h] \in WorkerStates
  BY DEF WorkerStates

LEMMA GoesToDNS ==
    ASSUME NEW s \in InCacheOrDNS
    PROVE  /\ [s EXCEPT !.pc = "dns"] \in WorkerStates
           /\ [s EXCEPT !.pc = "dns"].pc = "dns"
           /\ [s EXCEPT !.pc = "dns"].ip = s.ip
  BY DEF InCacheOrDNS, WorkerStates

LEMMA RepliesAreHosts == \A ip \in IPs : Replies(ip) \subseteq Hosts
  BY PTRAssumption DEF Replies, Hosts

LEMMA Capacities == PendingCap \in Nat /\ OutCap \in Nat /\ Tries \in Nat
  BY SizeAssumption

LEMMA Appended ==
    ASSUME NEW S, NEW q \in Seq(S), NEW x \in S, NEW cap \in Nat, Len(q) < cap
    PROVE  Append(q, x) \in Seq(S) /\ Len(Append(q, x)) <= cap
  OBVIOUS

LEMMA Popped ==
    ASSUME NEW S, NEW q \in Seq(S), q # <<>>, NEW cap \in Nat, Len(q) <= cap
    PROVE  Head(q) \in S /\ Tail(q) \in Seq(S) /\ Len(Tail(q)) <= cap
  OBVIOUS

\* Resolve publishes at most one request, for the address, with a legal number of tries.
LEMMA Published ==
    ASSUME TypeOK, NEW ip \in IPs, NEW t \in Nat \ {0}, Resolve(ip, t)
    PROVE  /\ topic' \in Seq(Messages) /\ Len(topic') <= PendingCap
           /\ \/ topic' = topic
              \/ topic' = Append(topic, [ip |-> ip, tries |-> t])
<1>1. CASE topic' = topic
  BY <1>1 DEF TypeOK
<1>2. CASE topic' = Append(topic, [ip |-> ip, tries |-> t]) /\ ~GivesUp(t) /\ ~(Len(topic) >= PendingCap)
  <2>1. [ip |-> ip, tries |-> t] \in Messages
    BY <1>2, SizeAssumption DEF GivesUp, Messages
  <2>2. topic \in Seq(Messages)
    BY DEF TypeOK
  <2>3. Len(topic) \in Nat
    BY <2>2
  <2>4. Len(topic) < PendingCap
    BY <1>2, <2>3, Capacities
  <2> QED
    BY <1>2, <2>1, <2>2, <2>4, Capacities, Appended
<1> QED
  BY <1>1, <1>2 DEF Resolve

-----------------------------------------------------------------------------
(* Types. *)

LEMMA RetryTyped ==
    ASSUME TypeOK, NEW w \in Workers, worker[w].pc \in {"cache", "dns"}, Retry(w)
    PROVE  /\ topic' \in Seq(Messages) /\ Len(topic') <= PendingCap
           /\ worker' \in [Workers -> WorkerStates]
<1>1. worker[w].ip \in IPs /\ worker[w].tries \in 1..Tries
  BY LookingUp DEF TypeOK
<1>2. IdleWorker \in WorkerStates
  BY DEF WorkerStates
<1> QED
  <2>1. worker[w].tries + 1 \in Nat \ {0}
    BY <1>1, Capacities
  <2>2. topic' \in Seq(Messages) /\ Len(topic') <= PendingCap
    BY <1>1, <2>1, Published DEF Retry
  <2> QED
    BY <1>2, <2>2 DEF Retry, TypeOK

LEMMA StepTyped == TypeOK /\ [Next]_vars => TypeOK'
<1> SUFFICES ASSUME TypeOK, [Next]_vars PROVE TypeOK'
  OBVIOUS
<1>1. ASSUME NEW ip \in IPs, Ask(ip) PROVE TypeOK'
  <2>0. Resolve(ip, 1)
    BY <1>1 DEF Ask
  <2>1. topic' \in Seq(Messages) /\ Len(topic') <= PendingCap
    <3>1. 1 \in Nat \ {0}
      OBVIOUS
    <3> QED
      BY <2>0, <3>1, Published
  <2> QED
    BY <1>1, <2>1 DEF Ask, TypeOK
<1>2. ASSUME NEW ip \in IPs, CacheExpires(ip) PROVE TypeOK'
  BY <1>2 DEF CacheExpires, TypeOK
<1>3. ASSUME NEW w \in Workers, Take(w) PROVE TypeOK'
  <2>1. Head(topic) \in Messages /\ Tail(topic) \in Seq(Messages) /\ Len(Tail(topic)) <= PendingCap
    BY <1>3, Capacities, Popped DEF Take, TypeOK
  <2>2. [pc |-> "cache", ip |-> Head(topic).ip, tries |-> Head(topic).tries] \in WorkerStates
    BY <2>1 DEF Messages, WorkerStates
  <2> QED
    BY <1>3, <2>1, <2>2 DEF Take, TypeOK
<1>4. ASSUME NEW w \in Workers, NEW fails \in BOOLEAN, LookIntoCache(w, fails) PROVE TypeOK'
  <2>1. worker[w].pc \in {"cache", "dns"} /\ worker[w] \in InCacheOrDNS /\ worker[w].ip \in IPs
    BY <1>4, LookingUp DEF LookIntoCache, TypeOK
  <2>2. CASE Retry(w)
    BY <1>4, <2>1, <2>2, RetryTyped DEF LookIntoCache, TypeOK
  <2>3. CASE cache[worker[w].ip] # "absent" /\ Answered(w, cache[worker[w].ip], FALSE) /\ UNCHANGED topic
    <3>1. cache[worker[w].ip] \in Hosts
      BY <2>1, <2>3 DEF TypeOK
    <3> QED
      BY <1>4, <2>1, <2>3, <3>1, NewWorker DEF LookIntoCache, Answered, TypeOK
  <2>4. CASE worker' = [worker EXCEPT ![w].pc = "dns"] /\ UNCHANGED topic
    BY <1>4, <2>1, <2>4, GoesToDNS DEF LookIntoCache, TypeOK
  <2> QED
    BY <1>4, <2>2, <2>3, <2>4 DEF LookIntoCache
<1>5. ASSUME NEW w \in Workers, NEW fails \in BOOLEAN, AskDNS(w, fails) PROVE TypeOK'
  <2>1. worker[w].pc \in {"cache", "dns"} /\ worker[w].ip \in IPs
    BY <1>5, LookingUp DEF AskDNS, TypeOK
  <2>2. CASE Retry(w)
    BY <1>5, <2>1, <2>2, RetryTyped DEF AskDNS, TypeOK
  <2>3. ASSUME NEW host \in Replies(worker[w].ip), Answered(w, host, TRUE), UNCHANGED topic PROVE TypeOK'
    <3>1. host \in Hosts
      BY <2>1, RepliesAreHosts
    <3> QED
      BY <1>5, <2>1, <2>3, <3>1, NewWorker DEF AskDNS, Answered, TypeOK
  <2> QED
    BY <1>5, <2>2, <2>3 DEF AskDNS
<1>6. ASSUME NEW w \in Workers, SendAnswer(w) PROVE TypeOK'
  <2>1. worker[w].ip \in IPs /\ worker[w].host \in Hosts
    BY <1>6, Answering DEF SendAnswer, TypeOK
  <2>2. [ip |-> worker[w].ip, host |-> worker[w].host] \in Answers
    BY <2>1 DEF Answers
  <2>3. out' \in Seq(Answers) /\ Len(out') <= OutCap
    BY <1>6, <2>2, Capacities, Appended DEF SendAnswer, TypeOK
  <2> QED
    BY <1>6, <2>1, <2>3, NewWorker DEF SendAnswer, TypeOK
<1>7. ASSUME NEW w \in Workers, NEW fails \in BOOLEAN, StoreAnswer(w, fails) PROVE TypeOK'
  <2>1. worker[w].ip \in IPs /\ worker[w].host \in Hosts
    BY <1>7, Storing DEF StoreAnswer, TypeOK
  <2> QED
    BY <1>7, <2>1, NewWorker DEF StoreAnswer, TypeOK
<1>8. CASE SetHostname
  <2>1. Head(out) \in Answers /\ Tail(out) \in Seq(Answers) /\ Len(Tail(out)) <= OutCap
    BY <1>8, Capacities, Popped DEF SetHostname, TypeOK
  <2> QED
    BY <1>8, <2>1 DEF SetHostname, TypeOK, Answers
<1>9. CASE UNCHANGED vars
  BY <1>9 DEF vars, TypeOK
<1> QED
  BY <1>1, <1>2, <1>3, <1>4, <1>5, <1>6, <1>7, <1>8, <1>9
     DEF Next, CalmNext, WorkerSteps, Failures

LEMMA InitTyped == Init => TypeOK
<1> SUFFICES ASSUME Init PROVE TypeOK
  OBVIOUS
<1>1. topic = <<>> /\ out = <<>>
  BY DEF Init
<1>2. topic \in Seq(Messages) /\ Len(topic) = 0
  BY <1>1
<1>3. out \in Seq(Answers) /\ Len(out) = 0
  BY <1>1
<1>4. Len(topic) <= PendingCap /\ Len(out) <= OutCap
  BY <1>2, <1>3, Capacities
<1>5. worker \in [Workers -> WorkerStates]
  BY DEF Init, WorkerStates
<1>6. hostname \in [IPs -> {"resolving"} \cup Hosts] /\ cache \in [IPs -> {"absent"} \cup Hosts]
  BY DEF Init, Hosts
<1> QED
  BY <1>2, <1>3, <1>4, <1>5, <1>6 DEF TypeOK

\* Every reachable state is well typed: no request is published more often than
\* ResolverTries, and neither the topic nor the output channel exceeds its limit.
THEOREM Typing == Spec => []TypeOK
  BY InitTyped, StepTyped, PTL DEF Spec

-----------------------------------------------------------------------------
(* No foreign names. *)

\* What a worker has found out is the name of its address, or the address.
WorkersKeepNames ==
    \A w \in Workers : worker[w].pc \in {"answer", "store"} => worker[w].host \in Replies(worker[w].ip)

NamesInv == TypeOK /\ WorkersKeepNames /\ OwnNameOrAddress

LEMMA AppendedAt ==
    ASSUME NEW S, NEW q \in Seq(S), NEW x \in S
    PROVE  /\ Len(q) \in Nat
           /\ Len(Append(q, x)) = Len(q) + 1
           /\ \A i \in 1..Len(q) : Append(q, x)[i] = q[i]
           /\ Append(q, x)[Len(q) + 1] = x
  OBVIOUS

LEMMA PoppedAt ==
    ASSUME NEW S, NEW q \in Seq(S), q # <<>>
    PROVE  /\ Len(q) \in Nat \ {0}
           /\ Len(Tail(q)) = Len(q) - 1
           /\ \A i \in 1..(Len(q) - 1) : Tail(q)[i] = q[i + 1]
           /\ Head(q) = q[1]
  OBVIOUS

LEMMA NamesInductive == NamesInv /\ [Next]_vars => NamesInv'
<1> SUFFICES ASSUME NamesInv, [Next]_vars PROVE WorkersKeepNames' /\ OwnNameOrAddress'
  BY StepTyped DEF NamesInv
<1>0. TypeOK /\ WorkersKeepNames /\ OwnNameOrAddress
  BY DEF NamesInv
<1>w. worker \in [Workers -> WorkerStates]
  BY <1>0 DEF TypeOK
<1>h. hostname \in [IPs -> {"resolving"} \cup Hosts]
  BY <1>0 DEF TypeOK
<1>c. cache \in [IPs -> {"absent"} \cup Hosts]
  BY <1>0 DEF TypeOK
<1>1. ASSUME NEW ip \in IPs, Ask(ip) PROVE WorkersKeepNames' /\ OwnNameOrAddress'
  BY <1>0, <1>1, <1>h DEF Ask, WorkersKeepNames, OwnNameOrAddress
<1>2. ASSUME NEW ip \in IPs, CacheExpires(ip) PROVE WorkersKeepNames' /\ OwnNameOrAddress'
  BY <1>0, <1>2, <1>c DEF CacheExpires, WorkersKeepNames, OwnNameOrAddress
<1>3. ASSUME NEW w \in Workers, Take(w) PROVE WorkersKeepNames' /\ OwnNameOrAddress'
  BY <1>0, <1>3, <1>w DEF Take, WorkersKeepNames, OwnNameOrAddress
<1>4. ASSUME NEW w \in Workers, NEW fails \in BOOLEAN, LookIntoCache(w, fails)
      PROVE  WorkersKeepNames' /\ OwnNameOrAddress'
  <2>1. worker[w].pc \in {"cache", "dns"} /\ worker[w] \in InCacheOrDNS /\ worker[w].ip \in IPs
    BY <1>4, <1>w, LookingUp DEF LookIntoCache
  <2>2. OwnNameOrAddress'
    BY <1>0, <1>4 DEF LookIntoCache, OwnNameOrAddress
  <2>3. CASE Retry(w)
    <3>1. worker' = [worker EXCEPT ![w] = IdleWorker]
      BY <2>3 DEF Retry
    <3> QED
      BY <1>0, <1>w, <2>2, <3>1, IdlePC DEF WorkersKeepNames
  <2>4. CASE cache[worker[w].ip] # "absent" /\ Answered(w, cache[worker[w].ip], FALSE)
    <3>1. cache[worker[w].ip] \in Replies(worker[w].ip)
      BY <1>0, <2>1, <2>4 DEF OwnNameOrAddress
    <3> QED
      BY <1>0, <1>w, <2>2, <2>4, <3>1 DEF Answered, WorkersKeepNames
  <2>5. CASE worker' = [worker EXCEPT ![w].pc = "dns"]
    BY <1>0, <1>w, <2>1, <2>2, <2>5, GoesToDNS DEF WorkersKeepNames
  <2> QED
    BY <1>4, <2>3, <2>4, <2>5 DEF LookIntoCache
<1>5. ASSUME NEW w \in Workers, NEW fails \in BOOLEAN, AskDNS(w, fails)
      PROVE  WorkersKeepNames' /\ OwnNameOrAddress'
  <2>1. OwnNameOrAddress'
    BY <1>0, <1>5 DEF AskDNS, OwnNameOrAddress
  <2>2. CASE Retry(w)
    <3>1. worker' = [worker EXCEPT ![w] = IdleWorker]
      BY <2>2 DEF Retry
    <3> QED
      BY <1>0, <1>w, <2>1, <3>1, IdlePC DEF WorkersKeepNames
  <2>3. ASSUME NEW host \in Replies(worker[w].ip), Answered(w, host, TRUE)
        PROVE  WorkersKeepNames' /\ OwnNameOrAddress'
    BY <1>0, <1>w, <2>1, <2>3 DEF Answered, WorkersKeepNames
  <2> QED
    BY <1>5, <2>2, <2>3 DEF AskDNS
<1>6. ASSUME NEW w \in Workers, SendAnswer(w) PROVE WorkersKeepNames' /\ OwnNameOrAddress'
  <2>1. worker[w].ip \in IPs /\ worker[w].host \in Hosts /\ worker[w].host \in Replies(worker[w].ip)
    BY <1>0, <1>6, <1>w, Answering DEF SendAnswer, WorkersKeepNames
  <2>2. WorkersKeepNames'
    BY <1>0, <1>w, <1>6, <2>1, IdlePC DEF SendAnswer, WorkersKeepNames
  <2>3. out \in Seq(Answers) /\ [ip |-> worker[w].ip, host |-> worker[w].host] \in Answers
    BY <1>0, <2>1 DEF TypeOK, Answers
  <2>4. \A i \in 1..Len(out') : out'[i].host \in Replies(out'[i].ip)
    <3> TAKE i \in 1..Len(out')
    <3>1. out' = Append(out, [ip |-> worker[w].ip, host |-> worker[w].host])
      BY <1>6 DEF SendAnswer
    <3>2. i \in 1..Len(out) \/ i = Len(out) + 1
      BY <2>3, <3>1, AppendedAt
    <3>3. \A k \in 1..Len(out) : out[k].host \in Replies(out[k].ip)
      BY <1>0 DEF OwnNameOrAddress
    <3>4. CASE i \in 1..Len(out)
      <4>1. out'[i] = out[i]
        BY <2>3, <3>1, <3>4, AppendedAt
      <4> QED
        BY <3>3, <3>4, <4>1
    <3>5. CASE i = Len(out) + 1
      <4>1. out'[i] = [ip |-> worker[w].ip, host |-> worker[w].host]
        BY <2>3, <3>1, <3>5, AppendedAt
      <4>2. out'[i].ip = worker[w].ip /\ out'[i].host = worker[w].host
        BY <4>1
      <4> QED
        BY <2>1, <4>2
    <3> QED
      BY <3>2, <3>4, <3>5
  <2> QED
    BY <1>0, <1>6, <2>2, <2>4 DEF SendAnswer, OwnNameOrAddress
<1>7. ASSUME NEW w \in Workers, NEW fails \in BOOLEAN, StoreAnswer(w, fails)
      PROVE  WorkersKeepNames' /\ OwnNameOrAddress'
  <2>1. worker[w].ip \in IPs /\ worker[w].host \in Replies(worker[w].ip)
    BY <1>0, <1>7, <1>w, Storing DEF StoreAnswer, WorkersKeepNames
  <2>2. WorkersKeepNames'
    BY <1>0, <1>w, <1>7, IdlePC DEF StoreAnswer, WorkersKeepNames
  <2> QED
    BY <1>0, <1>7, <1>c, <2>1, <2>2 DEF StoreAnswer, OwnNameOrAddress
<1>8. CASE SetHostname
  <2>1. out \in Seq(Answers) /\ out # <<>>
    BY <1>0, <1>8 DEF TypeOK, SetHostname
  <2>2. \A k \in 1..Len(out) : out[k].host \in Replies(out[k].ip)
    BY <1>0 DEF OwnNameOrAddress
  <2>3. Head(out).host \in Replies(Head(out).ip)
    BY <2>1, <2>2, PoppedAt
  <2>4. \A i \in 1..Len(out') : out'[i].host \in Replies(out'[i].ip)
    <3>1. out' = Tail(out)
      BY <1>8 DEF SetHostname
    <3> TAKE i \in 1..Len(out')
    <3>2. i + 1 \in 1..Len(out) /\ out'[i] = out[i + 1]
      BY <2>1, <3>1, PoppedAt
    <3> QED
      BY <2>2, <3>2
  <2> QED
    BY <1>0, <1>8, <1>h, <2>3, <2>4 DEF SetHostname, OwnNameOrAddress, WorkersKeepNames
<1>9. CASE UNCHANGED vars
  BY <1>0, <1>9 DEF vars, WorkersKeepNames, OwnNameOrAddress
<1> QED
  BY <1>1, <1>2, <1>3, <1>4, <1>5, <1>6, <1>7, <1>8, <1>9
     DEF Next, CalmNext, WorkerSteps, Failures

LEMMA NamesInitially == Init => NamesInv
<1> SUFFICES ASSUME Init PROVE NamesInv
  OBVIOUS
<1>1. TypeOK
  BY InitTyped
<1>2. WorkersKeepNames
  BY IdlePC DEF Init, WorkersKeepNames
<1>3. out = <<>>
  BY DEF Init
<1>4. Len(out) = 0
  BY <1>3
<1>5. ASSUME NEW ip \in IPs
      PROVE  /\ cache[ip] \in {"absent"} \cup Replies(ip)
             /\ hostname[ip] \in {"", "resolving"} \cup Replies(ip)
  BY DEF Init
<1>6. OwnNameOrAddress
  <2>1. \A i \in 1..Len(out) : FALSE
    BY <1>4
  <2>2. \A ip \in IPs : /\ cache[ip] \in {"absent"} \cup Replies(ip)
                       /\ hostname[ip] \in {"", "resolving"} \cup Replies(ip)
    BY <1>5
  <2> QED
    BY <2>1, <2>2 DEF OwnNameOrAddress
<1> QED
  BY <1>1, <1>2, <1>6 DEF NamesInv

LEMMA AlwaysNames == Spec => []NamesInv
  BY NamesInitially, NamesInductive, PTL DEF Spec

\* Whatever fails, expires and is retried: the cache, the output channel and the
\* entries hold for an address its own name or the address itself, which stands for
\* a name that was not found (reverseDNSLookup, reverseLookup, SetHostname).
THEOREM NoForeignNames == Spec => []OwnNameOrAddress
<1>1. NamesInv => OwnNameOrAddress
  BY DEF NamesInv
<1> QED
  BY <1>1, AlwaysNames, PTL

-----------------------------------------------------------------------------
(* At most one lookup of an address.  OneLookup, told by the places of the *)
(* messages, the workers and the answers.                                  *)

Looks(w) == worker[w].pc \in {"cache", "dns", "answer"}

TopicAlone ==
    \A i \in 1..Len(topic) :
        /\ hostname[topic[i].ip] = "resolving"
        /\ \A j \in 1..Len(topic) : topic[j].ip = topic[i].ip => j = i
        /\ \A w \in Workers : Looks(w) => worker[w].ip # topic[i].ip
        /\ \A k \in 1..Len(out) : out[k].ip # topic[i].ip

WorkersAlone ==
    \A w \in Workers : Looks(w) =>
        /\ hostname[worker[w].ip] = "resolving"
        /\ \A v \in Workers : Looks(v) /\ worker[v].ip = worker[w].ip => v = w
        /\ \A k \in 1..Len(out) : out[k].ip # worker[w].ip

OutAlone ==
    \A i \in 1..Len(out) :
        /\ hostname[out[i].ip] = "resolving"
        /\ \A j \in 1..Len(out) : out[j].ip = out[i].ip => j = i

Alone == TopicAlone /\ WorkersAlone /\ OutAlone

\* No lookup of the address is under way.
Free(ip) ==
    /\ \A i \in 1..Len(topic) : topic[i].ip # ip
    /\ \A w \in Workers : Looks(w) => worker[w].ip # ip
    /\ \A k \in 1..Len(out) : out[k].ip # ip

\* Workers that change nothing but what they look at, or stop, harm nobody.
LEMMA WorkersCarryOn ==
    ASSUME Alone, topic' = topic, out' = out, hostname' = hostname,
           \A w \in Workers : Looks(w)' => Looks(w) /\ worker'[w].ip = worker[w].ip
    PROVE  Alone'
  BY DEF Alone, TopicAlone, WorkersAlone, OutAlone

LEMMA MessageAt ==
    ASSUME NEW q \in Seq(Messages), NEW i \in 1..Len(q)
    PROVE  q[i] \in Messages /\ q[i].ip \in IPs /\ q[i].tries \in 1..Tries
<1>1. q[i] \in Messages
  OBVIOUS
<1> QED
  BY <1>1 DEF Messages

LEMMA AnswerAt ==
    ASSUME NEW q \in Seq(Answers), NEW i \in 1..Len(q)
    PROVE  q[i] \in Answers /\ q[i].ip \in IPs /\ q[i].host \in Hosts
<1>1. q[i] \in Answers
  OBVIOUS
<1> QED
  BY <1>1 DEF Answers

\* A request is published for an address that nobody looks up (any more).
LEMMA Publishes ==
    ASSUME TypeOK, Alone, NEW m \in Messages, topic' = Append(topic, m), out' = out,
           hostname'[m.ip] = "resolving",
           \A x \in IPs : hostname[x] = "resolving" => hostname'[x] = "resolving",
           \A w \in Workers : Looks(w)' => Looks(w) /\ worker'[w].ip = worker[w].ip /\ worker'[w].ip # m.ip,
           \A w \in Workers : Looks(w) => worker[w].ip \in IPs,
           \A i \in 1..Len(topic) : topic[i].ip # m.ip,
           \A k \in 1..Len(out) : out[k].ip # m.ip
    PROVE  Alone'
<1>0. topic \in Seq(Messages) /\ out \in Seq(Answers)
  BY DEF TypeOK
<1>t. \A i \in 1..Len(topic) : topic[i].ip \in IPs
  BY <1>0, MessageAt
<1>o. \A i \in 1..Len(out) : out[i].ip \in IPs
  BY <1>0, AnswerAt
<1>1. Len(topic') = Len(topic) + 1 /\ topic'[Len(topic) + 1] = m /\ Len(topic) \in Nat
  BY <1>0, AppendedAt
<1>2. \A i \in 1..Len(topic) : topic'[i] = topic[i]
  BY <1>0, AppendedAt
<1>3. \A i \in 1..Len(topic') : i \in 1..Len(topic) \/ i = Len(topic) + 1
  BY <1>1
<1>4. TopicAlone'
  <2> SUFFICES ASSUME NEW i \in 1..Len(topic')
               PROVE  /\ hostname'[topic'[i].ip] = "resolving"
                      /\ \A j \in 1..Len(topic') : topic'[j].ip = topic'[i].ip => j = i
                      /\ \A w \in Workers : Looks(w)' => worker'[w].ip # topic'[i].ip
                      /\ \A k \in 1..Len(out) : out[k].ip # topic'[i].ip
    BY DEF TopicAlone
  <2>1. CASE i \in 1..Len(topic)
    <3>1. topic'[i] = topic[i]
      BY <1>2, <2>1
    <3>2. hostname'[topic[i].ip] = "resolving"
      BY <1>t, <2>1 DEF Alone, TopicAlone
    <3>3. \A j \in 1..Len(topic') : topic'[j].ip = topic[i].ip => j = i
      BY <1>1, <1>2, <1>3, <2>1 DEF Alone, TopicAlone
    <3>4. \A w \in Workers : Looks(w)' => worker'[w].ip # topic[i].ip
      BY <2>1 DEF Alone, TopicAlone
    <3>5. \A k \in 1..Len(out) : out[k].ip # topic[i].ip
      BY <2>1 DEF Alone, TopicAlone
    <3> QED
      BY <3>1, <3>2, <3>3, <3>4, <3>5
  <2>2. CASE i = Len(topic) + 1
    <3>1. topic'[i] = m
      BY <1>1, <2>2
    <3>2. \A j \in 1..Len(topic') : topic'[j].ip = m.ip => j = i
      BY <1>2, <1>3, <2>2
    <3> QED
      BY <3>1, <3>2
  <2> QED
    BY <1>3, <2>1, <2>2
<1>5. WorkersAlone'
  BY DEF Alone, WorkersAlone
<1>6. OutAlone'
  BY <1>o DEF Alone, OutAlone
<1> QED
  BY <1>4, <1>5, <1>6 DEF Alone

\* A worker asks for another try of its own address.
LEMMA RetryAlone ==
    ASSUME TypeOK, Alone, NEW w \in Workers, worker[w].pc \in {"cache", "dns"}, Retry(w),
           out' = out, hostname' = hostname
    PROVE  Alone'
<1>0. worker \in [Workers -> WorkerStates]
  BY DEF TypeOK
<1>1. worker[w].ip \in IPs /\ worker[w].tries \in 1..Tries
  BY <1>0, LookingUp
<1>2. worker'[w].pc = "idle" /\ \A v \in Workers : v # w => worker'[v] = worker[v]
  BY <1>0, IdlePC DEF Retry
<1>3. \A v \in Workers : Looks(v)' => v # w /\ Looks(v) /\ worker'[v].ip = worker[v].ip
  BY <1>2 DEF Looks
<1>4. Looks(w)
  BY DEF Looks
<1>5. CASE topic' = topic
  BY <1>3, <1>5, WorkersCarryOn
<1>6. CASE topic' = Append(topic, [ip |-> worker[w].ip, tries |-> worker[w].tries + 1])
           /\ ~GivesUp(worker[w].tries + 1)
  <2>1. worker[w].tries + 1 \in 1..Tries
    BY <1>1, <1>6, Capacities DEF GivesUp
  <2> DEFINE m == [ip |-> worker[w].ip, tries |-> worker[w].tries + 1]
  <2>2. m \in Messages /\ m.ip = worker[w].ip
    BY <1>1, <2>1 DEF Messages
  <2>3. \A v \in Workers : Looks(v)' => worker'[v].ip # m.ip
    BY <1>3, <1>4, <2>2 DEF Alone, WorkersAlone
  <2>4. hostname'[m.ip] = "resolving"
    BY <1>4, <2>2 DEF Alone, WorkersAlone
  <2>5. \A i \in 1..Len(topic) : topic[i].ip # m.ip
    BY <1>4, <2>2 DEF Alone, TopicAlone
  <2>6. \A k \in 1..Len(out) : out[k].ip # m.ip
    BY <1>4, <2>2 DEF Alone, WorkersAlone
  <2>7. \A v \in Workers : Looks(v) => worker[v].ip \in IPs
    BY <1>0, LookingUp, Answering DEF Looks
  <2>8. topic' = Append(topic, m)
    BY <1>6
  <2> HIDE DEF m
  <2> QED
    BY <1>3, <2>2, <2>3, <2>4, <2>5, <2>6, <2>7, <2>8, Publishes
<1> QED
  BY <1>5, <1>6 DEF Retry, Resolve

LEMMA AloneInductive == TypeOK /\ Alone /\ [Next]_vars => Alone'
<1> SUFFICES ASSUME TypeOK, Alone, [Next]_vars PROVE Alone'
  OBVIOUS
<1>w. worker \in [Workers -> WorkerStates]
  BY DEF TypeOK
<1>q. topic \in Seq(Messages) /\ out \in Seq(Answers)
  BY DEF TypeOK
<1>h. hostname \in [IPs -> {"resolving"} \cup Hosts]
  BY DEF TypeOK
<1>k. \A v \in Workers : Looks(v) => worker[v].ip \in IPs
  BY <1>w, LookingUp, Answering DEF Looks
<1>t. \A i \in 1..Len(topic) : topic[i].ip \in IPs
  BY <1>q, MessageAt
<1>o. \A i \in 1..Len(out) : out[i].ip \in IPs
  BY <1>q, AnswerAt
<1>1. ASSUME NEW ip \in IPs, Ask(ip) PROVE Alone'
  <2>1. hostname[ip] = "" /\ hostname' = [hostname EXCEPT ![ip] = "resolving"]
        /\ worker' = worker /\ out' = out
    BY <1>1 DEF Ask
  <2>2. Free(ip)
    BY <2>1 DEF Free, Alone, TopicAlone, WorkersAlone, OutAlone
  <2>3. hostname'[ip] = "resolving" /\ \A x \in IPs : hostname[x] = "resolving" => hostname'[x] = "resolving"
    BY <1>h, <2>1
  <2>4. CASE topic' = topic
    BY <1>k, <1>t, <1>o, <2>1, <2>3, <2>4 DEF Alone, TopicAlone, WorkersAlone, OutAlone, Looks
  <2>5. CASE topic' = Append(topic, [ip |-> ip, tries |-> 1]) /\ ~GivesUp(1)
    <3> DEFINE m == [ip |-> ip, tries |-> 1]
    <3>1. m \in Messages /\ m.ip = ip
      BY <2>5, Capacities DEF GivesUp, Messages
    <3>2. topic' = Append(topic, m)
      BY <2>5
    <3>3. \A v \in Workers : Looks(v)' => Looks(v) /\ worker'[v].ip = worker[v].ip /\ worker'[v].ip # m.ip
      BY <2>1, <2>2, <3>1 DEF Looks, Free
    <3>4. /\ \A i \in 1..Len(topic) : topic[i].ip # m.ip
          /\ \A k \in 1..Len(out) : out[k].ip # m.ip
      BY <2>2, <3>1 DEF Free
    <3> HIDE DEF m
    <3> QED
      BY <1>k, <2>1, <2>3, <3>1, <3>2, <3>3, <3>4, Publishes
  <2>6. Resolve(ip, 1)
    BY <1>1 DEF Ask
  <2> QED
    BY <2>4, <2>5, <2>6 DEF Resolve
<1>2. ASSUME NEW ip \in IPs, CacheExpires(ip) PROVE Alone'
  BY <1>2, WorkersCarryOn DEF CacheExpires, Looks
<1>3. ASSUME NEW w \in Workers, Take(w) PROVE Alone'
  <2>1. Len(topic) \in Nat \ {0} /\ Len(topic') = Len(topic) - 1 /\ Head(topic) = topic[1]
    BY <1>3, <1>q, PoppedAt DEF Take
  <2>2. \A i \in 1..Len(topic') : i + 1 \in 1..Len(topic) /\ topic'[i] = topic[i + 1]
    BY <1>3, <1>q, <2>1, PoppedAt DEF Take
  <2>3. ~Looks(w) /\ worker'[w].ip = topic[1].ip /\ 1 \in 1..Len(topic)
    BY <1>3, <1>w, <2>1 DEF Take, Looks
  <2>4. \A v \in Workers : v # w => worker'[v] = worker[v]
    BY <1>3, <1>w DEF Take
  <2>5. \A v \in Workers : v # w /\ Looks(v)' => Looks(v)
    BY <2>4 DEF Looks
  <2>6. hostname' = hostname /\ out' = out
    BY <1>3 DEF Take
  <2>7. TopicAlone'
    <3> SUFFICES ASSUME NEW i \in 1..Len(topic')
                 PROVE  /\ hostname[topic'[i].ip] = "resolving"
                        /\ \A j \in 1..Len(topic') : topic'[j].ip = topic'[i].ip => j = i
                        /\ \A v \in Workers : Looks(v)' => worker'[v].ip # topic'[i].ip
                        /\ \A k \in 1..Len(out) : out[k].ip # topic'[i].ip
      BY <2>6 DEF TopicAlone
    <3>0. i + 1 \in 1..Len(topic) /\ topic'[i] = topic[i + 1] /\ i \in Nat \ {0}
      BY <2>2, <2>1
    <3>1. hostname[topic[i + 1].ip] = "resolving" /\ \A k \in 1..Len(out) : out[k].ip # topic[i + 1].ip
      BY <3>0 DEF Alone, TopicAlone
    <3>2. ASSUME NEW j \in 1..Len(topic'), topic'[j].ip = topic[i + 1].ip PROVE j = i
      <4>1. j + 1 = i + 1
        BY <2>2, <3>0, <3>2 DEF Alone, TopicAlone
      <4>2. j \in Nat
        BY <2>1
      <4> QED
        BY <3>0, <4>1, <4>2
    <3>3. ASSUME NEW v \in Workers, Looks(v)' PROVE worker'[v].ip # topic[i + 1].ip
      <4>1. CASE v = w
        <5>1. i + 1 # 1
          BY <3>0
        <5> QED
          BY <2>3, <3>0, <4>1, <5>1 DEF Alone, TopicAlone
      <4>2. CASE v # w
        BY <2>4, <2>5, <3>0, <3>3, <4>2 DEF Alone, TopicAlone
      <4> QED
        BY <4>1, <4>2
    <3> QED
      BY <3>0, <3>1, <3>2, <3>3
  <2>8. WorkersAlone'
    BY <2>3, <2>4, <2>5, <2>6 DEF Alone, TopicAlone, WorkersAlone
  <2>9. OutAlone'
    BY <2>6 DEF Alone, OutAlone
  <2> QED
    BY <2>7, <2>8, <2>9 DEF Alone
<1>4. ASSUME NEW w \in Workers, NEW fails \in BOOLEAN, LookIntoCache(w, fails) PROVE Alone'
  <2>1. worker[w].pc \in {"cache", "dns"} /\ worker[w] \in InCacheOrDNS /\ hostname' = hostname /\ out' = out
    BY <1>4, <1>w, LookingUp DEF LookIntoCache
  <2>2. CASE Retry(w)
    BY <2>1, <2>2, RetryAlone
  <2>3. CASE Answered(w, cache[worker[w].ip], FALSE) /\ topic' = topic
    <3>1. \A v \in Workers : Looks(v)' => Looks(v) /\ worker'[v].ip = worker[v].ip
      BY <1>w, <2>1, <2>3 DEF Answered, Looks
    <3> QED
      BY <2>1, <2>3, <3>1, WorkersCarryOn
  <2>4. CASE worker' = [worker EXCEPT ![w].pc = "dns"] /\ topic' = topic
    <3>1. \A v \in Workers : Looks(v)' => Looks(v) /\ worker'[v].ip = worker[v].ip
      BY <1>w, <2>1, <2>4, GoesToDNS DEF Looks
    <3> QED
      BY <2>1, <2>4, <3>1, WorkersCarryOn
  <2> QED
    BY <1>4, <2>2, <2>3, <2>4 DEF LookIntoCache
<1>5. ASSUME NEW w \in Workers, NEW fails \in BOOLEAN, AskDNS(w, fails) PROVE Alone'
  <2>1. worker[w].pc \in {"cache", "dns"} /\ hostname' = hostname /\ out' = out
    BY <1>5 DEF AskDNS
  <2>2. CASE Retry(w)
    BY <2>1, <2>2, RetryAlone
  <2>3. ASSUME NEW host \in Replies(worker[w].ip), Answered(w, host, TRUE), topic' = topic
        PROVE  Alone'
    <3>1. \A v \in Workers : Looks(v)' => Looks(v) /\ worker'[v].ip = worker[v].ip
      BY <1>w, <2>1, <2>3 DEF Answered, Looks
    <3> QED
      BY <2>1, <2>3, <3>1, WorkersCarryOn
  <2> QED
    BY <1>5, <2>2, <2>3 DEF AskDNS
<1>6. ASSUME NEW w \in Workers, SendAnswer(w) PROVE Alone'
  <2>1. Looks(w) /\ worker[w].ip \in IPs /\ worker[w].host \in Hosts
    BY <1>6, <1>w, Answering DEF SendAnswer, Looks
  <2> DEFINE a == [ip |-> worker[w].ip, host |-> worker[w].host]
  <2>2. a \in Answers /\ a.ip = worker[w].ip
    BY <2>1 DEF Answers
  <2>3. out' = Append(out, a) /\ topic' = topic /\ hostname' = hostname
    BY <1>6 DEF SendAnswer
  <2> HIDE DEF a
  <2>4. Len(out') = Len(out) + 1 /\ out'[Len(out) + 1] = a /\ Len(out) \in Nat
    BY <1>q, <2>2, <2>3, AppendedAt
  <2>5. \A i \in 1..Len(out) : out'[i] = out[i]
    BY <1>q, <2>2, <2>3, AppendedAt
  <2>6. \A i \in 1..Len(out') : i \in 1..Len(out) \/ i = Len(out) + 1
    BY <2>4
  <2>7. \A v \in Workers : Looks(v)' => v # w /\ Looks(v) /\ worker'[v] = worker[v]
    BY <1>6, <1>w, IdlePC DEF SendAnswer, Looks
  <2>8. TopicAlone'
    <3> SUFFICES ASSUME NEW i \in 1..Len(topic)
                 PROVE  /\ hostname[topic[i].ip] = "resolving"
                        /\ \A j \in 1..Len(topic) : topic[j].ip = topic[i].ip => j = i
                        /\ \A v \in Workers : Looks(v)' => worker'[v].ip # topic[i].ip
                        /\ \A k \in 1..Len(out') : out'[k].ip # topic[i].ip
      BY <2>3 DEF TopicAlone
    <3>1. \A v \in Workers : Looks(v)' => worker'[v].ip # topic[i].ip
      BY <2>7 DEF Alone, TopicAlone
    <3>2. a.ip # topic[i].ip /\ \A k \in 1..Len(out) : out[k].ip # topic[i].ip
      BY <2>1, <2>2 DEF Alone, TopicAlone
    <3>3. \A k \in 1..Len(out') : out'[k].ip # topic[i].ip
      BY <2>4, <2>5, <2>6, <3>2
    <3> QED
      BY <3>1, <3>3 DEF Alone, TopicAlone
  <2>9. WorkersAlone'
    <3> SUFFICES ASSUME NEW v \in Workers, Looks(v)'
                 PROVE  /\ hostname[worker'[v].ip] = "resolving"
                        /\ \A u \in Workers : Looks(u)' /\ worker'[u].ip = worker'[v].ip => u = v
                        /\ \A k \in 1..Len(out') : out'[k].ip # worker'[v].ip
      BY <2>3 DEF WorkersAlone
    <3>1. v # w /\ Looks(v) /\ worker'[v] = worker[v]
      BY <2>7
    <3>2. a.ip # worker[v].ip /\ \A k \in 1..Len(out) : out[k].ip # worker[v].ip
      BY <2>1, <2>2, <3>1 DEF Alone, WorkersAlone
    <3>3. \A k \in 1..Len(out') : out'[k].ip # worker[v].ip
      BY <2>4, <2>5, <2>6, <3>2
    <3>4. \A u \in Workers : Looks(u)' /\ worker'[u].ip = worker[v].ip => u = v
      BY <2>7, <3>1 DEF Alone, WorkersAlone
    <3>5. hostname[worker[v].ip] = "resolving"
      BY <3>1 DEF Alone, WorkersAlone
    <3> QED
      BY <3>1, <3>3, <3>4, <3>5
  <2>10. OutAlone'
    <3> SUFFICES ASSUME NEW i \in 1..Len(out')
                 PROVE  /\ hostname[out'[i].ip] = "resolving"
                        /\ \A j \in 1..Len(out') : out'[j].ip = out'[i].ip => j = i
      BY <2>3 DEF OutAlone
    <3>0. hostname[a.ip] = "resolving" /\ \A k \in 1..Len(out) : out[k].ip # a.ip
      BY <2>1, <2>2 DEF Alone, WorkersAlone
    <3>1. CASE i \in 1..Len(out)
      BY <2>4, <2>5, <2>6, <3>0, <3>1 DEF Alone, OutAlone
    <3>2. CASE i = Len(out) + 1
      BY <2>4, <2>5, <2>6, <3>0, <3>2
    <3> QED
      BY <2>6, <3>1, <3>2
  <2> QED
    BY <2>8, <2>9, <2>10 DEF Alone
<1>7. ASSUME NEW w \in Workers, NEW fails \in BOOLEAN, StoreAnswer(w, fails) PROVE Alone'
  <2>1. \A v \in Workers : Looks(v)' => Looks(v) /\ worker'[v].ip = worker[v].ip
    BY <1>7, <1>w, IdlePC DEF StoreAnswer, Looks
  <2> QED
    BY <1>7, <2>1, WorkersCarryOn DEF StoreAnswer
<1>8. CASE SetHostname
  <2>1. Len(out) \in Nat \ {0} /\ Len(out') = Len(out) - 1 /\ Head(out) = out[1]
    BY <1>8, <1>q, PoppedAt DEF SetHostname
  <2>2. \A i \in 1..Len(out') : i + 1 \in 1..Len(out) /\ out'[i] = out[i + 1] /\ i + 1 # 1
    BY <1>8, <1>q, <2>1, PoppedAt DEF SetHostname
  <2>3. topic' = topic /\ worker' = worker /\ 1 \in 1..Len(out) /\ out[1].ip \in IPs
    BY <1>8, <1>o, <2>1 DEF SetHostname
  <2>4. \A x \in IPs : x # out[1].ip => hostname'[x] = hostname[x]
    BY <1>8, <1>h, <2>1 DEF SetHostname
  <2>5. TopicAlone'
    BY <1>t, <2>2, <2>3, <2>4 DEF Alone, TopicAlone, Looks
  <2>6. WorkersAlone'
    BY <1>k, <2>2, <2>3, <2>4 DEF Alone, WorkersAlone, Looks
  <2>7. OutAlone'
    <3> SUFFICES ASSUME NEW i \in 1..Len(out')
                 PROVE  /\ hostname'[out'[i].ip] = "resolving"
                        /\ \A j \in 1..Len(out') : out'[j].ip = out'[i].ip => j = i
      BY DEF OutAlone
    <3>1. i + 1 \in 1..Len(out) /\ out'[i] = out[i + 1] /\ i + 1 # 1
      BY <2>2
    <3>2. out[i + 1].ip # out[1].ip /\ hostname[out[i + 1].ip] = "resolving"
      BY <2>3, <3>1 DEF Alone, OutAlone
    <3>3. ASSUME NEW j \in 1..Len(out'), out'[j].ip = out[i + 1].ip PROVE j = i
      <4>1. j + 1 = i + 1
        BY <2>2, <3>1, <3>3 DEF Alone, OutAlone
      <4>2. j \in Nat /\ i \in Nat
        BY <2>1
      <4> QED
        BY <4>1, <4>2
    <3> QED
      BY <1>o, <2>4, <3>1, <3>2, <3>3
  <2> QED
    BY <2>5, <2>6, <2>7 DEF Alone
<1>9. CASE UNCHANGED vars
  BY <1>9, WorkersCarryOn DEF vars, Looks
<1> QED
  BY <1>1, <1>2, <1>3, <1>4, <1>5, <1>6, <1>7, <1>8, <1>9
     DEF Next, CalmNext, WorkerSteps, Failures

LEMMA AloneInitially == Init => Alone
<1> SUFFICES ASSUME Init PROVE Alone
  OBVIOUS
<1>1. topic = <<>> /\ out = <<>>
  BY DEF Init
<1>2. Len(topic) = 0 /\ Len(out) = 0
  BY <1>1
<1>3. \A w \in Workers : ~Looks(w)
  BY IdlePC DEF Init, Looks
<1> QED
  BY <1>2, <1>3 DEF Alone, TopicAlone, WorkersAlone, OutAlone

LEMMA AlwaysAlone == Spec => [](TypeOK /\ Alone)
  BY InitTyped, StepTyped, AloneInitially, AloneInductive, PTL DEF Spec

\* The tokens of OnTheirWay, by kind.
LEMMA Places ==
    ASSUME NEW ip, NEW p
    PROVE  p \in OnTheirWay(ip) <=>
              \/ \E i \in 1..Len(topic) : topic[i].ip = ip /\ p = <<"topic", i>>
              \/ \E w \in Workers : Looks(w) /\ worker[w].ip = ip /\ p = <<"worker", w>>
              \/ \E i \in 1..Len(out) : out[i].ip = ip /\ p = <<"out", i>>
  BY DEF OnTheirWay, Looks

LEMMA AloneIsOne == Alone => OneLookup
<1> SUFFICES ASSUME Alone, NEW ip \in IPs, NEW p \in OnTheirWay(ip), NEW q \in OnTheirWay(ip)
             PROVE  p = q /\ hostname[ip] = "resolving"
  BY DEF OneLookup
<1>1. CASE \E i \in 1..Len(topic) : topic[i].ip = ip /\ p = <<"topic", i>>
  <2>1. PICK i \in 1..Len(topic) : topic[i].ip = ip /\ p = <<"topic", i>>
    BY <1>1
  <2>2. /\ hostname[ip] = "resolving"
        /\ \A j \in 1..Len(topic) : topic[j].ip = ip => j = i
        /\ \A w \in Workers : Looks(w) => worker[w].ip # ip
        /\ \A k \in 1..Len(out) : out[k].ip # ip
    BY <2>1 DEF Alone, TopicAlone
  <2>3. \E j \in 1..Len(topic) : topic[j].ip = ip /\ q = <<"topic", j>>
    BY <2>2, Places
  <2> QED
    BY <2>1, <2>2, <2>3
<1>2. CASE \E w \in Workers : Looks(w) /\ worker[w].ip = ip /\ p = <<"worker", w>>
  <2>1. PICK w \in Workers : Looks(w) /\ worker[w].ip = ip /\ p = <<"worker", w>>
    BY <1>2
  <2>2. /\ hostname[ip] = "resolving"
        /\ \A v \in Workers : Looks(v) /\ worker[v].ip = ip => v = w
        /\ \A k \in 1..Len(out) : out[k].ip # ip
    BY <2>1 DEF Alone, WorkersAlone
  <2>3. \A i \in 1..Len(topic) : topic[i].ip # ip
    BY <2>1 DEF Alone, TopicAlone
  <2>4. \E v \in Workers : Looks(v) /\ worker[v].ip = ip /\ q = <<"worker", v>>
    BY <2>2, <2>3, Places
  <2> QED
    BY <2>1, <2>2, <2>4
<1>3. CASE \E i \in 1..Len(out) : out[i].ip = ip /\ p = <<"out", i>>
  <2>1. PICK i \in 1..Len(out) : out[i].ip = ip /\ p = <<"out", i>>
    BY <1>3
  <2>2. hostname[ip] = "resolving" /\ \A j \in 1..Len(out) : out[j].ip = ip => j = i
    BY <2>1 DEF Alone, OutAlone
  <2>3. (\A j \in 1..Len(topic) : topic[j].ip # ip) /\ (\A w \in Workers : Looks(w) => worker[w].ip # ip)
    BY <2>1 DEF Alone, TopicAlone, WorkersAlone
  <2>4. \E j \in 1..Len(out) : out[j].ip = ip /\ q = <<"out", j>>
    BY <2>3, Places
  <2> QED
    BY <2>1, <2>2, <2>4
<1> QED
  BY <1>1, <1>2, <1>3, Places

\* However often a lookup is retried, and whatever expires in between: no address
\* is ever looked up twice at a time, and only while its entry says so (Resolver.worker).
THEOREM NeverTwice == Spec => []OneLookup
  BY AlwaysAlone, AloneIsOne, PTL

-----------------------------------------------------------------------------
(* Resolver implements LookupService. *)

LEMMA PendingIs ==
    Pending = {ip \in IPs : ~Free(ip)}
<1>1. ASSUME NEW ip \in IPs PROVE OnTheirWay(ip) # {} <=> ~Free(ip)
  BY Places DEF Free
<1> QED
  BY <1>1 DEF Pending

\* The same after a step.
LEMMA PendingIsNext == Pending' = {ip \in IPs : ~Free(ip)'}
<1>1. (Pending = {ip \in IPs : ~Free(ip)})'
  BY PendingIs, PTL
<1> QED
  BY <1>1

\* Steps of the workers that lose nothing.
LEMMA NothingLost ==
    ASSUME topic' = topic, out' = out, hostname' = hostname,
           \A w \in Workers : /\ Looks(w)' <=> Looks(w)
                              /\ Looks(w) => worker'[w].ip = worker[w].ip
    PROVE  UNCHANGED <<hostname, Pending>>
<1>1. \A x \in IPs : Free(x)' <=> Free(x)
  BY DEF Free
<1> QED
  BY <1>1, PendingIs, PendingIsNext

\* A retry goes on, or the lookup is lost.
LEMMA RetryServes ==
    ASSUME TypeOK, Alone, NEW w \in Workers, worker[w].pc \in {"cache", "dns"}, Retry(w),
           out' = out, hostname' = hostname
    PROVE  [Abstract!Next]_<<hostname, Pending>>
<1>0. worker \in [Workers -> WorkerStates] /\ topic \in Seq(Messages)
  BY DEF TypeOK
<1>1. worker[w].ip \in IPs /\ worker[w].tries \in 1..Tries /\ Looks(w)
  BY <1>0, LookingUp DEF Looks
<1>2. worker'[w].pc = "idle" /\ \A v \in Workers : v # w => worker'[v] = worker[v]
  BY <1>0, IdlePC DEF Retry
<1>3. /\ ~Looks(w)'
      /\ \A v \in Workers : v # w => (Looks(v)' <=> Looks(v)) /\ worker'[v] = worker[v]
  BY <1>2 DEF Looks
<1>4. CASE topic' = topic
  <2>0. PICK ip \in IPs : ip = worker[w].ip
    BY <1>1
  <2>1. ~Free(ip)
    BY <1>1, <2>0 DEF Free
  <2>2. Free(ip)'
    <3>1. \A i \in 1..Len(topic) : topic[i].ip # ip
      BY <1>1, <2>0 DEF Alone, TopicAlone
    <3>2. \A v \in Workers : Looks(v)' => worker'[v].ip # ip
      BY <1>1, <1>3, <2>0 DEF Alone, WorkersAlone
    <3>3. \A k \in 1..Len(out) : out[k].ip # ip
      BY <1>1, <2>0 DEF Alone, WorkersAlone
    <3> QED
      BY <1>4, <3>1, <3>2, <3>3 DEF Free
  <2>3. ASSUME NEW x \in IPs, x # ip PROVE Free(x)' <=> Free(x)
    BY <1>3, <1>4, <2>0, <2>3 DEF Free
  <2>4. Pending' = Pending \ {ip} /\ ip \in Pending
    BY <2>1, <2>2, <2>3, PendingIs, PendingIsNext
  <2>5. Abstract!Lose(ip)
    BY <2>4 DEF Abstract!Lose
  <2> QED
    BY <2>5 DEF Abstract!Next
<1>5. CASE topic' = Append(topic, [ip |-> worker[w].ip, tries |-> worker[w].tries + 1])
           /\ ~GivesUp(worker[w].tries + 1)
  <2> DEFINE m == [ip |-> worker[w].ip, tries |-> worker[w].tries + 1]
  <2>1. m \in Messages /\ m.ip = worker[w].ip
    BY <1>1, <1>5, Capacities DEF GivesUp, Messages
  <2>2. topic' = Append(topic, m)
    BY <1>5
  <2> HIDE DEF m
  <2>3. /\ Len(topic) \in Nat /\ Len(topic') = Len(topic) + 1 /\ topic'[Len(topic) + 1] = m
        /\ \A i \in 1..Len(topic) : topic'[i] = topic[i]
    BY <1>0, <2>1, <2>2, AppendedAt
  <2>4. ASSUME NEW x \in IPs PROVE Free(x)' <=> Free(x)
    <3>1. CASE x = worker[w].ip
      <4>1. ~Free(x)
        BY <1>1, <3>1 DEF Free
      <4>2. Len(topic) + 1 \in 1..Len(topic')
        BY <2>3
      <4>3. ~Free(x)'
        BY <2>1, <2>3, <3>1, <4>2 DEF Free
      <4> QED
        BY <4>1, <4>3
    <3>2. CASE x # worker[w].ip
      <4>1. (\A i \in 1..Len(topic') : topic'[i].ip # x) <=> (\A i \in 1..Len(topic) : topic[i].ip # x)
        <5>1. \A i \in 1..Len(topic') : i \in 1..Len(topic) \/ i = Len(topic) + 1
          BY <2>3
        <5>2. 1..Len(topic) \subseteq 1..Len(topic')
          BY <2>3
        <5> QED
          BY <2>1, <2>3, <3>2, <5>1, <5>2
      <4>2. (\A v \in Workers : Looks(v)' => worker'[v].ip # x) <=> (\A v \in Workers : Looks(v) => worker[v].ip # x)
        BY <1>3, <3>2
      <4> QED
        BY <4>1, <4>2 DEF Free
    <3> QED
      BY <3>1, <3>2
  <2> QED
    BY <2>4, PendingIs, PendingIsNext
<1> QED
  BY <1>4, <1>5 DEF Retry, Resolve

LEMMA StepServes == NamesInv /\ Alone /\ [Next]_vars => [Abstract!Next]_<<hostname, Pending>>
<1> SUFFICES ASSUME NamesInv, Alone, [Next]_vars PROVE [Abstract!Next]_<<hostname, Pending>>
  OBVIOUS
<1>0. TypeOK /\ WorkersKeepNames /\ OwnNameOrAddress
  BY DEF NamesInv
<1>w. worker \in [Workers -> WorkerStates]
  BY <1>0 DEF TypeOK
<1>q. topic \in Seq(Messages) /\ out \in Seq(Answers)
  BY <1>0 DEF TypeOK
<1>1. ASSUME NEW ip \in IPs, Ask(ip) PROVE Abstract!Ask(ip)
  <2>1. hostname[ip] = "" /\ hostname' = [hostname EXCEPT ![ip] = "resolving"]
        /\ worker' = worker /\ out' = out
    BY <1>1 DEF Ask
  <2>2. CASE topic' = topic
    <3>1. \A x \in IPs : Free(x)' <=> Free(x)
      BY <2>1, <2>2 DEF Free, Looks
    <3> QED
      BY <2>1, <3>1, PendingIs, PendingIsNext DEF Abstract!Ask
  <2>3. CASE topic' = Append(topic, [ip |-> ip, tries |-> 1]) /\ ~GivesUp(1)
    <3> DEFINE m == [ip |-> ip, tries |-> 1]
    <3>1. m \in Messages /\ m.ip = ip
      BY <2>3, Capacities DEF GivesUp, Messages
    <3>2. topic' = Append(topic, m)
      BY <2>3
    <3> HIDE DEF m
    <3>3. /\ Len(topic) \in Nat /\ Len(topic') = Len(topic) + 1 /\ topic'[Len(topic) + 1] = m
          /\ \A i \in 1..Len(topic) : topic'[i] = topic[i]
      BY <1>q, <3>1, <3>2, AppendedAt
    <3>4. Len(topic) + 1 \in 1..Len(topic') /\ 1..Len(topic) \subseteq 1..Len(topic')
      BY <3>3
    <3>5. \A i \in 1..Len(topic') : i \in 1..Len(topic) \/ i = Len(topic) + 1
      BY <3>3
    <3>6. ~Free(ip)'
      BY <3>1, <3>3, <3>4 DEF Free
    <3>7. ASSUME NEW x \in IPs, x # ip PROVE Free(x)' <=> Free(x)
      <4>1. (\A i \in 1..Len(topic') : topic'[i].ip # x) <=> (\A i \in 1..Len(topic) : topic[i].ip # x)
        BY <3>1, <3>3, <3>4, <3>5, <3>7
      <4> QED
        BY <2>1, <4>1 DEF Free, Looks
    <3>8. Pending' = Pending \cup {ip}
      BY <3>6, <3>7, PendingIs, PendingIsNext
    <3> QED
      BY <2>1, <3>8 DEF Abstract!Ask
  <2>4. Resolve(ip, 1)
    BY <1>1 DEF Ask
  <2> QED
    BY <2>2, <2>3, <2>4 DEF Resolve
<1>2. ASSUME NEW ip \in IPs, CacheExpires(ip) PROVE UNCHANGED <<hostname, Pending>>
  BY <1>2, NothingLost DEF CacheExpires, Looks
<1>3. ASSUME NEW w \in Workers, Take(w) PROVE UNCHANGED <<hostname, Pending>>
  <2>1. Len(topic) \in Nat \ {0} /\ Len(topic') = Len(topic) - 1 /\ Head(topic) = topic[1]
    BY <1>3, <1>q, PoppedAt DEF Take
  <2>2. \A i \in 1..Len(topic') : topic'[i] = topic[i + 1]
    BY <1>3, <1>q, <2>1, PoppedAt DEF Take
  <2>3. ~Looks(w) /\ Looks(w)' /\ worker'[w].ip = topic[1].ip /\ hostname' = hostname /\ out' = out
    BY <1>3, <1>w, <2>1 DEF Take, Looks
  <2>4. \A v \in Workers : v # w => (Looks(v)' <=> Looks(v)) /\ worker'[v] = worker[v]
    BY <1>3, <1>w DEF Take, Looks
  <2>5. ASSUME NEW x \in IPs PROVE Free(x)' <=> Free(x)
    <3>1. ASSUME Free(x) PROVE Free(x)'
      <4>1. 1 \in 1..Len(topic) /\ \A i \in 1..Len(topic') : i + 1 \in 1..Len(topic)
        BY <2>1
      <4> QED
        BY <2>2, <2>3, <2>4, <3>1, <4>1 DEF Free
    <3>2. ASSUME Free(x)' PROVE Free(x)
      <4>1. topic[1].ip # x
        BY <2>3, <3>2 DEF Free
      <4>2. ASSUME NEW i \in 1..Len(topic), i # 1 PROVE topic[i].ip # x
        <5>1. i - 1 \in 1..Len(topic') /\ (i - 1) + 1 = i
          BY <2>1, <4>2
        <5>2. topic'[i - 1] = topic[i]
          BY <2>2, <5>1
        <5> QED
          BY <3>2, <5>1, <5>2 DEF Free
      <4> QED
        BY <2>3, <2>4, <3>2, <4>1, <4>2 DEF Free
    <3> QED
      BY <3>1, <3>2
  <2> QED
    BY <2>3, <2>5, PendingIs, PendingIsNext
<1>4. ASSUME NEW w \in Workers, NEW fails \in BOOLEAN, LookIntoCache(w, fails)
      PROVE  [Abstract!Next]_<<hostname, Pending>>
  <2>1. worker[w].pc \in {"cache", "dns"} /\ worker[w] \in InCacheOrDNS /\ hostname' = hostname /\ out' = out
    BY <1>4, <1>w, LookingUp DEF LookIntoCache
  <2>2. CASE Retry(w)
    BY <1>0, <2>1, <2>2, RetryServes
  <2>3. CASE Answered(w, cache[worker[w].ip], FALSE) /\ topic' = topic
    <3>1. \A v \in Workers : (Looks(v)' <=> Looks(v)) /\ (Looks(v) => worker'[v].ip = worker[v].ip)
      BY <1>w, <2>1, <2>3 DEF Answered, Looks
    <3> QED
      BY <2>1, <2>3, <3>1, NothingLost
  <2>4. CASE worker' = [worker EXCEPT ![w].pc = "dns"] /\ topic' = topic
    <3>1. \A v \in Workers : (Looks(v)' <=> Looks(v)) /\ (Looks(v) => worker'[v].ip = worker[v].ip)
      BY <1>w, <2>1, <2>4, GoesToDNS DEF Looks
    <3> QED
      BY <2>1, <2>4, <3>1, NothingLost
  <2> QED
    BY <1>4, <2>2, <2>3, <2>4 DEF LookIntoCache
<1>5. ASSUME NEW w \in Workers, NEW fails \in BOOLEAN, AskDNS(w, fails)
      PROVE  [Abstract!Next]_<<hostname, Pending>>
  <2>1. worker[w].pc \in {"cache", "dns"} /\ hostname' = hostname /\ out' = out
    BY <1>5 DEF AskDNS
  <2>2. CASE Retry(w)
    BY <1>0, <2>1, <2>2, RetryServes
  <2>3. ASSUME NEW host \in Replies(worker[w].ip), Answered(w, host, TRUE), topic' = topic
        PROVE  [Abstract!Next]_<<hostname, Pending>>
    <3>1. \A v \in Workers : (Looks(v)' <=> Looks(v)) /\ (Looks(v) => worker'[v].ip = worker[v].ip)
      BY <1>w, <2>1, <2>3 DEF Answered, Looks
    <3> QED
      BY <2>1, <2>3, <3>1, NothingLost
  <2> QED
    BY <1>5, <2>2, <2>3 DEF AskDNS
<1>6. ASSUME NEW w \in Workers, SendAnswer(w) PROVE UNCHANGED <<hostname, Pending>>
  <2>1. Looks(w) /\ worker[w].ip \in IPs /\ worker[w].host \in Hosts
    BY <1>6, <1>w, Answering DEF SendAnswer, Looks
  <2> DEFINE a == [ip |-> worker[w].ip, host |-> worker[w].host]
  <2>2. a \in Answers /\ a.ip = worker[w].ip
    BY <2>1 DEF Answers
  <2>3. out' = Append(out, a) /\ topic' = topic /\ hostname' = hostname
    BY <1>6 DEF SendAnswer
  <2> HIDE DEF a
  <2>4. /\ Len(out) \in Nat /\ Len(out') = Len(out) + 1 /\ out'[Len(out) + 1] = a
        /\ \A i \in 1..Len(out) : out'[i] = out[i]
    BY <1>q, <2>2, <2>3, AppendedAt
  <2>5. /\ ~Looks(w)'
        /\ \A v \in Workers : v # w => (Looks(v)' <=> Looks(v)) /\ worker'[v] = worker[v]
    BY <1>6, <1>w, IdlePC DEF SendAnswer, Looks
  <2>6. Len(out) + 1 \in 1..Len(out') /\ 1..Len(out) \subseteq 1..Len(out')
    BY <2>4
  <2>7. \A i \in 1..Len(out') : i \in 1..Len(out) \/ i = Len(out) + 1
    BY <2>4
  <2>8. ASSUME NEW x \in IPs PROVE Free(x)' <=> Free(x)
    <3>1. CASE x = worker[w].ip
      <4>1. ~Free(x)
        BY <2>1, <3>1 DEF Free
      <4>2. ~Free(x)'
        BY <2>2, <2>4, <2>6, <3>1 DEF Free
      <4> QED
        BY <4>1, <4>2
    <3>2. CASE x # worker[w].ip
      <4>1. (\A i \in 1..Len(out') : out'[i].ip # x) <=> (\A i \in 1..Len(out) : out[i].ip # x)
        BY <2>2, <2>4, <2>6, <2>7, <3>2
      <4>2. (\A v \in Workers : Looks(v)' => worker'[v].ip # x) <=> (\A v \in Workers : Looks(v) => worker[v].ip # x)
        BY <2>5, <3>2
      <4> QED
        BY <2>3, <4>1, <4>2 DEF Free
    <3> QED
      BY <3>1, <3>2
  <2> QED
    BY <2>3, <2>8, PendingIs, PendingIsNext
<1>7. ASSUME NEW w \in Workers, NEW fails \in BOOLEAN, StoreAnswer(w, fails)
      PROVE  UNCHANGED <<hostname, Pending>>
  <2>1. \A v \in Workers : (Looks(v)' <=> Looks(v)) /\ (Looks(v) => worker'[v].ip = worker[v].ip)
    BY <1>7, <1>w, IdlePC DEF StoreAnswer, Looks
  <2> QED
    BY <1>7, <2>1, NothingLost DEF StoreAnswer
<1>8. CASE SetHostname
  <2>1. Len(out) \in Nat \ {0} /\ Len(out') = Len(out) - 1 /\ Head(out) = out[1]
    BY <1>8, <1>q, PoppedAt DEF SetHostname
  <2>2. \A i \in 1..Len(out') : i + 1 \in 1..Len(out) /\ out'[i] = out[i + 1] /\ i + 1 # 1
    BY <1>8, <1>q, <2>1, PoppedAt DEF SetHostname
  <2>3. topic' = topic /\ worker' = worker /\ 1 \in 1..Len(out)
    BY <1>8, <2>1 DEF SetHostname
  <2>4. PICK ip \in IPs : ip = out[1].ip
    BY <1>q, <2>3, AnswerAt
  <2>5. \E host \in Abstract!Answers(ip) : hostname' = [hostname EXCEPT ![ip] = host]
    <3>1. out[1].host \in Abstract!Answers(ip)
      BY <1>0, <2>3, <2>4 DEF OwnNameOrAddress, Replies, Abstract!Answers
    <3>2. hostname' = [hostname EXCEPT ![ip] = out[1].host]
      BY <1>8, <2>1, <2>4 DEF SetHostname
    <3> QED
      BY <3>1, <3>2
  <2>6. ~Free(ip)
    BY <2>3, <2>4 DEF Free
  <2>7. Free(ip)'
    <3>1. \A k \in 1..Len(out') : out'[k].ip # ip
      BY <2>2, <2>3, <2>4 DEF Alone, OutAlone
    <3>2. \A i \in 1..Len(topic) : topic[i].ip # ip
      BY <2>3, <2>4 DEF Alone, TopicAlone
    <3>3. \A v \in Workers : Looks(v)' => worker'[v].ip # ip
      BY <2>3, <2>4 DEF Alone, WorkersAlone, Looks
    <3> QED
      BY <2>3, <3>1, <3>2, <3>3 DEF Free
  <2>8. ASSUME NEW x \in IPs, x # ip PROVE Free(x)' <=> Free(x)
    <3>1. ASSUME NEW i \in 1..Len(out), i # 1 PROVE i - 1 \in 1..Len(out') /\ out'[i - 1] = out[i]
      <4>1. i - 1 \in 1..Len(out') /\ (i - 1) + 1 = i
        BY <2>1, <3>1
      <4> QED
        BY <2>2, <4>1
    <3>2. (\A k \in 1..Len(out') : out'[k].ip # x) <=> (\A k \in 1..Len(out) : out[k].ip # x)
      BY <2>2, <2>4, <2>8, <3>1
    <3> QED
      BY <2>3, <3>2 DEF Free, Looks
  <2>9. Pending' = Pending \ {ip} /\ ip \in Pending
    BY <2>6, <2>7, <2>8, PendingIs, PendingIsNext
  <2>10. Abstract!Answer(ip)
    BY <2>5, <2>9 DEF Abstract!Answer
  <2> QED
    BY <2>10 DEF Abstract!Next
<1>9. CASE UNCHANGED vars
  BY <1>9, NothingLost DEF vars, Looks
<1> QED
  BY <1>1, <1>2, <1>3, <1>4, <1>5, <1>6, <1>7, <1>8, <1>9
     DEF Next, CalmNext, WorkerSteps, Failures, Abstract!Next

LEMMA StartServes == Init => Abstract!Init
<1> SUFFICES ASSUME Init PROVE Abstract!Init
  OBVIOUS
<1>1. topic = <<>> /\ out = <<>>
  BY DEF Init
<1>2. Len(topic) = 0 /\ Len(out) = 0
  BY <1>1
<1>3. \A w \in Workers : ~Looks(w)
  BY IdlePC DEF Init, Looks
<1>4. Pending = {}
  BY <1>2, <1>3, PendingIs DEF Free
<1> QED
  BY <1>4 DEF Init, Abstract!Init

\* Topic, workers, cache and retries are the resolver's own business: outside, a
\* question is answered once, with the address's own name or the address, or lost.
THEOREM Implementation == Spec => ImplementsLookupService
<1>1. Init => Abstract!Init
  BY StartServes
<1>2. NamesInv /\ (TypeOK /\ Alone) /\ [Next]_vars => [Abstract!Next]_(Abstract!serviceVars)
  BY StepServes DEF Abstract!serviceVars
<1> QED
  BY <1>1, <1>2, AlwaysNames, AlwaysAlone, PTL DEF Spec, ImplementsLookupService, Abstract!Spec
=============================================================================
