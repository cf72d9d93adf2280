------------------------------ MODULE Resolver ------------------------------
(***************************************************************************)
(* Reverse lookups, from IPData.ShouldBeBlocked's call of Resolver.Resolve  *)
(* over the NATS topic, the resolver's workers with the host name cache in  *)
(* the store, and their output channel, to resolvWorker and                *)
(* History.SetHostname.  The entries of the addresses live on: an answer    *)
(* that comes too late for its entry is in BlockPipeline.                  *)
(***************************************************************************)
EXTENDS Naturals, Sequences

CONSTANTS
    IPs,        \* addresses
    Workers,    \* resolver goroutines (config.ResolverWorkers)
    Tries,      \* config.ResolverTries
    PTR,        \* PTR[ip]: the name DNS has for ip, "name" or "" (the record ".")
    PendingCap, \* messages the topic's subscription holds (100000 in the code)
    OutCap      \* capacity of the output channel (2000 in the code)

ASSUME SizeAssumption == Tries \in Nat /\ PendingCap \in Nat \ {0} /\ OutCap \in Nat \ {0}
ASSUME PTRAssumption == PTR \in [IPs -> {"name", ""}]

\* A host name: that of a PTR record, or the text of the address in its place.
Hosts == {"name", "", "address"}

VARIABLES
    hostname,  \* IPData.Hostname of each address's entry
    topic,     \* messages published and not yet taken: [ip, tries]
    worker,    \* what each worker is doing
    cache,     \* the store's host names: absent, or what was cached
    out        \* the output channel: [ip, host]

vars == <<hostname, topic, worker, cache, out>>

Messages == [ip : IPs, tries : 1..Tries]
Answers == [ip : IPs, host : Hosts]
IdleWorker == [pc |-> "idle"]

-----------------------------------------------------------------------------
(* Resolve. *)

\* A slip: one try too many.
GivesUpLate(tries) == tries > Tries + 1

GivesUp(tries) == tries > Tries

\* Resolve publishes a request, unless it has been tried often enough.  The
\* topic drops what its subscriber cannot hold.
Resolve(ip, tries) ==
    topic' = IF GivesUp(tries) \/ Len(topic) >= PendingCap THEN topic
             ELSE Append(topic, [ip |-> ip, tries |-> tries])

\* A slip: the address is not marked.
AskUnmarked(ip) ==
    /\ hostname[ip] = ""
    /\ Resolve(ip, 1)
    /\ UNCHANGED <<hostname, worker, cache, out>>

\* ShouldBeBlocked asks for the host name of an address that has none: one step,
\* one goroutine judges an address at a time (BlockPipeline models two that race).
Ask(ip) ==
    /\ hostname[ip] = ""
    /\ hostname' = [hostname EXCEPT ![ip] = "resolving"]
    /\ Resolve(ip, 1)
    /\ UNCHANGED <<worker, cache, out>>

-----------------------------------------------------------------------------
(* Resolver.worker. *)

Take(w) ==
    /\ worker[w].pc = "idle"
    /\ topic # <<>>
    /\ topic' = Tail(topic)
    /\ worker' = [worker EXCEPT ![w] =
                    [pc |-> "cache", ip |-> Head(topic).ip, tries |-> Head(topic).tries]]
    /\ UNCHANGED <<hostname, cache, out>>

\* A slip: the worker goes on after it has asked for another try.
RetryFallsThrough(w) ==
    /\ Resolve(worker[w].ip, worker[w].tries + 1)
    /\ worker' = [worker EXCEPT ![w] = [pc |-> "answer", ip |-> @.ip, host |-> "", fresh |-> TRUE]]

\* A slip: the tries are counted anew.
RetryAnew(w) ==
    /\ Resolve(worker[w].ip, 1)
    /\ worker' = [worker EXCEPT ![w] = IdleWorker]

\* Another try, by the same way.
Retry(w) ==
    /\ Resolve(worker[w].ip, worker[w].tries + 1)
    /\ worker' = [worker EXCEPT ![w] = IdleWorker]

Answered(w, host, fresh) ==
    worker' = [worker EXCEPT ![w] = [pc |-> "answer", ip |-> @.ip, host |-> host, fresh |-> fresh]]

\* reverseLookup looks into the cache; an empty name, or an error of the store,
\* means another try.
LookIntoCache(w, fails) ==
    /\ worker[w].pc = "cache"
    /\ LET found == cache[worker[w].ip]
       IN  \/ fails /\ Retry(w)
           \/ ~fails /\ found = "" /\ Retry(w)
           \/ /\ ~fails /\ found \notin {"absent", ""}
              /\ Answered(w, found, FALSE) /\ UNCHANGED topic
           \/ /\ ~fails /\ found = "absent"
              /\ worker' = [worker EXCEPT ![w].pc = "dns"] /\ UNCHANGED topic
    /\ UNCHANGED <<hostname, cache, out>>

\* reverseDNSLookup takes the first record of the reply, if it is a PTR, and the
\* address itself if there is no such record: the server has failed, refused,
\* knows no name or refers to another one, which nobody asks.
Replies(ip) == {PTR[ip], "address"}

\* An exchange without a reply means another try.
AskDNS(w, fails) ==
    /\ worker[w].pc = "dns"
    /\ \/ fails /\ Retry(w)
       \/ /\ ~fails
          /\ \E host \in Replies(worker[w].ip) : Answered(w, host, TRUE)
          /\ UNCHANGED topic
    /\ UNCHANGED <<hostname, cache, out>>

\* The send on the output channel.
SendAnswer(w) ==
    /\ worker[w].pc = "answer"
    /\ Len(out) < OutCap
    /\ out' = Append(out, [ip |-> worker[w].ip, host |-> worker[w].host])
    /\ worker' = [worker EXCEPT ![w] = IF @.fresh THEN [pc |-> "store", ip |-> @.ip, host |-> @.host]
                                       ELSE IdleWorker]
    /\ UNCHANGED <<hostname, topic, cache>>

\* An answer of DNS is cached, after it has been sent.
StoreAnswer(w, fails) ==
    /\ worker[w].pc = "store"
    /\ cache' = IF fails THEN cache ELSE [cache EXCEPT ![worker[w].ip] = worker[w].host]
    /\ worker' = [worker EXCEPT ![w] = IdleWorker]
    /\ UNCHANGED <<hostname, topic, out>>

-----------------------------------------------------------------------------

\* resolvWorker: SetHostname on the address's entry.
SetHostname ==
    /\ out # <<>>
    /\ out' = Tail(out)
    /\ hostname' = [hostname EXCEPT ![Head(out).ip] = Head(out).host]
    /\ UNCHANGED <<topic, worker, cache>>

\* The cached host name expires.
CacheExpires(ip) ==
    /\ cache[ip] # "absent"
    /\ cache' = [cache EXCEPT ![ip] = "absent"]
    /\ UNCHANGED <<hostname, topic, worker, out>>

Init ==
    /\ hostname = [ip \in IPs |-> ""]
    /\ topic = <<>>
    /\ worker = [w \in Workers |-> IdleWorker]
    /\ cache \in [IPs -> {"absent"} \cup Hosts]
    /\ \A ip \in IPs : cache[ip] # "absent" => cache[ip] \in Replies(ip)
    /\ out = <<>>

WorkerSteps(w) ==
    Take(w) \/ LookIntoCache(w, FALSE) \/ AskDNS(w, FALSE) \/ SendAnswer(w) \/ StoreAnswer(w, FALSE)

Failures(w) == LookIntoCache(w, TRUE) \/ AskDNS(w, TRUE) \/ StoreAnswer(w, TRUE)

\* Without failures of DNS and of the store.
CalmNext ==
    \/ \E ip \in IPs : Ask(ip) \/ CacheExpires(ip)
    \/ \E w \in Workers : WorkerSteps(w)
    \/ SetHostname

Next == CalmNext \/ \E w \in Workers : Failures(w)

Spec == Init /\ [][Next]_vars

\* The workers and resolvWorker run, and a free worker is not passed over
\* forever.  Nothing is assumed of requests, failures and expiry.
CalmSpec ==
    /\ Init /\ [][CalmNext]_vars
    /\ \A w \in Workers : SF_vars(WorkerSteps(w))
    /\ WF_vars(SetHostname)

FairSpec ==
    /\ Spec
    /\ \A w \in Workers : SF_vars(WorkerSteps(w) \/ Failures(w))
    /\ WF_vars(SetHostname)

-----------------------------------------------------------------------------
(* Properties. *)

WorkerStates ==
    {IdleWorker} \cup [pc : {"cache", "dns"}, ip : IPs, tries : 1..Tries]
        \cup [pc : {"answer"}, ip : IPs, host : Hosts, fresh : BOOLEAN]
        \cup [pc : {"store"}, ip : IPs, host : Hosts]

\* The types of the variables; no request is tried more often than ResolverTries.
TypeOK ==
    /\ hostname \in [IPs -> {"resolving"} \cup Hosts]
    /\ topic \in Seq(Messages) /\ Len(topic) <= PendingCap
    /\ worker \in [Workers -> WorkerStates]
    /\ cache \in [IPs -> {"absent"} \cup Hosts]
    /\ out \in Seq(Answers) /\ Len(out) <= OutCap

\* Where the lookups of an address are on their way: published, in a worker, answered.
OnTheirWay(ip) ==
    {<<"topic", i>> : i \in {k \in 1..Len(topic) : topic[k].ip = ip}}
        \cup {<<"worker", w>> : w \in {v \in Workers :
                  worker[v].pc \in {"cache", "dns", "answer"} /\ worker[v].ip = ip}}
        \cup {<<"out", i>> : i \in {k \in 1..Len(out) : out[k].ip = ip}}

\* An address has at most one lookup on its way, and
\* that only while it is marked: retries, cache and failures never duplicate one
\* (reverseLookup returns after each call of Resolve).
OneLookup ==
    \A ip \in IPs : \A p, q \in OnTheirWay(ip) : p = q /\ hostname[ip] = "resolving"

\* What is cached, sent and stored for an address is its name or the address
\* itself: never another address's name, and nothing empty unless the name is.
\* Nothing tells a name that was not found from one that was not asked for well.
OwnNameOrAddress ==
    /\ \A ip \in IPs : /\ cache[ip] \in {"absent"} \cup Replies(ip)
                       /\ hostname[ip] \in {"", "resolving"} \cup Replies(ip)
    /\ \A i \in 1..Len(out) : out[i].host \in Replies(out[i].ip)

\* No lookup goes on forever, whatever fails: it is answered, given up or dropped
\* (the flag resolver-tries).
LookupsEnd == \A ip \in IPs : (OnTheirWay(ip) # {}) ~> (OnTheirWay(ip) = {})

Pending == {ip \in IPs : OnTheirWay(ip) # {}}

Abstract == INSTANCE LookupService WITH pending <- Pending

\* Seen from outside, a lookup is answered once, with the address's own name or the
\* address, or lost: no retry or cached name shows, and no answer comes without a
\* question.
ImplementsLookupService == Abstract!Spec

-----------------------------------------------------------------------------
(* What the documentation says and the code does not keep. *)

\* README: "resolved IPs are being cached": an address that has been resolved is
\* resolved again, from the cache or by DNS, when nothing fails.
ResolvedAgain ==
    \A ip \in IPs : (hostname[ip] = "resolving") ~> (hostname[ip] # "resolving")
=============================================================================
