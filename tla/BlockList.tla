------------------------------ MODULE BlockList ------------------------------
(***************************************************************************)
(* What botex promises about the block list, without the goroutines,       *)
(* objects and channels that keep it: an address is suspected, listed for  *)
(* the block TTL, and let go.  BlockPipeline implements this module;       *)
(* WebserverSocket reads a list that behaves like it.                      *)
(***************************************************************************)
EXTENDS Naturals

CONSTANTS
    IPs,           \* addresses
    BlockTTL,      \* config.BlockTTL, in ticks
    ClearBlocked   \* config.ClearBlocked

VARIABLES
    suspects,  \* addresses some goroutine has found worth a block
    ttl,       \* remaining time of each entry, 0 for an address not listed
    rules      \* the whitelist: addresses exempt as such, or by their host name

listVars == <<suspects, ttl, rules>>

\* What may happen to the entries: one is made for the whole TTL if there is none,
\* all of them grow older, one is removed.
Enter(ip) == ttl[ip] = 0 /\ ttl' = [ttl EXCEPT ![ip] = BlockTTL]

Elapse == ttl' = [ip \in IPs |-> IF ttl[ip] > 0 THEN ttl[ip] - 1 ELSE 0]

Remove(ip) == ttl' = [ttl EXCEPT ![ip] = 0]

RuleSets == [addr : SUBSET IPs, host : SUBSET IPs]

Init ==
    /\ suspects = {}
    /\ ttl = [ip \in IPs |-> 0]
    /\ rules \in RuleSets

\* An address becomes suspect only while no address rule exempts it.
Suspect(ip) ==
    /\ ip \notin rules.addr
    /\ suspects' = suspects \cup {ip}
    /\ UNCHANGED <<ttl, rules>>

\* Suspicions may be dropped: a full limit again, a skipped order, a failed write.
Acquit(ips) ==
    /\ suspects' = suspects \ ips
    /\ UNCHANGED <<ttl, rules>>

\* Only a suspect is listed, for the whole TTL, and only if it is not listed yet.
\* It may be suspected once more at the same time.
List(ip) ==
    /\ ip \in suspects
    /\ Enter(ip)
    /\ suspects' \in {suspects, suspects \ {ip}}
    /\ UNCHANGED rules

\* Time passes for all entries alike.
Age ==
    /\ Elapse
    /\ UNCHANGED <<suspects, rules>>

\* The recheck lets an exempt address go.
Pardon(ip) ==
    /\ ip \in rules.addr \cup rules.host
    /\ Remove(ip)
    /\ UNCHANGED <<suspects, rules>>

ChangeRules ==
    /\ rules' \in RuleSets
    /\ UNCHANGED <<suspects, ttl>>

\* A restart forgets the suspects, and the entries only if it is told to.
StartAgain ==
    /\ suspects' = {}
    /\ ttl' = IF ClearBlocked THEN [ip \in IPs |-> 0] ELSE ttl
    /\ rules' \in RuleSets

\* What happens to the list while the program runs.
Running ==
    \/ \E ip \in IPs : Suspect(ip) \/ List(ip) \/ Pardon(ip)
    \/ \E ips \in SUBSET IPs : Acquit(ips)
    \/ Age
    \/ ChangeRules

Next == Running \/ StartAgain

Spec == Init /\ [][Next]_listVars
=============================================================================
