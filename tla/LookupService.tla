---------------------------- MODULE LookupService ----------------------------
(***************************************************************************)
(* What the rest of botex relies on when it asks for a host name: a        *)
(* question is answered at most once, with the name of the asked address   *)
(* or with the address itself, which says that no name was found, or not   *)
(* at all.                                                                 *)
(* Topic, workers, cache and tries are Resolver's own business; Resolver   *)
(* implements this module.                                                 *)
(***************************************************************************)
CONSTANTS
    IPs,        \* addresses
    PTR         \* PTR[ip]: what DNS says, "name" or ""

VARIABLES
    hostname,   \* IPData.Hostname of each address's entry
    pending     \* addresses with a lookup under way

serviceVars == <<hostname, pending>>

Init ==
    /\ hostname = [ip \in IPs |-> ""]
    /\ pending = {}

\* A question may be lost at once.
Ask(ip) ==
    /\ hostname[ip] = ""
    /\ hostname' = [hostname EXCEPT ![ip] = "resolving"]
    /\ pending' \in {pending, pending \cup {ip}}

\* The name, or the address when the reply had no name.
Answers(ip) == {PTR[ip], "address"}

\* The answer ends the lookup.
Answer(ip) ==
    /\ ip \in pending
    /\ \E host \in Answers(ip) : hostname' = [hostname EXCEPT ![ip] = host]
    /\ pending' = pending \ {ip}

\* A lookup is given up and nobody is told: the address stays marked.
Lose(ip) ==
    /\ ip \in pending
    /\ pending' = pending \ {ip}
    /\ UNCHANGED hostname

Next == \E ip \in IPs : Ask(ip) \/ Answer(ip) \/ Lose(ip)

Spec == Init /\ [][Next]_serviceVars
=============================================================================
