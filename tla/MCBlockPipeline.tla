--------------------------- MODULE MCBlockPipeline ---------------------------
(* Small instances of BlockPipeline for TLC. *)
EXTENDS BlockPipeline, TLC

\* Every address belongs to every group: with one group, a network in common.
MCGroupsOf == [ip \in IPs |-> Groups]

\* DNS knows a name of every address.
AllNamed == [ip \in IPs |-> "name"]

\* Bound: two kinds of behaviours under fixed rules, for properties that hold of
\* different ones.  Without a rule on addresses the plugin finds nothing, as if it were
\* not there, and lookups are prompt.  With such a rule everything may happen.
ByRules == rules.addr = {} => PromptLookups /\ plugin' = "idle"

MCSymmetry == Permutations(IPs) \cup Permutations(Gens) \cup Permutations(Ingesters)
=============================================================================
