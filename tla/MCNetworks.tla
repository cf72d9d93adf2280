----------------------------- MODULE MCNetworks -----------------------------
(* Instances of Networks for TLC: every network in one autonomous system. *)
EXTENDS Networks

CONSTANT a1

MCASNOf == [c \in Nets |-> a1]
=============================================================================
