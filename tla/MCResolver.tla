------------------------------ MODULE MCResolver ------------------------------
(* Instances of Resolver for TLC. *)
EXTENDS Resolver

CONSTANT a1

\* The PTR record of a1 is the root.
MCMixed == [ip \in IPs |-> IF ip = a1 THEN "" ELSE "name"]
=============================================================================
