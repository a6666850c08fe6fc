---------------------------- MODULE RouterState ----------------------------
(***************************************************************************)
(* What the models of devrouter's state in Redis have in common: the       *)
(* processes, and how often a Redis command fails or a process ends.       *)
(***************************************************************************)
EXTENDS Integers, FiniteSets, Sequences

CONSTANTS
    Servers,       \* devrouter processes
    Nothing,       \* an empty field
    MaxMishaps     \* bound: failing commands and crashes

ASSUME MishapsAssumption == MaxMishaps \in Nat

VARIABLE mishaps

Fail == mishaps < MaxMishaps /\ mishaps' = mishaps + 1
=============================================================================
