---------------------------- MODULE TunedProfile ----------------------------
(***************************************************************************)
(* What docs/heuristics.md promises about the live retrieval profile of    *)
(* one intent, however it is tuned: it is seeded once, with the default;   *)
(* afterwards it moves by one dial step at a time or goes back to the      *)
(* frozen default, and it is never lost again.                             *)
(***************************************************************************)

CONSTANTS
    Profile,    \* the profiles
    Perturb,    \* the profiles one dial step away from each profile
    Default,    \* the frozen default of the intent
    NoProfile   \* nothing stored

VARIABLE live   \* the live profile

Init == live = NoProfile

Seed == live = NoProfile /\ live' = Default

(* A promoted candidate is one dial step away from what it replaces.       *)
Tune == live # NoProfile /\ live' \in Perturb[live]

(* A rollback or a manual reset.                                           *)
Restore == live # NoProfile /\ live' = Default

Next == Seed \/ Tune \/ Restore

Spec == Init /\ [][Next]_live
=============================================================================
