-------------------------- MODULE MCProfileBandit ---------------------------
(***************************************************************************)
(* Small instances of ProfileBandit.  Three profiles on one dial; the      *)
(* default is the lowest one.                                              *)
(***************************************************************************)
EXTENDS ProfileBandit, TLC

CONSTANTS p1, p2, dash, t0

Dial == 1 .. 3
OneStep == [v \in Dial |-> {w \in Dial : w - v \in {-1, 1}}]
OnP1 == [d \in Dashboard |-> p1]
DefaultDial == [t \in Thread |-> 1]

(* A good and a poor explicit call, with a fresh and with a high rolling   *)
(* mean; rewards are in tenths, an implicit repeat would weigh half.       *)
TwoSignals == {[raw |-> 9, mean |-> 0, weight |-> 2],
               [raw |-> 1, mean |-> 5, weight |-> 2]}

(* A call that used no extra file and few tokens, after a run of others    *)
(* like it.                                                                *)
AtParSignals == {[raw |-> 9, mean |-> 8, weight |-> 2]}

(* The two processes of a run are interchangeable.                         *)
Interchangeable == Permutations({p1, p2})

(* The history decides no step: what a run that does not ask for it sees.  *)
HistoryAside == <<current, deflt, samples, served, active, job>>
=============================================================================
