---------------------------- MODULE MCBeatSystem ----------------------------
(***************************************************************************)
(* Small instances of BeatSystem.  Thresholds and durations are the same   *)
(* in every phase but the direction: a score of 0 lets only the falling    *)
(* phases go, a score of 100 only the rising ones.                         *)
(***************************************************************************)
EXTENDS BeatSystem, TLC

CONSTANTS b1, b2

MCThreshold == [p \in Phases |-> 50]
MCIdeal     == [p \in Phases |-> 1]

\* Beats are interchangeable: nothing in the model tells them apart.
Symmetry == Permutations(Beats)
=============================================================================
