---------------------------- MODULE PhaseTracker ----------------------------
(***************************************************************************)
(* The narrative phase and the time spent in it (src/PhaseTracker.cpp).    *)
(* The Freytag cycle has five phases; each is left when the tension score  *)
(* crosses that phase's threshold, never before a minimum dwell.           *)
(*                                                                         *)
(* Every operation runs under PhaseTracker's own mutex, so each is one     *)
(* step.  Time is counted in whole samples up to MaxDwell: no comparison   *)
(* in the code tells a longer dwell from MaxDwell.                         *)
(***************************************************************************)
EXTENDS Integers

CONSTANTS
  AdvanceThreshold,   \* [Phases -> 0..100], Settings advanceThreshold*
  MinPhaseDuration,   \* Settings minPhaseDurationSeconds, may be negative
  MaxDwell            \* bound: longest dwell told apart

Exposition    == 0
RisingAction  == 1
Climax        == 2
FallingAction == 3
Resolution    == 4
PhaseCount    == 5
Phases        == 0 .. PhaseCount - 1
NoPhase       == PhaseCount          \* std::nullopt

Tensions == 0 .. 100                 \* what ParseDecision clamps a score to

ASSUME PhaseConstants ==
  /\ AdvanceThreshold \in [Phases -> Int]
  /\ MinPhaseDuration \in Int
  /\ MaxDwell \in Nat \ {0}

VARIABLES
  phase,    \* g_phase
  dwell     \* g_baseSeconds

phaseVars == <<phase, dwell>>

-----------------------------------------------------------------------------
\* NextPhase: the successor by enum index, wrapping at the end of the table.
NextPhase(p) == IF p + 1 >= PhaseCount THEN Exposition ELSE p + 1

\* The phases the cycle wants tension to fall in; it rises in the others.
OutgoingDirection(p) == IF p \in {Climax, FallingAction} THEN "Lower" ELSE "Raise"

Floor(n) == IF n < 0 THEN 0 ELSE n

\* The per-phase arms of EvaluateAdvance's switch: when the arm takes its
\* branch, and the phase it returns.
Crossed(p, score) ==
  IF p \in {Climax, FallingAction} THEN score <= AdvanceThreshold[p]
                                   ELSE score >= AdvanceThreshold[p]

\* A plausible bug, to test the properties with: Exposition skips a phase.
TargetSkips == [p \in Phases |->
                  CASE p = Exposition -> Climax    [] p = RisingAction -> Climax
                    [] p = Climax -> FallingAction [] p = FallingAction -> Resolution
                    [] p = Resolution -> Exposition]

Target == [p \in Phases |->
             CASE p = Exposition    -> RisingAction
               [] p = RisingAction  -> Climax
               [] p = Climax        -> FallingAction
               [] p = FallingAction -> Resolution
               [] p = Resolution    -> Exposition]

EvaluateAdvance(p, score, seconds) ==
  IF seconds >= Floor(MinPhaseDuration) /\ Crossed(p, score)
  THEN Target[p]
  ELSE NoPhase

\* BeatSystem's ComputeTensionDelta: how far tension still is from the
\* threshold that lets the phase go.
ComputeTensionDelta(p, score) ==
  IF p \in {Climax, FallingAction} THEN Floor(score - AdvanceThreshold[p])
                                   ELSE Floor(AdvanceThreshold[p] - score)

-----------------------------------------------------------------------------
InitPhase == phase = Exposition /\ dwell = 0

\* SampleLocked in an unpaused game; a paused one leaves the clock alone.
Sample ==
  /\ dwell' = IF dwell < MaxDwell THEN dwell + 1 ELSE dwell
  /\ UNCHANGED phase

AdvanceTo(p) == phase' = p /\ dwell' = 0

\* Reset and OnRevert, and OnLoad of a record it cannot read.
Reset == AdvanceTo(Exposition)

\* OnLoad of a record it can read.
RestorePhase(p, seconds) == phase' = p /\ dwell' = seconds

PhaseTypeOK == phase \in Phases /\ dwell \in 0 .. MaxDwell
=============================================================================
