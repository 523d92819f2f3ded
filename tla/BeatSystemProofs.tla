-------------------------- MODULE BeatSystemProofs --------------------------
(***************************************************************************)
(* Safety of BeatSystem for every set of beats and every setting.          *)
(*                                                                         *)
(* The inductive invariant is the conjunction of the type invariant, the   *)
(* three invariants the runs check, and PickIsABeat: StartBeatInternal is  *)
(* only reached with a beat that was picked, which is what makes the name  *)
(* it writes a registered one.                                             *)
(***************************************************************************)
EXTENDS BeatSystem, TLAPS

PickIsABeat == eval.pc \in {"start", "onstart", "threw", "push"} => eval.pick \in Beats

\* The advance step is only reached by a decision that names a phase.
AdvanceIsNamed == eval.pc = "advance" => eval.advance # NoPhase

\* How often the current decision has been appended, step by step.
AppendCount == eval.applied = IF eval.pc \in {"advance", "release"} THEN 1 ELSE 0

EvalOK == PickIsABeat /\ AdvanceIsNamed /\ AppendCount

\* Target covers every phase, so an advance names a phase or none.
LEMMA AdvanceType ==
  ASSUME NEW p \in Phases, NEW score, NEW seconds
  PROVE  EvaluateAdvance(p, score, seconds) \in Phases \cup {NoPhase}
BY DEF EvaluateAdvance, Target, Phases, NoPhase, PhaseCount, Exposition, RisingAction, Climax,
       FallingAction, Resolution

\* The step EvaluateAdvance takes is the step NextPhase takes: the switch of
\* the one and the index arithmetic of the other agree on all five phases.
THEOREM AdvanceIsSuccessor ==
  ASSUME NEW p \in Phases, NEW score, NEW seconds,
         EvaluateAdvance(p, score, seconds) # NoPhase
  PROVE  EvaluateAdvance(p, score, seconds) = NextPhase(p)
BY DEF EvaluateAdvance, Target, NextPhase, Phases, NoPhase, PhaseCount, Exposition,
       RisingAction, Climax, FallingAction, Resolution

-----------------------------------------------------------------------------
(* Type correctness, one lemma per component of TypeOK.                    *)

LEMMA SlotTypeStep == ASSUME TypeOK, SaveIsRestorable, PickIsABeat, Next PROVE SlotTypeOK'
<1> USE BeatConstants, PhaseConstants DEF SlotTypeOK
<1>1. CASE PollAccrue BY <1>1 DEF PollAccrue, TypeOK
<1>2. CASE TickAdvance BY <1>2 DEF TickAdvance, Applies, TypeOK, WorkTypeOK, TickResults, BeatStates, LiveStates, IdleWork
<1>3. CASE TickRelease BY <1>3 DEF TickRelease, ReleaseSlot, TypeOK, BeatStates
<1>4. CASE EvalFailed BY <1>4 DEF EvalFailed, TypeOK
<1>5. CASE EvalStart BY <1>5 DEF EvalStart, TypeOK, PickIsABeat, BeatStates, LiveStates
<1>6. CASE EvalThrew BY <1>6 DEF EvalThrew, ReleaseSlot, BeatStates
<1>7. CASE AbortForce BY <1>7 DEF AbortForce, ReleaseSlot, BeatStates
<1>8. CASE LoadBegin \/ LoadRevert
  BY <1>8 DEF LoadBegin, LoadRevert, RevertAll, ReleaseSlot, BeatStates
<1>9. CASE LoadRecords
  BY <1>9 DEF LoadRecords, LoadSlot, ReleaseSlot, SlotRecords, BeatStates, LiveStates
<1>10. CASE UNCHANGED slotVars BY <1>10 DEF slotVars, TypeOK
<1> QED BY <1>1, <1>2, <1>3, <1>4, <1>5, <1>6, <1>7, <1>8, <1>9, <1>10
  DEF Next, Poll, Work, EvalStep, Main, PollCapture, PollSkip, PollEnqueue, TickEnter, TickReturn,
      TickDiscard, TickClear, EvalTake, EvalSnapshot, EvalTension, EvalBlocked, EvalCandidates,
      EvalFilter, EvalSelectFails, EvalRetry, EvalPick, EvalDropped, EvalRefused, EvalOnStart,
      EvalPush, EvalAppend, EvalAdvance, EvalRelease, EvalGivesUp, TickFire, ForceDispatchBeat,
      AbortRead, AbortBeat, LoadDone, WindowPasses

LEMMA RingTypeStep == ASSUME TypeOK, PickIsABeat, Next PROVE RingTypeOK'
<1> USE BeatConstants DEF RingTypeOK
<1>1. CASE EvalPush
  <2>1. eval.pick \in Beats BY <1>1 DEF EvalPush, PickIsABeat
  <2> DEFINE ring == Append(recentlyFired, eval.pick)
  <2>2. ring \in Seq(Beats) /\ Len(ring) = Len(recentlyFired) + 1 /\ ring # <<>>
    BY <2>1 DEF TypeOK
  <2>3. Tail(ring) \in Seq(Beats) /\ Len(Tail(ring)) = Len(ring) - 1 BY <2>2
  <2>4. recentlyFired' = IF Len(ring) > RecentCap THEN Tail(ring) ELSE ring
    BY <1>1 DEF EvalPush
  <2> HIDE DEF ring
  <2> QED BY <2>2, <2>3, <2>4 DEF TypeOK
<1>2. CASE WindowPasses BY <1>2 DEF WindowPasses, TypeOK
<1>3. CASE recentlyFired' = <<>> BY <1>3
<1>4. CASE UNCHANGED recentlyFired BY <1>4 DEF TypeOK
<1> QED BY <1>1, <1>2, <1>3, <1>4
  DEF Next, Poll, Work, EvalStep, Main, PollAccrue, PollCapture, PollSkip, PollEnqueue, TickEnter,
      TickReturn, TickDiscard, TickAdvance, TickRelease, TickClear, EvalTake, EvalSnapshot,
      EvalTension, EvalBlocked, EvalCandidates, EvalFilter, EvalSelectFails, EvalRetry, EvalPick,
      EvalFailed, EvalDropped, EvalRefused, EvalStart, EvalOnStart, EvalThrew, EvalAppend,
      EvalAdvance, EvalRelease, EvalGivesUp, TickFire, ForceDispatchBeat, AbortRead, AbortBeat,
      AbortForce, LoadBegin, LoadRevert, LoadRecords, LoadSlot, LoadDone, RevertAll, evalFrame

\* What a Tick may return, and what it makes of the beat's session.
LEMMA TickOutcomesType ==
  ASSUME NEW state \in LiveStates, NEW s \in Sessions
  PROVE  TickOutcomes(state, s) \subseteq [result : TickResults, session : Sessions]
<1>1. CASE state = "COMPOSE" BY <1>1 DEF TickOutcomes, Sessions, TickResults, BeatStates, LiveStates
<1>2. CASE state = "RUNNING" BY <1>2 DEF TickOutcomes, TickResults, BeatStates, LiveStates
<1>3. CASE state = "CLEANUP" BY <1>3 DEF TickOutcomes, Sessions, TickResults, BeatStates, LiveStates
<1> QED BY <1>1, <1>2, <1>3 DEF LiveStates

\* The types of the tick worker: what it is doing, and what it was handed.
LEMMA WorkTypeStep ==
  ASSUME TypeOK, SaveIsRestorable, PickIsABeat, Next PROVE WorkTypeOK'
<1> USE DEF TypeOK, WorkTypeOK
<1>1. /\ pollOwner' \in Owners /\ tickOwner' \in Owners
      /\ intrusion' \in {"none", "early", "stale"}
  <2> USE DEF Owners
  <2>1. CASE Poll \/ Work
    BY <2>1 DEF Poll, Work, PollAccrue, PollCapture, PollSkip, PollEnqueue, TickEnter, TickReturn,
                TickDiscard, TickAdvance, TickRelease, TickClear, TicksLost, Lost, pollVars, workVars
  <2>2. CASE EvalStep
    BY <2>2 DEF EvalStep, EvalTake, EvalSnapshot, EvalTension, EvalBlocked, EvalCandidates,
                EvalFilter, EvalSelectFails, EvalRetry, EvalPick, EvalFailed, EvalDropped,
                EvalRefused, EvalStart, EvalOnStart, EvalThrew, EvalPush, EvalAppend, EvalAdvance,
                EvalRelease, EvalGivesUp, TicksLost, Lost, pollVars, workVars, evalFrame
  <2>3. CASE TickFire \/ Main \/ WindowPasses
    BY <2>3 DEF TickFire, Main, WindowPasses, ForceDispatchBeat, AbortRead, AbortBeat, AbortForce,
                LoadBegin, LoadRevert, LoadRecords, LoadDone, RevertAll, TicksLost, Lost,
                pollVars, workVars, mainFrame
  <2> QED BY <2>1, <2>2, <2>3 DEF Next
<1>2. session' \in [Beats -> Sessions]
  <2>1. CASE TickReturn
    <3>1. work.beat \in Beats /\ work.state \in LiveStates BY <2>1 DEF TickReturn, IdleWork
    <3> QED BY <3>1, <2>1, TickOutcomesType DEF TickReturn
  <2>2. CASE EvalOnStart BY <2>2 DEF EvalOnStart, Sessions
  <2>3. CASE AbortBeat BY <2>3 DEF AbortBeat, Sessions
  <2>4. CASE LoadBegin \/ LoadRevert BY <2>4 DEF LoadBegin, LoadRevert, RevertAll
  <2>5. CASE UNCHANGED session BY <2>5
  <2> QED BY <2>1, <2>2, <2>3, <2>4, <2>5
    DEF Next, Poll, Work, EvalStep, Main, PollAccrue, PollCapture, PollSkip, PollEnqueue,
        TickEnter, TickDiscard, TickAdvance, TickRelease, TickClear, EvalTake, EvalSnapshot,
        EvalTension, EvalBlocked, EvalCandidates, EvalFilter, EvalSelectFails, EvalRetry, EvalPick,
        EvalFailed, EvalDropped, EvalRefused, EvalStart, EvalThrew, EvalPush, EvalAppend,
        EvalAdvance, EvalRelease, EvalGivesUp, TickFire, ForceDispatchBeat, AbortRead, AbortForce,
        LoadRecords, LoadDone, WindowPasses, evalFrame
<1>3. poll' \in CapturedTick \cup {NoTick}
  <2>1. CASE PollCapture
    BY <2>1 DEF PollCapture, Idle, SaveIsRestorable, SavedSlot, SlotRecords, CapturedTick
  <2>2. CASE poll' = NoTick BY <2>2
  <2>3. CASE UNCHANGED poll BY <2>3
  <2> QED BY <2>1, <2>2, <2>3
    DEF Next, Poll, Work, EvalStep, Main, PollAccrue, PollSkip, PollEnqueue, TickEnter, TickReturn,
        TickDiscard, TickAdvance, TickRelease, TickClear, EvalTake, EvalSnapshot, EvalTension,
        EvalBlocked, EvalCandidates, EvalFilter, EvalSelectFails, EvalRetry, EvalPick, EvalFailed,
        EvalDropped, EvalRefused, EvalStart, EvalOnStart, EvalThrew, EvalPush, EvalAppend,
        EvalAdvance, EvalRelease, EvalGivesUp, TickFire, ForceDispatchBeat, AbortRead, AbortBeat,
        AbortForce, LoadBegin, LoadRevert, LoadRecords, LoadDone, WindowPasses, evalFrame,
        mainFrame, pollVars
<1>4. /\ beatTickInFlight' \in BOOLEAN /\ workQueue' \in Seq(CapturedTick)
      /\ work' \in [pc : {"ticking", "apply", "clear"}, beat : Beats, state : LiveStates,
                    result : TickResults] \cup {IdleWork}
  <2>1. CASE PollEnqueue
    <3>1. poll \in CapturedTick BY <2>1 DEF PollEnqueue
    <3> QED BY <3>1, <2>1 DEF PollEnqueue
  <2>2. CASE TickEnter
    <3>1. Head(workQueue) \in CapturedTick /\ Tail(workQueue) \in Seq(CapturedTick)
      BY <2>2 DEF TickEnter
    <3> QED BY <3>1, <2>2 DEF TickEnter, CapturedTick, TickResults, BeatStates
  <2>3. CASE TickReturn
    <3>1. /\ work \in [pc : {"ticking", "apply", "clear"}, beat : Beats, state : LiveStates,
                       result : TickResults]
          /\ UNCHANGED <<beatTickInFlight, workQueue>>
      BY <2>3 DEF TickReturn, IdleWork
    <3>2. PICK o \in TickOutcomes(work.state, session[work.beat]) :
            work' = [work EXCEPT !.pc = "apply", !.result = o.result]
      BY <2>3 DEF TickReturn
    <3>3. o.result \in TickResults BY <3>1, <3>2, TickOutcomesType
    <3> QED BY <3>1, <3>2, <3>3
  <2>4. CASE TickDiscard \/ TickAdvance \/ TickRelease
    BY <2>4 DEF TickDiscard, TickAdvance, TickRelease, IdleWork
  <2>5. CASE TickClear BY <2>5 DEF TickClear
  <2>6. CASE UNCHANGED <<beatTickInFlight, workQueue, work>> BY <2>6
  <2> QED BY <2>1, <2>2, <2>3, <2>4, <2>5, <2>6
    DEF Next, Poll, Work, EvalStep, Main, PollAccrue, PollCapture, PollSkip, EvalTake,
        EvalSnapshot, EvalTension, EvalBlocked, EvalCandidates, EvalFilter, EvalSelectFails,
        EvalRetry, EvalPick, EvalFailed, EvalDropped, EvalRefused, EvalStart, EvalOnStart,
        EvalThrew, EvalPush, EvalAppend, EvalAdvance, EvalRelease, EvalGivesUp, TickFire,
        ForceDispatchBeat, AbortRead, AbortBeat, AbortForce, LoadBegin, LoadRevert, LoadRecords,
        LoadDone, WindowPasses, evalFrame, mainFrame, workVars
<1> QED BY <1>1, <1>2, <1>3, <1>4

LEMMA PhaseTypeStep == ASSUME TypeOK, AdvanceIsNamed, Next PROVE PhaseTypeOK'
<1> USE PhaseConstants, BeatConstants DEF TypeOK, PhaseTypeOK
<1> DEFINE Sampled == phase' = phase /\ dwell' = IF dwell < MaxDwell THEN dwell + 1 ELSE dwell
<1>1. CASE Sampled BY <1>1
<1>2. CASE EvalAdvance
  BY <1>2 DEF EvalAdvance, AdvanceTo, EvalTypeOK, Evaluations, AdvanceIsNamed
<1>3. CASE LoadRecords
  BY <1>3 DEF LoadRecords, RestorePhase, Reset, AdvanceTo, Phases, Exposition, PhaseCount
<1>4. CASE Reset BY <1>4 DEF Reset, AdvanceTo, Phases, Exposition, PhaseCount
<1>5. CASE UNCHANGED phaseVars BY <1>5 DEF phaseVars
<1> QED BY <1>1, <1>2, <1>3, <1>4, <1>5
  DEF Next, Poll, Work, EvalStep, Main, PollAccrue, PollCapture, PollSkip, PollEnqueue, TickEnter,
      TickReturn, TickDiscard, TickAdvance, TickRelease, TickClear, EvalTake, EvalSnapshot,
      EvalTension, EvalBlocked, EvalCandidates, EvalFilter, EvalSelectFails, EvalRetry, EvalPick,
      EvalFailed, EvalDropped, EvalRefused, EvalStart, EvalOnStart, EvalThrew, EvalPush,
      EvalAppend, EvalRelease, EvalGivesUp, TickFire, Sample, ForceDispatchBeat, AbortRead,
      AbortBeat, AbortForce, LoadBegin, LoadRevert, LoadDone, RevertAll, WindowPasses

\* The types of the evaluation worker.
LEMMA CarryType ==
  ASSUME EvalTypeOK, NEW pc \in EvalSteps, NEW b \in Beats \cup {NoBeat}
  PROVE  Carry(pc, b) \in Evaluations
BY PhaseConstants, BeatConstants
   DEF Carry, IdleEval, EvalTypeOK, Evaluations, Phases, Exposition, PhaseCount, NoPhase

LEMMA BeginType ==
  ASSUME NEW pc \in {"idle"} \cup EvalSteps, NEW forced \in Beats \cup {NoBeat},
         NEW C \in SUBSET Beats, NEW n \in {0, 1}
  PROVE  Begin(pc, forced, C, n) \in Evaluations
BY PhaseConstants, BeatConstants
   DEF Begin, Evaluations, Phases, Exposition, PhaseCount, NoPhase

LEMMA EvalTypeStep == ASSUME TypeOK, PhaseTypeOK', Next PROVE EvalTypeOK'
<1> USE PhaseConstants, BeatConstants
<1>1. eval \in Evaluations /\ evalQueue \in Seq(Beats \cup {NoBeat}) /\ inFlight \in BOOLEAN
  BY DEF TypeOK, EvalTypeOK
<1>2. IdleEval \in Evaluations
  BY BeginType DEF IdleEval
<1>3. \A pc \in EvalSteps, b \in Beats \cup {NoBeat} : Carry(pc, b) \in Evaluations
  BY CarryType DEF TypeOK
<1>4. CASE EvalTake
  <2>1. Head(evalQueue) \in Beats \cup {NoBeat} /\ Tail(evalQueue) \in Seq(Beats \cup {NoBeat})
    BY <1>1, <1>4 DEF EvalTake
  <2>2. CASE Head(evalQueue) = NoBeat
    BY <1>2, <1>4, <2>1, <2>2, BeginType DEF EvalTake, EvalTypeOK, EvalSteps
  <2>3. CASE Head(evalQueue) # NoBeat
    BY <1>1, <1>4, <2>1, <2>3, BeginType DEF EvalTake, EvalTypeOK, EvalSteps
  <2> QED BY <2>2, <2>3
<1>5. CASE EvalSnapshot
  <2>1. phase \in Phases /\ dwell' \in 0 .. MaxDwell BY DEF TypeOK, PhaseTypeOK
  <2> QED BY <1>1, <1>5, <2>1
    DEF EvalSnapshot, EvalTypeOK, Evaluations, EvalSteps, evalFrame
<1>6. CASE EvalTension
  <2>1. eval.phase \in Phases BY <1>1 DEF Evaluations
  <2>2. \A score \in Scores :
          EvaluateAdvance(eval.phase, score, eval.dwell) \in Phases \cup {NoPhase}
    BY <2>1, AdvanceType
  <2>3. PICK a \in Phases \cup {NoPhase} : eval' = [eval EXCEPT !.pc = "gates", !.advance = a]
    <3>1. CASE eval' = [eval EXCEPT !.pc = "gates"]
      <4>1. eval.advance \in Phases \cup {NoPhase} BY <1>1 DEF Evaluations
      <4>2. eval' = [eval EXCEPT !.pc = "gates", !.advance = eval.advance]
        BY <1>1, <3>1 DEF Evaluations
      <4> QED BY <4>1, <4>2
    <3>2. CASE \E score \in Scores :
                 eval' = [eval EXCEPT !.pc = "gates",
                            !.advance = EvaluateAdvance(eval.phase, score, eval.dwell)]
      BY <3>2, <2>2
    <3> QED BY <3>1, <3>2, <1>6 DEF EvalTension
  <2> QED BY <1>1, <1>6, <2>3 DEF EvalTension, EvalTypeOK, Evaluations, EvalSteps, evalFrame
<1>7. CASE EvalCandidates \/ EvalRetry \/ EvalRefused \/ EvalStart \/ EvalAppend \/ EvalAdvance
  <2> USE <1>1 DEF EvalTypeOK, Evaluations, EvalSteps, evalFrame
  <2>1. CASE EvalCandidates BY <2>1 DEF EvalCandidates
  <2>2. CASE EvalRetry
    <3> DEFINE n == eval.attempt + 1
    <3>1. eval' = [eval EXCEPT !.attempt = n] BY <2>2 DEF EvalRetry
    <3>2. eval.attempt \in 0 .. SelectAttempts /\ eval.attempt < SelectAttempts
      BY <2>2 DEF EvalRetry
    <3>3. n \in 0 .. SelectAttempts BY <3>2
    <3> HIDE DEF n
    <3> QED BY <2>2, <3>1, <3>3 DEF EvalRetry
  <2>3. CASE EvalRefused \/ EvalStart BY <2>3 DEF EvalRefused, EvalStart
  <2>4. CASE EvalAppend
    <3> DEFINE n  == eval.applied + 1
               pc == IF eval.advance = NoPhase THEN "release" ELSE "advance"
    <3>1. eval' = [eval EXCEPT !.applied = n, !.pc = pc] BY <2>4 DEF EvalAppend
    <3>2. n \in Nat /\ pc \in EvalSteps OBVIOUS
    <3> HIDE DEF n, pc
    <3> QED BY <2>4, <3>1, <3>2 DEF EvalAppend
  <2>5. CASE EvalAdvance BY <2>5 DEF EvalAdvance
  <2> QED BY <1>7, <2>1, <2>2, <2>3, <2>4, <2>5
<1>8. CASE EvalOnStart \/ EvalThrew
  BY <1>1, <1>8 DEF EvalOnStart, EvalThrew, EvalTypeOK, Evaluations, EvalSteps
<1>9. CASE EvalBlocked \/ EvalSelectFails \/ EvalFailed \/ EvalDropped \/ EvalPush
  BY <1>1, <1>3, <1>9 DEF EvalBlocked, EvalSelectFails, EvalFailed, EvalDropped, EvalPush,
                          EvalTypeOK, EvalSteps, evalFrame
<1>10. CASE EvalPick
  <2>1. eval.candidates \subseteq Beats BY <1>1 DEF Evaluations
  <2> QED BY <1>1, <1>3, <1>10, <2>1 DEF EvalPick, EvalTypeOK, EvalSteps, evalFrame
<1>11. CASE EvalFilter
  <2> DEFINE fresh == eval.candidates \ Recent
  <2>1. fresh \in SUBSET Beats BY <1>1 DEF Evaluations
  <2>2. CASE fresh = {}
    BY <1>1, <1>3, <1>11, <2>2 DEF EvalFilter, EvalTypeOK, EvalSteps, evalFrame
  <2>3. CASE fresh # {}
    <3>1. eval' = [eval EXCEPT !.pc = "select", !.candidates = fresh, !.attempt = 1]
      BY <1>11, <2>3 DEF EvalFilter
    <3> HIDE DEF fresh
    <3>2. 1 \in 0 .. SelectAttempts OBVIOUS
    <3>3. eval' \in Evaluations BY <1>1, <2>1, <3>1, <3>2 DEF Evaluations, EvalSteps
    <3> QED BY <1>1, <1>11, <3>3 DEF EvalFilter, EvalTypeOK, evalFrame
  <2> QED BY <2>2, <2>3
<1>12. CASE EvalRelease \/ EvalGivesUp
  BY <1>1, <1>2, <1>12 DEF EvalRelease, EvalGivesUp, EvalTypeOK, evalFrame
<1>13. CASE TickFire \/ ForceDispatchBeat
  <2>1. PICK job \in Beats \cup {NoBeat} : evalQueue' = Append(evalQueue, job)
    BY <1>13 DEF TickFire, ForceDispatchBeat
  <2>2. UNCHANGED <<inFlight, eval>> BY <1>13 DEF TickFire, ForceDispatchBeat
  <2> QED BY <1>1, <2>1, <2>2 DEF EvalTypeOK
<1>14. CASE UNCHANGED evalVars BY <1>1, <1>14 DEF evalVars, EvalTypeOK
<1> QED BY <1>4, <1>5, <1>6, <1>7, <1>8, <1>9, <1>10, <1>11, <1>12, <1>13, <1>14
  DEF Next, Poll, Work, EvalStep, Main, PollAccrue, PollCapture, PollSkip, PollEnqueue, TickEnter,
      TickReturn, TickDiscard, TickAdvance, TickRelease, TickClear, AbortRead, AbortBeat,
      AbortForce, LoadBegin, LoadRevert, LoadRecords, LoadDone, WindowPasses, mainFrame, evalVars

LEMMA MainTypeStep == ASSUME TypeOK, Next PROVE MainTypeOK'
<1> USE DEF TypeOK, MainTypeOK
<1>1. CASE TickFire BY <1>1 DEF TickFire
<1>2. CASE AbortRead BY <1>2 DEF AbortRead, tickVars, SlotTypeOK
<1>3. CASE AbortBeat \/ AbortForce BY <1>3, BeatConstants DEF AbortBeat, AbortForce, tickVars
<1>4. CASE LoadBegin \/ LoadRevert \/ LoadRecords \/ LoadDone
  BY <1>4 DEF LoadBegin, LoadRevert, LoadRecords, LoadDone, tickVars
<1>5. CASE UNCHANGED <<tickVars, main>> BY <1>5 DEF tickVars
<1> QED BY <1>1, <1>2, <1>3, <1>4, <1>5
  DEF Next, Poll, Work, EvalStep, Main, PollAccrue, PollCapture, PollSkip, PollEnqueue, TickEnter,
      TickReturn, TickDiscard, TickAdvance, TickRelease, TickClear, EvalTake, EvalSnapshot,
      EvalTension, EvalBlocked, EvalCandidates, EvalFilter, EvalSelectFails, EvalRetry, EvalPick,
      EvalFailed, EvalDropped, EvalRefused, EvalStart, EvalOnStart, EvalThrew, EvalPush,
      EvalAppend, EvalAdvance, EvalRelease, EvalGivesUp, ForceDispatchBeat, WindowPasses,
      evalFrame

-----------------------------------------------------------------------------
(* The safety invariants the runs check.                                   *)

\* What holds of the worker's locals holds after each of its steps.
LEMMA EvalOKStep == ASSUME TypeOK, EvalOK, Next PROVE EvalOK'
<1> USE BeatConstants DEF EvalOK, PickIsABeat, AdvanceIsNamed, AppendCount, TypeOK, EvalTypeOK, Evaluations
<1>1. CASE EvalTake
  <2>1. Head(evalQueue) \in Beats \cup {NoBeat} BY <1>1 DEF EvalTake
  <2>2. CASE Head(evalQueue) = NoBeat BY <1>1, <2>2 DEF EvalTake, IdleEval, Begin
  <2>3. CASE Head(evalQueue) # NoBeat BY <1>1, <2>1, <2>3 DEF EvalTake, Begin
  <2> QED BY <2>2, <2>3
<1>2. CASE EvalSnapshot \/ EvalTension \/ EvalCandidates \/ EvalRetry \/ EvalRefused
  BY <1>2 DEF EvalSnapshot, EvalTension, EvalCandidates, EvalRetry, EvalRefused
<1>3. CASE EvalBlocked \/ EvalSelectFails \/ EvalFailed \/ EvalDropped
  BY <1>3 DEF EvalBlocked, EvalSelectFails, EvalFailed, EvalDropped, Carry, IdleEval
<1>4. CASE EvalFilter BY <1>4 DEF EvalFilter, Carry, IdleEval
<1>5. CASE EvalPick BY <1>5 DEF EvalPick, Carry, IdleEval
<1>6. CASE EvalStart \/ EvalOnStart \/ EvalThrew BY <1>6 DEF EvalStart, EvalOnStart, EvalThrew
<1>7. CASE EvalPush BY <1>7 DEF EvalPush, Carry, IdleEval
<1>8. CASE EvalAppend
  <2> DEFINE n  == eval.applied + 1
             pc == IF eval.advance = NoPhase THEN "release" ELSE "advance"
  <2>1. n = 1 BY <1>8 DEF EvalAppend
  <2>2. eval' = [eval EXCEPT !.applied = n, !.pc = pc] BY <1>8 DEF EvalAppend
  <2>3. /\ pc \in {"release", "advance"}
        /\ pc = "advance" => eval.advance # NoPhase
    OBVIOUS
  <2> HIDE DEF n, pc
  <2> QED BY <2>1, <2>2, <2>3
<1>9. CASE EvalAdvance BY <1>9 DEF EvalAdvance
<1>10. CASE EvalRelease \/ EvalGivesUp
  <2>1. eval' = IdleEval BY <1>10 DEF EvalRelease, EvalGivesUp
  <2>2. eval'.pc = "idle" /\ eval'.applied = 0 BY <2>1 DEF IdleEval, Begin
  <2> QED BY <2>2
<1>11. CASE UNCHANGED eval BY <1>11
<1> QED BY <1>1, <1>2, <1>3, <1>4, <1>5, <1>6, <1>7, <1>8, <1>9, <1>10, <1>11
  DEF Next, Poll, Work, EvalStep, Main, PollAccrue, PollCapture, PollSkip, PollEnqueue, TickEnter,
      TickReturn, TickDiscard, TickAdvance, TickRelease, TickClear, TickFire, ForceDispatchBeat,
      AbortRead, AbortBeat, AbortForce, LoadBegin, LoadRevert, LoadRecords, LoadDone,
      WindowPasses, evalVars, mainFrame

\* Every write of the slot leaves its four fields a saved slot.
LEMMA SlotStep == ASSUME TypeOK, EvalOK, SaveIsRestorable, Next PROVE SaveIsRestorable'
<1> USE DEF SaveIsRestorable, SavedSlot
<1>1. SavedSlot \in SlotRecords OBVIOUS
<1>2. CASE PollAccrue
  BY <1>2, BeatConstants DEF PollAccrue, Idle, SlotRecords, TypeOK, SlotTypeOK, LiveStates
<1>3. CASE TickAdvance
  <2>1. work.result \in LiveStates
    BY <1>3 DEF TickAdvance, Applies, TypeOK, WorkTypeOK, TickResults, BeatStates, LiveStates, IdleWork
  <2> QED BY <1>3, <2>1 DEF TickAdvance, Applies, Idle, SlotRecords
<1>4. CASE ReleaseSlot BY <1>4, BeatConstants DEF ReleaseSlot, SlotRecords
<1>5. CASE EvalFailed
  BY <1>5, BeatConstants DEF EvalFailed, SlotRecords, LiveStates
<1>6. CASE EvalStart
  BY <1>6 DEF EvalStart, EvalOK, PickIsABeat, SlotRecords, LiveStates
<1>7. CASE LoadSlot
  <2>1. CASE ReleaseSlot BY <2>1, <1>4
  <2>2. CASE \E r \in SlotRecords : /\ topLevelState' = r.top
                                    /\ runningBeatName' = r.name
                                    /\ runningBeatCurrentState' = r.state
                                    /\ globalCooldownMs' = r.cooldown
    BY <2>2 DEF SlotRecords
  <2> QED BY <1>7, <2>1, <2>2 DEF LoadSlot
<1>8. CASE UNCHANGED slotVars BY <1>8 DEF slotVars
<1> QED BY <1>2, <1>3, <1>4, <1>5, <1>6, <1>7, <1>8
  DEF Next, Poll, Work, EvalStep, Main, PollCapture, PollSkip, PollEnqueue, TickEnter, TickReturn,
      TickDiscard, TickRelease, TickClear, EvalTake, EvalSnapshot, EvalTension, EvalBlocked,
      EvalCandidates, EvalFilter, EvalSelectFails, EvalRetry, EvalPick, EvalDropped, EvalRefused,
      EvalOnStart, EvalThrew, EvalPush, EvalAppend, EvalAdvance, EvalRelease, EvalGivesUp,
      TickFire, ForceDispatchBeat, AbortRead, AbortBeat, AbortForce, LoadBegin, LoadRevert,
      RevertAll, LoadRecords, LoadDone, WindowPasses

\* The flag, the queue and the worker agree: a job is enqueued only with the
\* flag down, and the flag goes down only with the one job done.
LEMMA FlightStep == ASSUME TypeOK, SingleFlight, Next PROVE SingleFlight'
<1> USE DEF SingleFlight
<1>0. workQueue \in Seq(CapturedTick) /\ Len(workQueue) \in Nat BY DEF TypeOK, WorkTypeOK
<1>1. CASE PollEnqueue
  <2>1. Len(workQueue') = Len(workQueue) + 1
    BY <1>0, <1>1 DEF PollEnqueue, TypeOK, WorkTypeOK
  <2> QED BY <1>0, <1>1, <2>1 DEF PollEnqueue
<1>2. CASE TickEnter
  <2>1. Len(workQueue') = Len(workQueue) - 1 BY <1>0, <1>2 DEF TickEnter
  <2>2. work'.pc = "ticking" BY <1>2 DEF TickEnter
  <2> QED BY <1>0, <1>2, <2>1, <2>2 DEF TickEnter
<1>3. CASE TickReturn \/ TickDiscard \/ TickAdvance \/ TickRelease
  <2>1. work.pc # "idle" /\ work'.pc # "idle" /\ UNCHANGED <<beatTickInFlight, workQueue>>
    <3>1. CASE TickReturn BY <3>1 DEF TickReturn, TypeOK, WorkTypeOK, IdleWork
    <3>2. CASE TickDiscard BY <3>2 DEF TickDiscard, TypeOK, WorkTypeOK, IdleWork
    <3>3. CASE TickAdvance BY <3>3 DEF TickAdvance, TypeOK, WorkTypeOK, IdleWork
    <3>4. CASE TickRelease BY <3>4 DEF TickRelease, TypeOK, WorkTypeOK, IdleWork
    <3> QED BY <1>3, <3>1, <3>2, <3>3, <3>4
  <2> QED BY <2>1
<1>4. CASE TickClear BY <1>0, <1>4 DEF TickClear, IdleWork
<1>5. CASE UNCHANGED <<beatTickInFlight, workQueue, work>> BY <1>5
<1> QED BY <1>1, <1>2, <1>3, <1>4, <1>5
  DEF Next, Poll, Work, EvalStep, Main, PollAccrue, PollCapture, PollSkip, EvalTake, EvalSnapshot,
      EvalTension, EvalBlocked, EvalCandidates, EvalFilter, EvalSelectFails, EvalRetry, EvalPick,
      EvalFailed, EvalDropped, EvalRefused, EvalStart, EvalOnStart, EvalThrew, EvalPush,
      EvalAppend, EvalAdvance, EvalRelease, EvalGivesUp, TickFire, ForceDispatchBeat, AbortRead,
      AbortBeat, AbortForce, LoadBegin, LoadRevert, LoadRecords, LoadDone, WindowPasses,
      workVars, evalFrame, mainFrame

\* Only the worker moves g_inFlight, and each of its ways out lowers it.
LEMMA InFlightStep == ASSUME TypeOK, InFlightAccurate, Next PROVE InFlightAccurate'
<1> USE DEF InFlightAccurate
<1>0. inFlight \in BOOLEAN /\ eval \in Evaluations BY DEF TypeOK, EvalTypeOK
<1> DEFINE Works(e) == e.pc # "idle"
           Same(e) == Works(e) /\ e.forced = eval.forced
<1>1. CASE EvalTake
  <2>1. CASE Head(evalQueue) = NoBeat
    BY <1>1, <2>1 DEF EvalTake, IdleEval, Begin
  <2>2. CASE Head(evalQueue) # NoBeat
    BY <1>1, <2>2 DEF EvalTake, Begin
  <2> QED BY <2>1, <2>2
<1>2. CASE EvalRelease \/ EvalGivesUp
  <2>1. eval' = IdleEval /\ Works(eval) /\ inFlight' = IF eval.forced = NoBeat THEN FALSE ELSE inFlight
    BY <1>2 DEF EvalRelease, EvalGivesUp
  <2>2. eval'.pc = "idle" BY <2>1 DEF IdleEval, Begin
  <2> QED BY <2>1, <2>2
<1>3. CASE /\ Works(eval) /\ Same(eval') /\ UNCHANGED inFlight
  BY <1>3
<1>4. CASE EvalStep /\ ~EvalTake /\ ~EvalRelease /\ ~EvalGivesUp
  <2>1. Works(eval) /\ UNCHANGED inFlight
    BY <1>4 DEF EvalStep, EvalSnapshot, EvalTension, EvalBlocked, EvalCandidates, EvalFilter,
                EvalSelectFails, EvalRetry, EvalPick, EvalFailed, EvalDropped, EvalRefused,
                EvalStart, EvalOnStart, EvalThrew, EvalPush, EvalAppend, EvalAdvance
  <2>2. Same(eval')
    <3> USE <1>0 DEF Evaluations
    <3>1. CASE \E pc \in EvalSteps : \E b : eval' = Carry(pc, b)
      BY <3>1 DEF Carry, EvalSteps
    <3>2. CASE EvalSnapshot \/ EvalCandidates \/ EvalRetry \/ EvalRefused
      BY <3>2 DEF EvalSnapshot, EvalCandidates, EvalRetry, EvalRefused
    <3>3. CASE EvalTension BY <3>3 DEF EvalTension
    <3>4. CASE EvalFilter BY <3>4 DEF EvalFilter, Carry
    <3>5. CASE EvalStart \/ EvalOnStart \/ EvalThrew BY <3>5 DEF EvalStart, EvalOnStart, EvalThrew
    <3>6. CASE EvalAppend BY <3>6 DEF EvalAppend
    <3>7. CASE EvalAdvance BY <3>7 DEF EvalAdvance
    <3>8. CASE EvalBlocked \/ EvalSelectFails \/ EvalPick \/ EvalFailed \/ EvalDropped \/ EvalPush
      BY <3>1, <3>8 DEF EvalBlocked, EvalSelectFails, EvalPick, EvalFailed, EvalDropped, EvalPush,
                        EvalSteps
    <3> QED BY <1>4, <3>2, <3>3, <3>4, <3>5, <3>6, <3>7, <3>8 DEF EvalStep
  <2> QED BY <1>3, <2>1, <2>2
<1>5. CASE UNCHANGED <<inFlight, eval>> BY <1>5
<1> QED BY <1>1, <1>2, <1>4, <1>5
  DEF Next, Poll, Work, EvalStep, Main, PollAccrue, PollCapture, PollSkip, PollEnqueue, TickEnter,
      TickReturn, TickDiscard, TickAdvance, TickRelease, TickClear, TickFire, ForceDispatchBeat,
      AbortRead, AbortBeat, AbortForce, LoadBegin, LoadRevert, LoadRecords, LoadDone,
      WindowPasses, evalVars, mainFrame

-----------------------------------------------------------------------------
(* The inductive invariant.  The types need EvalOK, for the name a start   *)
(* writes, and SaveIsRestorable, for the state the poll captures.          *)

IInv == TypeOK /\ EvalOK /\ SaveIsRestorable /\ SingleFlight /\ InFlightAccurate

LEMMA InitIInv == Init => IInv
<1> SUFFICES ASSUME Init PROVE IInv OBVIOUS
<1> USE PhaseConstants, BeatConstants DEF Init, InitPhase
<1>1. SlotTypeOK /\ RingTypeOK BY DEF SlotTypeOK, RingTypeOK, BeatStates
<1>2. WorkTypeOK
  <2>1. <<>> \in Seq(CapturedTick) OBVIOUS
  <2>2. [b \in Beats |-> "idle"] \in [Beats -> Sessions] BY DEF Sessions
  <2> QED BY <2>1, <2>2 DEF WorkTypeOK, Owners
<1>3. IdleEval \in Evaluations BY BeginType DEF IdleEval
<1>4. EvalTypeOK
  <2>1. <<>> \in Seq(Beats \cup {NoBeat}) OBVIOUS
  <2> QED BY <1>3, <2>1 DEF EvalTypeOK
<1>5. MainTypeOK BY DEF MainTypeOK
<1>6. PhaseTypeOK BY DEF PhaseTypeOK, Phases, Exposition, PhaseCount
<1>7. eval.pc = "idle" /\ eval.applied = 0 BY DEF IdleEval, Begin
<1>8. EvalOK /\ InFlightAccurate
  BY <1>7 DEF EvalOK, PickIsABeat, AdvanceIsNamed, AppendCount, InFlightAccurate
<1>9. SaveIsRestorable BY DEF SaveIsRestorable, SavedSlot, SlotRecords
<1>10. SingleFlight BY DEF SingleFlight, IdleWork
<1> QED BY <1>1, <1>2, <1>4, <1>5, <1>6, <1>8, <1>9, <1>10 DEF IInv, TypeOK

LEMMA StutterIInv == ASSUME IInv, UNCHANGED vars PROVE IInv'
<1>1. UNCHANGED <<topLevelState, runningBeatName, runningBeatCurrentState, globalCooldownMs,
                  recentlyFired, poll, pollOwner, beatTickInFlight, workQueue, work, tickOwner,
                  inFlight, evalQueue, eval, driverOn, pollLeft, session, main, intrusion,
                  phase, dwell>>
  BY DEF vars, slotVars, pollVars, workVars, evalVars, tickVars, phaseVars
<1>2. TypeOK'
  BY <1>1 DEF IInv, TypeOK, SlotTypeOK, RingTypeOK, WorkTypeOK, EvalTypeOK, MainTypeOK, PhaseTypeOK
<1>3. EvalOK' /\ InFlightAccurate'
  BY <1>1 DEF IInv, EvalOK, PickIsABeat, AdvanceIsNamed, AppendCount, InFlightAccurate
<1>4. SaveIsRestorable' /\ SingleFlight'
  BY <1>1 DEF IInv, SaveIsRestorable, SavedSlot, SingleFlight
<1> QED BY <1>2, <1>3, <1>4 DEF IInv

LEMMA NextIInv == ASSUME IInv, Next PROVE IInv'
<1> USE DEF IInv
<1>1. PhaseTypeOK' BY PhaseTypeStep DEF EvalOK
<1>2. TypeOK'
  BY <1>1, SlotTypeStep, RingTypeStep, WorkTypeStep, EvalTypeStep, MainTypeStep DEF TypeOK, EvalOK
<1> QED BY <1>2, EvalOKStep, SlotStep, FlightStep, InFlightStep

LEMMA Invariance == Spec => []IInv
<1>1. IInv /\ [Next]_vars => IInv' BY StutterIInv, NextIInv
<1> QED BY <1>1, InitIInv, PTL DEF Spec

\* Every variable keeps its type, for any beats, settings and bounds: among
\* the rest the cooldown saturates and the repetition ring keeps to its cap.
THEOREM TypeCorrect == Spec => []TypeOK
BY Invariance, PTL DEF IInv

\* Whenever the game is saved, with any thread anywhere, OnSave writes a slot
\* that OnLoad can put back.
THEOREM SaveRestorable == Spec => []SaveIsRestorable
BY Invariance, PTL DEF IInv

\* There is never a second Tick job: the exchange on g_beatTickInFlight works.
THEOREM OneTickAtATime == Spec => []SingleFlight
BY Invariance, PTL DEF IInv

\* g_inFlight is up exactly while the worker has an evaluation in hand.
THEOREM InFlightTellsTheTruth == Spec => []InFlightAccurate
BY Invariance, PTL DEF IInv

\* A decision reaches the log once on its way to the finalizer, not twice.
THEOREM DecisionsAppliedOnce == Spec => []DecisionAppliedOnce
<1>1. IInv => DecisionAppliedOnce BY DEF IInv, EvalOK, AppendCount, DecisionAppliedOnce
<1> QED BY <1>1, Invariance, PTL
=============================================================================
