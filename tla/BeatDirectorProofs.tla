------------------------- MODULE BeatDirectorProofs -------------------------
(***************************************************************************)
(* What the Director promises across a step: the slot's specification is   *)
(* implemented, and what an evaluation read before an LLM call still       *)
(* stands when it acts on it.                                              *)
(***************************************************************************)
EXTENDS BeatSystemProofs

(* BeatSystem implements BeatSlot. *)

LEMMA SlotInit == Init => Slot!Init
BY DEF Init, Slot!Init, Loading

\* A step that leaves the game thread where it is, or moves it within an
\* abort or between two loads, is no step of a load.
LEMMA LoadingStays ==
  ASSUME main.pc' = main.pc \/ {main.pc, main.pc'} \subseteq {"idle", "unwind", "force", "loaded"}
  PROVE  UNCHANGED Loading
BY DEF Loading

\* A slot whose owner is named is a running one, and it banks no cooldown.
LEMMA SlotFields ==
  ASSUME IInv
  PROVE  /\ Idle <=> runningBeatName = NoBeat
         /\ Idle => runningBeatCurrentState = "NOT_RUNNING"
         /\ ~Idle => globalCooldownMs = 0
BY BeatConstants DEF IInv, SaveIsRestorable, SavedSlot, SlotRecords, Idle

\* Whoever empties the slot makes its beat leave, or fines an empty slot.
LEMMA SlotEmptied ==
  ASSUME IInv, ReleaseSlot, UNCHANGED Loading
  PROVE  Slot!Next
BY DEF ReleaseSlot, Slot!Next, Slot!Leave, Slot!Fine, Slot!Emptied

\* What a load puts in the slot, or the empty slot it falls back to, is a
\* record of the slot's specification.
LEMMA LoadedSlot ==
  ASSUME LoadSlot
  PROVE  \E r \in Slot!Records : /\ runningBeatName' = r.occupant
                               /\ runningBeatCurrentState' = r.stage
                               /\ globalCooldownMs' = r.cooldown
<1> USE DEF Slot!Records, Slot!Stages
<1>1. CASE ReleaseSlot
  <2> DEFINE q == [occupant |-> NoBeat, stage |-> "NOT_RUNNING", cooldown |-> 0]
  <2>1. q \in Slot!Records BY BeatConstants
  <2> QED BY <1>1, <2>1 DEF ReleaseSlot
<1>2. CASE \E r \in SlotRecords : /\ runningBeatName' = r.name
                                  /\ runningBeatCurrentState' = r.state
                                  /\ globalCooldownMs' = r.cooldown
  <2>1. PICK r \in SlotRecords : /\ runningBeatName' = r.name
                                 /\ runningBeatCurrentState' = r.state
                                 /\ globalCooldownMs' = r.cooldown
    BY <1>2
  <2> DEFINE q == [occupant |-> r.name, stage |-> r.state, cooldown |-> r.cooldown]
  <2>2. q \in Slot!Records BY DEF SlotRecords, LiveStates
  <2> QED BY <2>1, <2>2
<1> QED BY <1>1, <1>2 DEF LoadSlot

\* Every write of the slot is a step of the slot's specification.
LEMMA SlotSimulation ==
  ASSUME IInv, Next
  PROVE  Slot!Next \/ UNCHANGED Slot!vars
<1> USE DEF Slot!vars
<1>0. SavedSlot \in SlotRecords BY DEF IInv, SaveIsRestorable
<1>m. main \in [pc : {"idle", "unwind", "force", "preload", "reverted", "loaded"},
                beat : Beats \cup {NoBeat}]
  BY DEF IInv, TypeOK, MainTypeOK
<1>1. CASE PollAccrue
  <2>1. UNCHANGED Loading BY <1>1, LoadingStays DEF PollAccrue
  <2>2. runningBeatName = NoBeat BY <1>1, SlotFields DEF PollAccrue
  <2> QED BY <1>1, <2>1, <2>2 DEF PollAccrue, Slot!Next, Slot!Accrue
<1>2. CASE TickAdvance
  <2>1. work.result \in {"RUNNING", "CLEANUP"}
    BY <1>2 DEF TickAdvance, Applies, IInv, TypeOK, WorkTypeOK, TickResults, IdleWork
  <2>2. runningBeatName # NoBeat BY <1>2, SlotFields DEF TickAdvance, Applies
  <2>3. UNCHANGED Loading BY <1>2, LoadingStays DEF TickAdvance
  <2> QED BY <1>2, <2>1, <2>2, <2>3 DEF TickAdvance, Slot!Next, Slot!Move
<1>3. CASE TickRelease \/ EvalThrew \/ AbortForce
  <2>1. UNCHANGED Loading
    BY <1>3, <1>m, LoadingStays DEF TickRelease, EvalThrew, AbortForce
  <2> QED BY <1>3, <2>1, SlotEmptied DEF TickRelease, EvalThrew, AbortForce
<1>4. CASE EvalFailed
  <2>1. UNCHANGED Loading BY <1>4, LoadingStays DEF EvalFailed, evalFrame
  <2>2. CASE Idle
    <3>1. runningBeatName = NoBeat /\ runningBeatCurrentState = "NOT_RUNNING"
      BY <2>2, SlotFields
    <3> QED BY <1>4, <2>1, <3>1 DEF EvalFailed, Slot!Next, Slot!Fine, Slot!Emptied
  <2>3. CASE ~Idle BY <1>4, <2>1, <2>3, SlotFields DEF EvalFailed
  <2> QED BY <2>2, <2>3
<1>5. CASE EvalStart
  <2>1. eval.pick \in Beats BY <1>5 DEF EvalStart, IInv, EvalOK, PickIsABeat
  <2>2. runningBeatName = NoBeat BY <1>5, SlotFields DEF EvalStart
  <2>3. UNCHANGED Loading BY <1>5, LoadingStays DEF EvalStart, evalFrame
  <2>4. Slot!Enter(eval.pick) BY <1>5, <2>2, <2>3 DEF EvalStart, Slot!Enter
  <2> QED BY <2>1, <2>4 DEF Slot!Next
<1>6. CASE LoadBegin
  <2>1. ~Loading /\ Loading' BY <1>6, <1>m DEF LoadBegin, Loading
  <2> QED BY <1>6, <2>1 DEF LoadBegin, RevertAll, ReleaseSlot, Slot!Next, Slot!BeginLoad, Slot!Emptied
<1>7. CASE LoadRevert
  <2>1. Loading /\ Loading' BY <1>7, <1>m DEF LoadRevert, Loading
  <2> QED BY <1>7, <2>1, SlotEmptied DEF LoadRevert, RevertAll
<1>8. CASE LoadRecords
  <2>1. Loading /\ ~Loading' BY <1>8, <1>m DEF LoadRecords, Loading
  <2>2. \E r \in Slot!Records : /\ runningBeatName' = r.occupant
                               /\ runningBeatCurrentState' = r.stage
                               /\ globalCooldownMs' = r.cooldown
    <3>1. LoadSlot BY <1>8 DEF LoadRecords
    <3> QED BY <3>1, LoadedSlot
  <2>3. Slot!Restore BY <2>1, <2>2 DEF Slot!Restore
  <2> QED BY <2>3 DEF Slot!Next
<1>9. CASE UNCHANGED slotVars /\ ~LoadBegin /\ ~LoadRevert /\ ~LoadRecords
  <2>1. UNCHANGED main \/ AbortRead \/ AbortBeat \/ AbortForce \/ LoadDone
    BY <1>9
    DEF Next, Poll, Work, EvalStep, Main, PollCapture, PollSkip, PollEnqueue, TickEnter,
        TickReturn, TickDiscard, TickClear, EvalTake, EvalSnapshot, EvalTension, EvalBlocked,
        EvalCandidates, EvalFilter, EvalSelectFails, EvalRetry, EvalPick, EvalDropped,
        EvalRefused, EvalOnStart, EvalPush, EvalAppend, EvalAdvance, EvalRelease, EvalGivesUp,
        TickFire, ForceDispatchBeat, WindowPasses, evalFrame, PollAccrue, TickAdvance,
        TickRelease, EvalThrew, EvalFailed, EvalStart
  <2>2. UNCHANGED Loading
    <3>1. CASE UNCHANGED main BY <3>1, LoadingStays
    <3>2. CASE AbortRead BY <3>2, LoadingStays DEF AbortRead
    <3>3. CASE AbortBeat BY <3>3, <1>m, LoadingStays DEF AbortBeat
    <3>4. CASE AbortForce BY <3>4, LoadingStays DEF AbortForce
    <3>5. CASE LoadDone BY <3>5, <1>m, LoadingStays DEF LoadDone
    <3> QED BY <2>1, <3>1, <3>2, <3>3, <3>4, <3>5
  <2> QED BY <1>9, <2>2 DEF slotVars
<1> QED BY <1>1, <1>2, <1>3, <1>4, <1>5, <1>6, <1>7, <1>8, <1>9
  DEF Next, Poll, Work, EvalStep, Main, PollCapture, PollSkip, PollEnqueue, TickEnter, TickReturn,
      TickDiscard, TickClear, EvalTake, EvalSnapshot, EvalTension, EvalBlocked, EvalCandidates,
      EvalFilter, EvalSelectFails, EvalRetry, EvalPick, EvalDropped, EvalRefused, EvalOnStart,
      EvalPush, EvalAppend, EvalAdvance, EvalRelease, EvalGivesUp, TickFire, ForceDispatchBeat,
      AbortRead, AbortBeat, LoadDone, WindowPasses

\* With aborts, loads, stale ticks and forced dispatches, the slot is still a
\* one-beat slot: a beat enters it only while it is empty, its cooldown is paid
\* by waiting, and a record gets in only by the load in progress.
THEOREM SlotImplemented == Spec => ImplementsSlot
<1>1. IInv /\ [Next]_vars => [Slot!Next]_(Slot!vars)
  <2> SUFFICES ASSUME IInv, [Next]_vars PROVE [Slot!Next]_(Slot!vars) OBVIOUS
  <2>1. CASE Next BY <2>1, SlotSimulation
  <2>2. CASE UNCHANGED vars BY <2>2 DEF vars, slotVars, Slot!vars, Loading
  <2> QED BY <2>1, <2>2
<1> QED BY <1>1, SlotInit, Invariance, PTL DEF Spec, ImplementsSlot, Slot!Spec

-----------------------------------------------------------------------------
(* The Director does not repeat itself. *)

\* What the filter let through stays outside the window until the worker
\* itself pushes its pick: entries only leave meanwhile.
PickIsFresh ==
  eval.forced = NoBeat =>
    /\ eval.pc = "select" => eval.candidates \cap Recent = {}
    /\ eval.pc = "start" => eval.pick \notin Recent

LEMMA TailForgets ==
  ASSUME NEW r \in Seq(Beats), r # <<>>
  PROVE  {Tail(r)[i] : i \in DOMAIN Tail(r)} \subseteq {r[i] : i \in DOMAIN r}
<1> SUFFICES ASSUME NEW i \in DOMAIN Tail(r) PROVE Tail(r)[i] \in {r[j] : j \in DOMAIN r}
  OBVIOUS
<1>1. Len(Tail(r)) = Len(r) - 1 /\ Len(r) \in Nat OBVIOUS
<1>2. DOMAIN Tail(r) = 1 .. Len(r) - 1 /\ DOMAIN r = 1 .. Len(r) BY <1>1
<1>3. i + 1 \in DOMAIN r /\ Tail(r)[i] = r[i + 1] BY <1>1, <1>2
<1> QED BY <1>3

LEMMA FreshStep == ASSUME IInv, PickIsFresh, Next PROVE PickIsFresh'
<1> USE DEF PickIsFresh
<1>0. eval \in Evaluations /\ recentlyFired \in Seq(Beats)
  BY DEF IInv, TypeOK, EvalTypeOK, RingTypeOK
<1>1. CASE EvalStep
  <2> USE <1>0 DEF Evaluations
  <2>1. CASE EvalTake
    BY <2>1, BeatConstants DEF EvalTake, IdleEval, Begin
  <2>2. CASE EvalFilter BY <2>2 DEF EvalFilter, Recent, Carry, evalFrame
  <2>3. CASE EvalRetry BY <2>3 DEF EvalRetry, Recent, evalFrame
  <2>4. CASE EvalPick BY <2>4 DEF EvalPick, Recent, Carry, evalFrame
  <2>5. CASE eval'.pc \notin {"select", "start"} BY <2>5
  <2>6. CASE EvalSnapshot \/ EvalTension \/ EvalCandidates
    BY <2>5, <2>6 DEF EvalSnapshot, EvalTension, EvalCandidates
  <2>7. CASE EvalBlocked \/ EvalSelectFails \/ EvalFailed \/ EvalDropped \/ EvalPush
    BY <2>5, <2>7 DEF EvalBlocked, EvalSelectFails, EvalFailed, EvalDropped, EvalPush, Carry
  <2>8. CASE EvalRefused \/ EvalStart \/ EvalOnStart \/ EvalThrew
    BY <2>5, <2>8 DEF EvalRefused, EvalStart, EvalOnStart, EvalThrew
  <2>9. CASE EvalAppend \/ EvalAdvance BY <2>5, <2>9 DEF EvalAppend, EvalAdvance
  <2>10. CASE EvalRelease \/ EvalGivesUp
    <3>1. eval' = IdleEval BY <2>10 DEF EvalRelease, EvalGivesUp
    <3>2. eval'.pc = "idle" BY <3>1 DEF IdleEval, Begin
    <3> QED BY <2>5, <3>2
  <2> QED BY <1>1, <2>1, <2>2, <2>3, <2>4, <2>6, <2>7, <2>8, <2>9, <2>10 DEF EvalStep
<1>2. CASE UNCHANGED eval /\ Recent' \subseteq Recent BY <1>2
<1>3. CASE WindowPasses
  BY <1>0, <1>2, <1>3, TailForgets DEF WindowPasses, evalVars, Recent
<1>4. CASE UNCHANGED eval /\ recentlyFired' \in {recentlyFired, <<>>}
  BY <1>2, <1>4 DEF Recent
<1> QED BY <1>1, <1>3, <1>4
  DEF Next, Poll, Work, Main, PollAccrue, PollCapture, PollSkip, PollEnqueue, TickEnter,
      TickReturn, TickDiscard, TickAdvance, TickRelease, TickClear, TickFire, ForceDispatchBeat,
      AbortRead, AbortBeat, AbortForce, LoadBegin, LoadRevert, RevertAll, LoadRecords, LoadSlot,
      LoadDone, evalVars, mainFrame

\* A beat the Director starts is outside the repetition window at the start,
\* not only when the filter looked, an LLM call earlier.
THEOREM NeverRepeats == Spec => NoRepetition
<1>1. Init => PickIsFresh BY DEF Init, PickIsFresh, IdleEval, Begin
<1>2. IInv /\ PickIsFresh /\ [Next]_vars => PickIsFresh'
  <2>1. ASSUME PickIsFresh, UNCHANGED vars PROVE PickIsFresh'
    BY <2>1 DEF PickIsFresh, Recent, vars, evalVars
  <2> QED BY <2>1, FreshStep
<1>3. PickIsFresh => (EvalStart /\ eval.forced = NoBeat => eval.pick \notin Recent)
  BY DEF PickIsFresh, EvalStart
<1> QED BY <1>1, <1>2, <1>3, Invariance, PTL DEF Spec, NoRepetition

-----------------------------------------------------------------------------
(* What holds while the player neither aborts a beat nor loads a game. *)

\* The cooldown an evaluation found paid stays paid until it starts a beat.
CooldownPaid ==
  eval.forced = NoBeat /\ eval.pc \in {"filter", "select", "start"} =>
    Idle /\ globalCooldownMs >= CooldownThreshold

MainStaysIdle == main.pc = "idle"

LEMMA PaidStep ==
  ASSUME ~AbortAllowed, ~LoadAllowed, IInv, MainStaysIdle, CooldownPaid, Next
  PROVE  MainStaysIdle' /\ CooldownPaid'
<1> USE DEF MainStaysIdle, CooldownPaid
<1>0. eval \in Evaluations BY DEF IInv, TypeOK, EvalTypeOK
<1>1. CASE EvalStep
  <2> USE <1>0 DEF Evaluations
  <2>0. MainStaysIdle'
    BY <1>1 DEF EvalStep, EvalTake, EvalSnapshot, EvalTension, EvalBlocked, EvalCandidates,
                EvalFilter, EvalSelectFails, EvalRetry, EvalPick, EvalFailed, EvalDropped,
                EvalRefused, EvalStart, EvalOnStart, EvalThrew, EvalPush, EvalAppend, EvalAdvance,
                EvalRelease, EvalGivesUp, evalFrame
  <2>1. CASE EvalTake BY <2>0, <2>1, BeatConstants DEF EvalTake, IdleEval, Begin
  <2>2. CASE EvalCandidates
    BY <2>0, <2>2 DEF EvalCandidates, GatesOpen, Idle, slotVars
  <2>3. CASE EvalFilter BY <2>0, <2>3 DEF EvalFilter, Carry, Idle, slotVars
  <2>4. CASE EvalRetry BY <2>0, <2>4 DEF EvalRetry, Idle, slotVars
  <2>5. CASE EvalPick BY <2>0, <2>5 DEF EvalPick, Carry, Idle, slotVars
  <2>6. CASE eval'.pc \notin {"filter", "select", "start"} BY <2>0, <2>6
  <2>7. CASE EvalSnapshot \/ EvalTension BY <2>6, <2>7 DEF EvalSnapshot, EvalTension
  <2>8. CASE EvalBlocked \/ EvalSelectFails \/ EvalFailed \/ EvalDropped \/ EvalPush
    BY <2>6, <2>8 DEF EvalBlocked, EvalSelectFails, EvalFailed, EvalDropped, EvalPush, Carry
  <2>9. CASE EvalRefused \/ EvalStart \/ EvalOnStart \/ EvalThrew
    BY <2>6, <2>9 DEF EvalRefused, EvalStart, EvalOnStart, EvalThrew
  <2>10. CASE EvalAppend \/ EvalAdvance BY <2>6, <2>10 DEF EvalAppend, EvalAdvance
  <2>11. CASE EvalRelease \/ EvalGivesUp
    <3>1. eval' = IdleEval BY <2>11 DEF EvalRelease, EvalGivesUp
    <3>2. eval'.pc = "idle" BY <3>1 DEF IdleEval, Begin
    <3> QED BY <2>6, <3>2
  <2> QED BY <1>1, <2>1, <2>2, <2>3, <2>4, <2>5, <2>7, <2>8, <2>9, <2>10, <2>11 DEF EvalStep
<1>2. CASE PollAccrue
  <2>1. globalCooldownMs \in 0 .. CooldownMax BY DEF IInv, TypeOK, SlotTypeOK
  <2>2. globalCooldownMs' >= globalCooldownMs /\ globalCooldownMs' \in Int
    BY <1>2, <2>1, BeatConstants DEF PollAccrue
  <2> QED BY <1>2, <2>1, <2>2, BeatConstants DEF PollAccrue, Idle, evalVars
<1>3. CASE TickAdvance \/ TickRelease
  BY <1>3 DEF TickAdvance, TickRelease, Applies, Idle, evalVars
<1>4. CASE UNCHANGED <<slotVars, eval, main>> BY <1>4 DEF slotVars, Idle
<1> QED BY <1>1, <1>2, <1>3, <1>4
  DEF Next, Poll, Work, Main, PollCapture, PollSkip, PollEnqueue, TickEnter, TickReturn,
      TickDiscard, TickClear, TickFire, ForceDispatchBeat, AbortRead, AbortBeat, AbortForce,
      LoadBegin, LoadRevert, LoadRecords, LoadDone, WindowPasses, evalVars

\* Left alone, the Director starts a beat of its own choice only with the
\* cooldown paid at the start itself.  An abort's last step or a load may come
\* between the gate and the start, and both take the cooldown back.
THEOREM CooldownIsRespected ==
  ASSUME ~AbortAllowed, ~LoadAllowed
  PROVE  Spec => CooldownRespected
<1>1. Init => MainStaysIdle /\ CooldownPaid
  BY DEF Init, MainStaysIdle, CooldownPaid, IdleEval, Begin
<1>2. IInv /\ MainStaysIdle /\ CooldownPaid /\ [Next]_vars => MainStaysIdle' /\ CooldownPaid'
  <2>1. ASSUME MainStaysIdle, CooldownPaid, UNCHANGED vars PROVE MainStaysIdle' /\ CooldownPaid'
    BY <2>1 DEF MainStaysIdle, CooldownPaid, Idle, vars, evalVars, slotVars
  <2> QED BY <2>1, PaidStep
<1>3. CooldownPaid => (EvalStart /\ eval.forced = NoBeat => globalCooldownMs >= CooldownThreshold)
  BY DEF CooldownPaid, EvalStart
<1> QED BY <1>1, <1>2, <1>3, Invariance, PTL DEF Spec, CooldownRespected

\* Only the worker moves the phase, so what it decided from its snapshot of
\* the phase is still about the present one.
PhaseStands ==
  /\ eval.pc = "tension" => eval.phase = phase
  /\ eval.pc \notin {"idle", "release"} /\ eval.advance # NoPhase
     => eval.advance = NextPhase(phase)

MainNeverLoads == main.pc \in {"idle", "unwind", "force"}

LEMMA PhaseStandsStep ==
  ASSUME ~LoadAllowed, IInv, MainNeverLoads, PhaseStands, Next
  PROVE  MainNeverLoads' /\ PhaseStands'
<1> USE DEF MainNeverLoads, PhaseStands
<1>0. eval \in Evaluations /\ main \in [pc : {"idle", "unwind", "force", "preload", "reverted",
                                              "loaded"}, beat : Beats \cup {NoBeat}]
  BY DEF IInv, TypeOK, EvalTypeOK, MainTypeOK
<1>1. CASE EvalStep
  <2> USE <1>0 DEF Evaluations
  <2>0. MainNeverLoads'
    BY <1>1 DEF EvalStep, EvalTake, EvalSnapshot, EvalTension, EvalBlocked, EvalCandidates,
                EvalFilter, EvalSelectFails, EvalRetry, EvalPick, EvalFailed, EvalDropped,
                EvalRefused, EvalStart, EvalOnStart, EvalThrew, EvalPush, EvalAppend, EvalAdvance,
                EvalRelease, EvalGivesUp, evalFrame
  <2>1. CASE EvalTake
    <3>1. eval'.advance = NoPhase BY <2>1 DEF EvalTake, IdleEval, Begin
    <3>2. eval'.pc # "tension" BY <2>1 DEF EvalTake, IdleEval, Begin
    <3> QED BY <2>0, <3>1, <3>2
  <2>2. CASE EvalSnapshot
    <3>1. UNCHANGED phase BY <2>2 DEF EvalSnapshot, Sample, phaseVars
    <3> QED BY <2>0, <2>2, <3>1 DEF EvalSnapshot
  <2>3. CASE EvalTension
    <3>1. UNCHANGED phase /\ eval.phase = phase BY <2>3 DEF EvalTension, phaseVars
    <3>2. CASE eval' = [eval EXCEPT !.pc = "gates"] BY <2>0, <2>3, <3>1, <3>2 DEF EvalTension
    <3>3. CASE \E score \in Scores :
                 eval' = [eval EXCEPT !.pc = "gates",
                            !.advance = EvaluateAdvance(eval.phase, score, eval.dwell)]
      <4>1. PICK score \in Scores :
              eval' = [eval EXCEPT !.pc = "gates",
                         !.advance = EvaluateAdvance(eval.phase, score, eval.dwell)]
        BY <3>3
      <4> DEFINE a == EvaluateAdvance(eval.phase, score, eval.dwell)
      <4>2. a # NoPhase => a = NextPhase(phase) BY <3>1, AdvanceIsSuccessor
      <4>3. eval' = [eval EXCEPT !.pc = "gates", !.advance = a] BY <4>1
      <4> HIDE DEF a
      <4> QED BY <2>0, <3>1, <4>2, <4>3
    <3> QED BY <2>3, <3>2, <3>3 DEF EvalTension
  <2>4. CASE UNCHANGED phase /\ eval'.advance = eval.advance /\ eval.pc \notin {"idle", "release"}
             /\ eval'.pc # "tension"
    BY <2>0, <2>4
  <2>5. CASE EvalBlocked \/ EvalSelectFails \/ EvalPick \/ EvalFailed \/ EvalDropped \/ EvalPush
    BY <2>4, <2>5 DEF EvalBlocked, EvalSelectFails, EvalPick, EvalFailed, EvalDropped, EvalPush,
                      Carry, phaseVars
  <2>6. CASE EvalFilter BY <2>4, <2>6 DEF EvalFilter, Carry, phaseVars
  <2>7. CASE EvalCandidates \/ EvalRetry \/ EvalRefused
    BY <2>4, <2>7 DEF EvalCandidates, EvalRetry, EvalRefused, phaseVars
  <2>8. CASE EvalStart \/ EvalOnStart \/ EvalThrew
    BY <2>4, <2>8 DEF EvalStart, EvalOnStart, EvalThrew, phaseVars
  <2>9. CASE EvalAppend BY <2>4, <2>9 DEF EvalAppend, phaseVars
  <2>10. CASE eval'.pc \in {"idle", "release"} BY <2>0, <2>10
  <2>11. CASE EvalAdvance BY <2>10, <2>11 DEF EvalAdvance
  <2>12. CASE EvalRelease \/ EvalGivesUp
    <3>1. eval' = IdleEval BY <2>12 DEF EvalRelease, EvalGivesUp
    <3>2. eval'.pc = "idle" BY <3>1 DEF IdleEval, Begin
    <3> QED BY <2>10, <3>2
  <2> QED BY <1>1, <2>1, <2>2, <2>3, <2>5, <2>6, <2>7, <2>8, <2>9, <2>11, <2>12 DEF EvalStep
<1>2. CASE UNCHANGED <<eval, phase>> /\ MainNeverLoads' BY <1>2
<1>3. CASE Poll \/ Work \/ TickFire \/ WindowPasses
  BY <1>2, <1>3
     DEF Poll, Work, PollAccrue, PollCapture, PollSkip, PollEnqueue, TickEnter, TickReturn,
         TickDiscard, TickAdvance, TickRelease, TickClear, TickFire, Sample, WindowPasses,
         evalVars, phaseVars
<1>4. CASE Main
  <2>1. UNCHANGED <<eval, phase>>
    BY <1>4 DEF Main, ForceDispatchBeat, AbortRead, AbortBeat, AbortForce, LoadBegin, LoadRevert,
                LoadRecords, LoadDone, mainFrame, phaseVars
  <2>2. MainNeverLoads'
    BY <1>0, <1>4 DEF Main, ForceDispatchBeat, AbortRead, AbortBeat, AbortForce, LoadBegin,
                      LoadRevert, LoadRecords, LoadDone
  <2> QED BY <1>2, <2>1, <2>2
<1> QED BY <1>1, <1>3, <1>4 DEF Next

\* In one game, the phase an evaluation advances to is the successor of the
\* phase it finds, not only of the phase it saw before its LLM call.
THEOREM PhasesInOrder ==
  ASSUME ~LoadAllowed
  PROVE  Spec => PhaseOrder
<1>1. Init => MainNeverLoads /\ PhaseStands
  BY DEF Init, MainNeverLoads, PhaseStands, IdleEval, Begin
<1>2. IInv /\ MainNeverLoads /\ PhaseStands /\ [Next]_vars => MainNeverLoads' /\ PhaseStands'
  <2>1. ASSUME MainNeverLoads, PhaseStands, UNCHANGED vars PROVE MainNeverLoads' /\ PhaseStands'
    BY <2>1 DEF MainNeverLoads, PhaseStands, vars, evalVars, phaseVars
  <2> QED BY <2>1, PhaseStandsStep
<1>3. IInv /\ PhaseStands => (EvalAdvance => phase' = NextPhase(phase))
  BY DEF IInv, EvalOK, AdvanceIsNamed, PhaseStands, EvalAdvance, AdvanceTo
<1> QED BY <1>1, <1>2, <1>3, Invariance, PTL DEF Spec, PhaseOrder

-----------------------------------------------------------------------------
(* The running beat's state moves forward. *)

\* The tick the poll thread has copied out, the one queued and the one in the
\* beat or whose result is to be applied, while it is of the beat that runs.
Captured == poll # NoTick /\ pollOwner = "current"
Queued   == workQueue # <<>> /\ tickOwner = "current"
Ticking  == work.pc \in {"ticking", "apply"} /\ tickOwner = "current"

\* A tick still counted as the running beat's was taken from its slot.
Belonging ==
  /\ Captured => ~Idle /\ poll.beat = runningBeatName
  /\ Queued => ~Idle /\ Head(workQueue).beat = runningBeatName
  /\ Ticking => ~Idle /\ work.beat = runningBeatName

\* A state copied from the slot is not ahead of it; and if the beat has gone
\* from COMPOSE to CLEANUP behind a copy, its session remembers that it failed.
Behind(s) ==
  /\ Rank[s] <= Rank[runningBeatCurrentState]
  /\ s = "COMPOSE" /\ runningBeatCurrentState = "CLEANUP" => session[runningBeatName] = "failed"

\* The copies are in order: the poll's is the latest.
Ordered ==
  /\ Captured => Behind(poll.state)
  /\ Queued => Behind(Head(workQueue).state)
  /\ Ticking => Behind(work.state)
  /\ Captured /\ Queued => Rank[Head(workQueue).state] <= Rank[poll.state]
  /\ Captured /\ Ticking => Rank[work.state] <= Rank[poll.state]

\* What a tick decided is not behind the slot either.
Decided ==
  Ticking /\ work.pc = "apply" =>
    /\ work.result \in LiveStates => Rank[work.result] >= Rank[runningBeatCurrentState]
    /\ work.state = "COMPOSE" /\ work.result = "CLEANUP" => session[runningBeatName] = "failed"

\* Until its OnStart has run, and while a tick of an earlier occupant is out,
\* nothing has moved the slot since the poll copied it.
Unmoved ==
  /\ eval.pc = "onstart" /\ eval.pick = runningBeatName =>
       /\ ~Ticking
       /\ Captured => poll.state = runningBeatCurrentState
       /\ Queued => Head(workQueue).state = runningBeatCurrentState
  /\ beatTickInFlight /\ tickOwner # "current" =>
       (Captured => poll.state = runningBeatCurrentState)

Steady == intrusion = "none" /\ main.pc # "force"

InStep == Belonging /\ (Steady => Ordered /\ Decided /\ Unmoved)

\* An action that leaves the slot, the ticks and the sessions alone, and does
\* not bring a beat to its OnStart.
LEMMA FrameInStep ==
  ASSUME InStep,
         UNCHANGED <<topLevelState, runningBeatName, runningBeatCurrentState, pollVars, workVars,
                     session, intrusion>>,
         main' = main \/ (main.pc \in {"idle", "loaded"} /\ main'.pc # "force"),
         eval' = eval \/ eval'.pc # "onstart"
  PROVE  InStep'
BY DEF InStep, Belonging, Captured, Queued, Ticking, Ordered, Behind, Decided, Unmoved,
       Steady, Idle, pollVars, workVars

\* Whatever empties or replaces the slot disowns every tick taken from it.
LEMMA LostInStep ==
  ASSUME NEW why \in {"finished", "aborted", "reverted"}, TicksLost(why)
  PROVE  pollOwner' # "current" /\ tickOwner' # "current" /\ InStep'
<1>1. pollOwner' # "current" /\ tickOwner' # "current"
  BY DEF TicksLost, Lost
<1> QED BY <1>1 DEF InStep, Belonging, Captured, Queued, Ticking, Ordered, Decided, Unmoved

\* What the proofs below use of the types.
LEMMA SlotFacts ==
  ASSUME IInv
  PROVE  /\ poll \in CapturedTick \cup {NoTick} /\ workQueue \in Seq(CapturedTick)
         /\ poll # NoTick => poll.state \in LiveStates
         /\ workQueue # <<>> => Head(workQueue) \in CapturedTick /\ Tail(workQueue) = <<>>
         /\ work.pc # "idle" => work.beat \in Beats /\ work.state \in LiveStates
         /\ ~Idle => runningBeatName \in Beats /\ runningBeatCurrentState \in LiveStates
         /\ Idle => runningBeatName = NoBeat
         /\ session \in [Beats -> Sessions]
<1>1. workQueue # <<>> => Head(workQueue) \in CapturedTick /\ Tail(workQueue) = <<>>
  <2>1. workQueue \in Seq(CapturedTick) /\ Len(workQueue) <= 1
    BY DEF IInv, TypeOK, WorkTypeOK, SingleFlight
  <2> QED BY <2>1
<1>2. /\ ~Idle => runningBeatName \in Beats /\ runningBeatCurrentState \in LiveStates
      /\ Idle => runningBeatName = NoBeat
  BY DEF IInv, SaveIsRestorable, SavedSlot, SlotRecords, Idle
<1>3. poll \in CapturedTick \cup {NoTick} /\ (poll # NoTick => poll.state \in LiveStates)
  BY DEF IInv, TypeOK, WorkTypeOK, CapturedTick, NoTick
<1>4. work.pc # "idle" => work.beat \in Beats /\ work.state \in LiveStates
  BY DEF IInv, TypeOK, WorkTypeOK, IdleWork
<1> QED BY <1>1, <1>2, <1>3, <1>4 DEF IInv, TypeOK, WorkTypeOK

LEMMA PollInStep ==
  ASSUME IInv, InStep, Poll
  PROVE  InStep'
<1> USE DEF Captured, Queued, Ticking, Ordered, Behind, Unmoved, Steady
<1>1. CASE PollAccrue
  BY <1>1, FrameInStep DEF PollAccrue, pollVars, workVars, evalVars
<1>2. CASE PollCapture
  <2>1. poll' = [beat |-> runningBeatName, state |-> runningBeatCurrentState] /\ pollOwner' = "current"
    BY <1>2 DEF PollCapture
  <2>2. UNCHANGED <<topLevelState, runningBeatName, runningBeatCurrentState, workVars, session,
                    intrusion, eval, main>>
    BY <1>2 DEF PollCapture, slotVars, evalVars
  <2>3. ~Idle /\ runningBeatCurrentState \in LiveStates
    BY <1>2, SlotFacts DEF PollCapture
  <2>4. Rank[runningBeatCurrentState] <= Rank[runningBeatCurrentState]
    BY <2>3 DEF Rank, LiveStates
  <2>5. Belonging'
    BY <2>1, <2>2, <2>3 DEF InStep, Belonging, Idle, workVars
  <2>6. ASSUME Steady' PROVE Ordered' /\ Unmoved' /\ Decided'
    BY <2>1, <2>2, <2>4, <2>6 DEF InStep, workVars, Decided
  <2> QED BY <2>5, <2>6 DEF InStep
<1>3. CASE PollSkip
  <2>1. poll' = NoTick
    BY <1>3 DEF PollSkip
  <2>2. UNCHANGED <<topLevelState, runningBeatName, runningBeatCurrentState, workVars, session,
                    intrusion, eval, main>>
    BY <1>3 DEF PollSkip, slotVars, evalVars
  <2> QED BY <2>1, <2>2 DEF InStep, Belonging, Decided, Idle, workVars
<1>4. CASE PollEnqueue
  <2>1. workQueue = <<>> /\ work.pc = "idle"
    BY <1>4 DEF PollEnqueue, IInv, TypeOK, WorkTypeOK, SingleFlight
  <2>2. workQueue' # <<>> /\ Head(workQueue') = poll
    BY <1>4, <2>1 DEF PollEnqueue
  <2>3. UNCHANGED <<topLevelState, runningBeatName, runningBeatCurrentState, work, session,
                    intrusion, eval, main>> /\ poll' = NoTick /\ tickOwner' = pollOwner /\ poll # NoTick
    BY <1>4 DEF PollEnqueue, slotVars, evalVars
  <2> QED BY <2>1, <2>2, <2>3 DEF InStep, Belonging, Decided, Idle
<1> QED BY <1>1, <1>2, <1>3, <1>4 DEF Poll

\* A tick's result is not behind the slot, as its copy was not ahead of it.
LEMMA ReturnInStep ==
  ASSUME IInv, InStep, TickReturn
  PROVE  InStep'
<1> USE DEF Captured, Queued, Ticking
<1>1. PICK o \in TickOutcomes(work.state, session[work.beat]) :
        /\ work' = [work EXCEPT !.pc = "apply", !.result = o.result]
        /\ session' = [session EXCEPT ![work.beat] = o.session]
  BY DEF TickReturn
<1>2. UNCHANGED <<topLevelState, runningBeatName, runningBeatCurrentState, poll, pollOwner,
                  beatTickInFlight, workQueue, tickOwner, intrusion, eval, main>>
  BY DEF TickReturn, slotVars, pollVars, evalVars
<1>3. /\ work'.pc = "apply" /\ work'.state = work.state /\ work'.beat = work.beat
      /\ work'.result = o.result
      /\ work.pc = "ticking" /\ work.beat \in Beats /\ work.state \in LiveStates
      /\ beatTickInFlight /\ workQueue = <<>>
  <2>1. work.pc = "ticking" BY DEF TickReturn
  <2>2. beatTickInFlight /\ workQueue = <<>>
    BY <2>1 DEF IInv, TypeOK, WorkTypeOK, SingleFlight
  <2>3. work \in [pc : {"ticking", "apply", "clear"}, beat : Beats, state : LiveStates,
               result : TickResults]
    BY <2>1 DEF IInv, TypeOK, WorkTypeOK, IdleWork
  <2> QED BY <1>1, <2>1, <2>2, <2>3
<1>4. Belonging'
  BY <1>2, <1>3 DEF InStep, Belonging, Idle
<1>5. SUFFICES ASSUME Steady' PROVE Ordered' /\ Decided' /\ Unmoved'
  BY <1>4 DEF InStep
<1>6. Ordered /\ Unmoved /\ Belonging
  BY <1>2, <1>5 DEF InStep, Steady
<1>7. CASE tickOwner = "current"
  <2>1. ~Idle /\ work.beat = runningBeatName /\ runningBeatCurrentState \in LiveStates
        /\ session'[runningBeatName] = o.session
    BY <1>1, <1>3, <1>6, <1>7, SlotFacts DEF Belonging
  <2>2. Behind(work.state)
    BY <1>3, <1>6, <1>7 DEF Ordered
  <2>3. work.state = "COMPOSE" =>
          /\ o.result \in {"none", "RUNNING", "CLEANUP"}
          /\ o.result = "CLEANUP" => o.session = "failed"
          /\ session[runningBeatName] = "failed" => o.session = "failed" /\ o.result # "RUNNING"
    BY <1>1, <2>1 DEF TickOutcomes
  <2>4. work.state = "RUNNING" => o.result \in {"none", "CLEANUP"} /\ o.session = session[runningBeatName]
    BY <1>1, <2>1 DEF TickOutcomes
  <2>5. work.state = "CLEANUP" => o.result \in {"none", "NOT_RUNNING"}
    BY <1>1, <2>1 DEF TickOutcomes
  <2>6. Decided'
    BY <1>2, <1>3, <1>7, <2>1, <2>2, <2>3, <2>4, <2>5 DEF Decided, Behind, Rank, LiveStates
  <2>7. Behind(work.state)'
    BY <1>2, <1>3, <2>1, <2>2, <2>3 DEF Behind
  <2>8. Captured => Rank[work.state] <= Rank[poll.state] /\ Behind(poll.state) /\ poll.state \in LiveStates
    BY <1>3, <1>6, <1>7, SlotFacts DEF Ordered
  <2>9. Captured => Behind(poll.state)'
    BY <1>2, <1>3, <2>1, <2>3, <2>8 DEF Behind, Rank, LiveStates
  <2> QED BY <1>2, <1>3, <1>6, <1>7, <2>6, <2>7, <2>8, <2>9 DEF Ordered, Unmoved
<1>8. CASE tickOwner # "current"
  <2>1. Captured => poll.state = runningBeatCurrentState
    BY <1>3, <1>6, <1>8 DEF Unmoved
  <2> QED BY <1>2, <1>3, <1>6, <1>8, <2>1 DEF Ordered, Behind, Decided, Unmoved
<1> QED BY <1>7, <1>8

LEMMA WorkInStep ==
  ASSUME IInv, InStep, Work
  PROVE  InStep'
<1> USE DEF Captured, Queued, Ticking, Ordered, Behind, Decided, Unmoved, Steady
<1>1. CASE TickEnter
  <2>1. workQueue # <<>> /\ workQueue' = <<>> /\ work.pc = "idle" /\ beatTickInFlight
    BY <1>1, SlotFacts DEF TickEnter, IInv, TypeOK, WorkTypeOK, SingleFlight
  <2>2. /\ work'.pc = "ticking" /\ work'.beat = Head(workQueue).beat
        /\ work'.state = Head(workQueue).state
        /\ intrusion' = IF eval.pc = "onstart" /\ eval.pick = Head(workQueue).beat
                        THEN "early" ELSE intrusion
    BY <1>1 DEF TickEnter
  <2>3. UNCHANGED <<topLevelState, runningBeatName, runningBeatCurrentState, session, poll,
                    pollOwner, beatTickInFlight, tickOwner, eval, main>>
    BY <1>1 DEF TickEnter, slotVars, pollVars, evalVars
  <2>4. Belonging'
    BY <2>1, <2>2, <2>3 DEF InStep, Belonging, Idle
  <2>5. ASSUME Steady' PROVE Ordered' /\ Decided' /\ Unmoved'
    <3>1. Steady /\ ~(eval.pc = "onstart" /\ eval.pick = Head(workQueue).beat)
      BY <2>2, <2>3, <2>5
    <3> QED BY <2>1, <2>2, <2>3, <3>1 DEF InStep, Belonging
  <2> QED BY <2>4, <2>5 DEF InStep
<1>2. CASE TickReturn
  BY <1>2, ReturnInStep
<1>3. CASE TickDiscard
  <2>1. work.pc = "apply" /\ work'.pc = "clear"
    BY <1>3 DEF TickDiscard, IInv, TypeOK, WorkTypeOK, IdleWork
  <2>2. UNCHANGED <<topLevelState, runningBeatName, runningBeatCurrentState, session, poll,
                    pollOwner, beatTickInFlight, workQueue, tickOwner, intrusion, eval, main>>
    BY <1>3 DEF TickDiscard, slotVars, pollVars, evalVars
  <2> QED BY <2>1, <2>2 DEF InStep, Belonging, Idle
<1>4. CASE TickAdvance
  <2>1. work.pc = "apply" /\ work'.pc = "clear" /\ workQueue = <<>> /\ beatTickInFlight
    BY <1>4 DEF TickAdvance, IInv, TypeOK, WorkTypeOK, IdleWork, SingleFlight
  <2>2. /\ runningBeatCurrentState' = work.result
        /\ intrusion' = IF tickOwner = "current" THEN intrusion ELSE "stale"
        /\ UNCHANGED <<topLevelState, runningBeatName, session, poll, pollOwner,
                       beatTickInFlight, workQueue, tickOwner, eval, main>>
    BY <1>4 DEF TickAdvance, pollVars, evalVars
  <2>3. work.result \in LiveStates /\ work.state \in LiveStates /\ runningBeatCurrentState \in LiveStates
    BY <1>4, SlotFacts DEF TickAdvance, Applies, IInv, TypeOK, WorkTypeOK, IdleWork, BeatStates, LiveStates, TickResults
  <2>4. Belonging'
    BY <2>1, <2>2 DEF InStep, Belonging, Idle
  <2>5. ASSUME Steady' PROVE Ordered' /\ Decided' /\ Unmoved'
    <3>1. Steady /\ tickOwner = "current" /\ Ticking
      BY <2>1, <2>2, <2>5
    <3>2. /\ ~Idle /\ work.beat = runningBeatName
          /\ Rank[work.result] >= Rank[runningBeatCurrentState]
          /\ work.state = "COMPOSE" /\ work.result = "CLEANUP" => session[runningBeatName] = "failed"
          /\ ~(eval.pc = "onstart" /\ eval.pick = runningBeatName)
      BY <2>1, <2>3, <3>1 DEF InStep, Belonging
    <3>3. Captured => /\ Rank[poll.state] <= Rank[runningBeatCurrentState]
                      /\ Rank[work.state] <= Rank[poll.state] /\ poll.state \in LiveStates
      BY <3>1, SlotFacts DEF InStep
    <3>4. Captured => Behind(poll.state)'
      BY <2>2, <2>3, <3>2, <3>3 DEF Rank, LiveStates
    <3> QED BY <2>1, <2>2, <3>1, <3>2, <3>4
  <2> QED BY <2>4, <2>5 DEF InStep
<1>5. CASE TickRelease
  BY <1>5, LostInStep DEF TickRelease
<1>6. CASE TickClear
  <2>1. workQueue = <<>> /\ work'.pc = "idle" /\ beatTickInFlight' = FALSE
    BY <1>6 DEF TickClear, IInv, TypeOK, WorkTypeOK, SingleFlight, IdleWork
  <2>2. UNCHANGED <<topLevelState, runningBeatName, runningBeatCurrentState, session, poll,
                    pollOwner, workQueue, intrusion, eval, main>>
    BY <1>6 DEF TickClear, slotVars, pollVars, evalVars
  <2> QED BY <2>1, <2>2 DEF InStep, Belonging, Idle
<1> QED BY <1>1, <1>2, <1>3, <1>4, <1>5, <1>6 DEF Work

LEMMA EvalInStep ==
  ASSUME IInv, InStep, EvalStep
  PROVE  InStep'
<1> USE DEF Captured, Queued, Ticking, Ordered, Behind, Decided, Unmoved, Steady
<1>1. CASE EvalStart
  <2>1. Idle /\ ~Idle' /\ UNCHANGED <<poll, pollOwner, workQueue, work, tickOwner>>
    BY <1>1 DEF EvalStart, evalFrame, Idle, pollVars, workVars
  <2>2. ~Captured /\ ~Queued /\ ~Ticking
    BY <2>1 DEF InStep, Belonging
  <2> QED BY <2>1, <2>2 DEF InStep, Belonging
<1>2. CASE EvalOnStart
  <2>1. eval.pc = "onstart" /\ eval'.pc \in {"push", "threw"}
        /\ \A b \in Beats \ {eval.pick} : session'[b] = session[b]
    BY <1>2, SlotFacts DEF EvalOnStart, IInv, TypeOK, EvalTypeOK, Evaluations
  <2>2. UNCHANGED <<topLevelState, runningBeatName, runningBeatCurrentState, poll, pollOwner,
                    beatTickInFlight, workQueue, work, tickOwner, intrusion, main>>
    BY <1>2 DEF EvalOnStart, slotVars, pollVars, workVars
  <2>3. Belonging'
    BY <2>2 DEF InStep, Belonging, Idle
  <2>4. ASSUME Steady' PROVE Ordered' /\ Decided' /\ Unmoved'
    <3>1. CASE eval.pick = runningBeatName
      BY <2>1, <2>2, <2>4, <3>1 DEF InStep
    <3>2. CASE eval.pick # runningBeatName /\ (Captured \/ Queued \/ Ticking)
      <4>1. runningBeatName \in Beats \ {eval.pick}
        BY <3>2, SlotFacts DEF InStep, Belonging
      <4> QED BY <2>1, <2>2, <2>4, <4>1 DEF InStep
    <3>3. CASE ~(Captured \/ Queued \/ Ticking)
      BY <2>2, <3>3
    <3> QED BY <3>1, <3>2, <3>3
  <2> QED BY <2>3, <2>4 DEF InStep
<1>3. CASE EvalThrew
  BY <1>3, LostInStep DEF EvalThrew
<1>4. CASE eval'.pc # "onstart" /\ main' = main
           /\ UNCHANGED <<topLevelState, runningBeatName, runningBeatCurrentState, pollVars,
                          workVars, session, intrusion>>
  BY <1>4, FrameInStep
<1>5. CASE EvalTake
  BY <1>4, <1>5 DEF EvalTake, slotVars, IdleEval, Begin
<1>6. CASE EvalSnapshot \/ EvalTension \/ EvalCandidates \/ EvalRetry \/ EvalRefused
  <2>1. eval'.pc # "onstart"
    BY <1>6 DEF EvalSnapshot, EvalTension, EvalCandidates, EvalRetry, EvalRefused, IInv, TypeOK,
                EvalTypeOK, Evaluations
  <2> QED BY <1>4, <1>6, <2>1
        DEF EvalSnapshot, EvalTension, EvalCandidates, EvalRetry, EvalRefused, slotVars, evalFrame
<1>7. CASE EvalBlocked \/ EvalFilter \/ EvalSelectFails \/ EvalPick \/ EvalDropped
  <2>1. eval \in Evaluations
    BY DEF IInv, TypeOK, EvalTypeOK
  <2>2. CASE EvalFilter
    <3>1. eval'.pc # "onstart"
      BY <2>1, <2>2 DEF EvalFilter, Carry, Evaluations
    <3> QED BY <1>4, <2>2, <3>1 DEF EvalFilter, slotVars, evalFrame
  <2>3. CASE EvalBlocked \/ EvalSelectFails \/ EvalPick \/ EvalDropped
    <3>1. eval'.pc # "onstart"
      BY <2>3 DEF EvalBlocked, EvalSelectFails, EvalPick, EvalDropped, Carry
    <3> QED BY <1>4, <2>3, <3>1
          DEF EvalBlocked, EvalSelectFails, EvalPick, EvalDropped, slotVars, evalFrame
  <2> QED BY <1>7, <2>2, <2>3
<1>8. CASE EvalFailed \/ EvalPush
  BY <1>4, <1>8 DEF EvalFailed, EvalPush, Carry, slotVars, evalFrame
<1>9. CASE EvalAppend \/ EvalAdvance
  <2>1. eval'.pc # "onstart"
    BY <1>9 DEF EvalAppend, EvalAdvance, IInv, TypeOK, EvalTypeOK, Evaluations
  <2> QED BY <1>4, <1>9, <2>1 DEF EvalAppend, EvalAdvance, slotVars, evalFrame
<1>10. CASE EvalRelease \/ EvalGivesUp
  <2>1. eval' = IdleEval BY <1>10 DEF EvalRelease, EvalGivesUp
  <2>2. eval'.pc = "idle" BY <2>1 DEF IdleEval, Begin
  <2> QED BY <1>4, <1>10, <2>2 DEF EvalRelease, EvalGivesUp, slotVars, evalFrame
<1> QED BY <1>1, <1>2, <1>3, <1>5, <1>6, <1>7, <1>8, <1>9, <1>10 DEF EvalStep

LEMMA MainInStep ==
  ASSUME IInv, InStep, Main
  PROVE  InStep'
<1>1. CASE AbortForce \/ LoadBegin \/ LoadRevert \/ LoadRecords
  BY <1>1, LostInStep DEF AbortForce, LoadBegin, LoadRevert, LoadRecords, RevertAll
<1>2. CASE ForceDispatchBeat \/ AbortRead \/ LoadDone
  <2>1. UNCHANGED <<topLevelState, runningBeatName, runningBeatCurrentState, pollVars, workVars,
                    session, intrusion, eval>>
    BY <1>2 DEF ForceDispatchBeat, AbortRead, LoadDone, mainFrame, slotVars, pollVars, workVars
  <2>2. main' = main \/ (main.pc \in {"idle", "loaded"} /\ main'.pc # "force")
    BY <1>2 DEF ForceDispatchBeat, AbortRead, LoadDone, IInv, TypeOK, MainTypeOK
  <2> QED BY <2>1, <2>2, FrameInStep
<1>3. CASE AbortBeat
  <2>1. main'.pc = "force"
    BY <1>3 DEF AbortBeat, IInv, TypeOK, MainTypeOK
  <2> QED BY <1>3, <2>1
        DEF AbortBeat, InStep, Steady, Belonging, Captured, Queued, Ticking, Idle, mainFrame, slotVars
<1> QED BY <1>1, <1>2, <1>3 DEF Main

LEMMA InStepStep ==
  ASSUME IInv, InStep, [Next]_vars
  PROVE  InStep'
<1>1. CASE TickFire \/ WindowPasses
  BY <1>1, FrameInStep DEF TickFire, WindowPasses, slotVars, evalVars
<1>2. CASE UNCHANGED vars
  BY <1>2, FrameInStep DEF vars, slotVars, evalVars
<1> QED BY <1>1, <1>2, PollInStep, WorkInStep, EvalInStep, MainInStep DEF Next

\* Whatever an aborted, a finished or a reloaded beat has left under way, the
\* running beat's co-saved state never moves back: a tick that acts on a copy
\* of the slot repeats a decision its session remembers or comes to a later one.
THEOREM StateGoesForward == Spec => StateMovesForward
<1>1. Init => InStep
  BY DEF Init, InStep, Belonging, Ordered, Decided, Unmoved, Captured, Queued, Ticking, IdleWork
<1>2. IInv /\ InStep /\ [Next]_vars => InStep'
  BY InStepStep
<1> DEFINE Forward == /\ intrusion' = "none" /\ main.pc \notin {"force", "reverted"}
                      /\ runningBeatName' = runningBeatName /\ runningBeatName # NoBeat
                      => Rank[runningBeatCurrentState'] >= Rank[runningBeatCurrentState]
<1>3. IInv /\ InStep /\ [Next]_vars => Forward
  <2> SUFFICES ASSUME IInv, InStep, [Next]_vars,
                      intrusion' = "none", main.pc \notin {"force", "reverted"},
                      runningBeatName' = runningBeatName, runningBeatName # NoBeat
               PROVE  Rank[runningBeatCurrentState'] >= Rank[runningBeatCurrentState]
    OBVIOUS
  <2>1. ~Idle /\ runningBeatCurrentState \in LiveStates
    BY SlotFacts
  <2>2. Rank[runningBeatCurrentState] >= Rank[runningBeatCurrentState]
    BY <2>1 DEF Rank, LiveStates
  <2>3. CASE TickAdvance
    <3>1. tickOwner = "current" /\ intrusion = "none" /\ work.pc = "apply" /\ work.result \in LiveStates
      BY <2>3 DEF TickAdvance, Applies, IInv, TypeOK, WorkTypeOK, IdleWork, BeatStates, LiveStates, TickResults
    <3> QED BY <2>3, <3>1 DEF TickAdvance, InStep, Steady, Decided, Ticking
  <2>4. CASE UNCHANGED runningBeatCurrentState
    BY <2>2, <2>4
  <2>5. CASE ReleaseSlot
    BY <2>1, <2>5, SlotFacts, BeatConstants DEF ReleaseSlot
  <2> QED BY <2>1, <2>3, <2>4, <2>5
    DEF Next, Poll, Work, EvalStep, Main, PollAccrue, PollCapture, PollSkip, PollEnqueue,
        TickEnter, TickReturn, TickDiscard, TickRelease, TickClear, EvalTake, EvalSnapshot,
        EvalTension, EvalBlocked, EvalCandidates, EvalFilter, EvalSelectFails, EvalRetry,
        EvalPick, EvalFailed, EvalDropped, EvalRefused, EvalStart, EvalOnStart, EvalThrew,
        EvalPush, EvalAppend, EvalAdvance, EvalRelease, EvalGivesUp, TickFire,
        ForceDispatchBeat, AbortRead, AbortBeat, AbortForce, LoadBegin, LoadRevert, RevertAll,
        LoadRecords, LoadDone, WindowPasses, evalFrame, mainFrame, slotVars, vars
<1>4. IInv /\ InStep /\ [Next]_vars => Forward \/ UNCHANGED vars
  BY <1>3
<1> HIDE DEF Forward
<1>5. Spec => [][Forward]_vars
  BY <1>1, <1>2, <1>4, Invariance, PTL DEF Spec
<1> QED BY <1>5 DEF StateMovesForward, Forward
=============================================================================
