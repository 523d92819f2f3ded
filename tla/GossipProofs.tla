---------------------------- MODULE GossipProofs ----------------------------
(***************************************************************************)
(* Safety of the gossip subsystem for every set of memories, every backlog *)
(* cap, any number of loads and with every race between its threads.       *)
(*                                                                         *)
(* TypeOK is not inductive: a stamp is a game day only because the poll    *)
(* derives its boundary before it collects, and the world the session      *)
(* publishes is one only because it was taken first.  LocalsOK says so.    *)
(***************************************************************************)
EXTENDS GossipTick, FiniteSetTheorems, SequenceTheorems, TLAPS

LocalsOK ==
  /\ poll.pc = "collect" => sched.nextDue \in Nat
  /\ poll.pc = "enqueue" => poll.due # <<>>
  /\ tick.pc # "idle" => tick.handle \in Handles
  /\ tick.pc \in {"evaluate", "compose"} => tick.memory \in Memories /\ tick.seeds > 0
  /\ main.pc = "image" => main.incoming \in Worlds

-----------------------------------------------------------------------------
(* Which steps touch which state.                                          *)

LEMMA PollFrame == ASSUME Next PROVE PollNext \/ SessionSchedule \/ UNCHANGED <<poll, sched>>
BY DEF Next, PollNext, TickNext, LoadNext, SweepNext, WalkNext, EvalNext, ComposeNext,
  AdvanceNext, TickAlone, MainAlone, TickPop, TickSkip, TickEnter, AdoptPendingState,
  AdoptPublish, SetHorizon, TickAbandoned, SweepDeferred, JobThrows, EvalThrows,
  ComposeThrows, SweepPool,
  WalkCandidate, WalkEnds, EvalCancelled, EvalKeepsMemoryOnly, EvalDuplicate, EvalUnusable,
  EvalSeeds, ComposeSeeds, ComposeFails, AdvanceBegins, DrainBurnout, DrainAbandoned,
  SweepAndReap, TickCompletes, PublishSnapshot, Forget, OnSave, LoadBegin, CancelAll,
  CancelFlags, RevertSim, RevertTouch, RevertClaims, EngineLoads, LoadSim, LoadSimShort,
  LoadClaimsTouch, LoadClaims, LoadClaimsShort, LoadNothing, SessionStart, SessionPublish,
  ClockMoves, ClockSetBack

LEMMA JobFrame ==
  ASSUME Next
  PROVE  PollEnqueue \/ TickPop \/ CancelFlags \/ Forget \/ UNCHANGED jobVars
BY DEF Next, PollNext, TickNext, LoadNext, SweepNext, WalkNext, EvalNext, ComposeNext,
  AdvanceNext, TickAlone, MainAlone, PollDerive, PollCollect, PollDrop, TickSkip, TickEnter,
  AdoptPendingState, AdoptPublish, SetHorizon, TickAbandoned, SweepDeferred, JobThrows, EvalThrows,
  ComposeThrows,
  SweepPool, WalkCandidate, WalkEnds, EvalCancelled, EvalKeepsMemoryOnly, EvalDuplicate,
  EvalUnusable, EvalSeeds, ComposeSeeds, ComposeFails, AdvanceBegins, DrainBurnout,
  DrainAbandoned, SweepAndReap, TickCompletes, PublishSnapshot, OnSave, LoadBegin, CancelAll,
  RevertSim, RevertTouch, RevertClaims, EngineLoads, LoadSim, LoadSimShort, LoadClaimsTouch,
  LoadClaims, LoadClaimsShort, LoadNothing, SessionStart, SessionPublish, SessionSchedule,
  ClockMoves, ClockSetBack, jobVars

LEMMA TickFrame == ASSUME Next PROVE TickNext \/ UNCHANGED <<tick, live>>
BY DEF Next, PollNext, LoadNext, MainAlone, PollDerive, PollCollect, PollDrop, PollEnqueue,
  OnSave, LoadBegin, CancelAll, CancelFlags, RevertSim, RevertTouch, RevertClaims,
  EngineLoads, LoadSim, LoadSimShort, LoadClaimsTouch, LoadClaims, LoadClaimsShort,
  LoadNothing, SessionStart, SessionPublish, SessionSchedule, ClockMoves, ClockSetBack, worldVars

LEMMA PendingFrame ==
  ASSUME Next
  PROVE  AdoptPendingState \/ LoadNext \/ UNCHANGED pending
BY DEF Next, PollNext, TickNext, SweepNext, WalkNext, EvalNext, ComposeNext, AdvanceNext,
  TickAlone, PollDerive, PollCollect, PollDrop, PollEnqueue, TickPop, TickSkip, TickEnter,
  AdoptPublish, SetHorizon, TickAbandoned, SweepDeferred, JobThrows, EvalThrows,
  ComposeThrows, SweepPool,
  WalkCandidate, WalkEnds, EvalCancelled, EvalKeepsMemoryOnly, EvalDuplicate, EvalUnusable,
  EvalSeeds, ComposeSeeds, ComposeFails, AdvanceBegins, DrainBurnout, DrainAbandoned,
  SweepAndReap, TickCompletes, PublishSnapshot, Forget, OnSave, ClockMoves, ClockSetBack, worldVars

LEMMA SnapshotFrame ==
  ASSUME Next
  PROVE  AdoptPublish \/ PublishSnapshot \/ SessionPublish \/ UNCHANGED snapshot
BY DEF Next, PollNext, TickNext, LoadNext, SweepNext, WalkNext, EvalNext, ComposeNext,
  AdvanceNext, TickAlone, MainAlone, PollDerive, PollCollect, PollDrop, PollEnqueue, TickPop,
  TickSkip, TickEnter, AdoptPendingState, SetHorizon, TickAbandoned, SweepDeferred,
  JobThrows, EvalThrows,
  ComposeThrows, SweepPool, WalkCandidate, WalkEnds, EvalCancelled, EvalKeepsMemoryOnly,
  EvalDuplicate, EvalUnusable, EvalSeeds, ComposeSeeds, ComposeFails, AdvanceBegins,
  DrainBurnout, DrainAbandoned, SweepAndReap, TickCompletes, Forget, OnSave, LoadBegin,
  CancelAll, CancelFlags, RevertSim, RevertTouch, RevertClaims, EngineLoads, LoadSim,
  LoadSimShort, LoadClaimsTouch, LoadClaims, LoadClaimsShort, LoadNothing, SessionStart,
  SessionSchedule, ClockMoves, ClockSetBack, worldVars

LEMMA MainFrame ==
  ASSUME Next
  PROVE  LoadNext \/ OnSave \/ ClockMoves \/ ClockSetBack \/ UNCHANGED <<main, timeVars, saved>>
BY DEF Next, PollNext, TickNext, SweepNext, WalkNext, EvalNext, ComposeNext, AdvanceNext,
  TickAlone, PollDerive, PollCollect, PollDrop, PollEnqueue, TickPop, TickSkip, TickEnter,
  AdoptPendingState, AdoptPublish, SetHorizon, TickAbandoned, SweepDeferred, JobThrows, EvalThrows,
  ComposeThrows,
  SweepPool, WalkCandidate, WalkEnds, EvalCancelled, EvalKeepsMemoryOnly, EvalDuplicate,
  EvalUnusable, EvalSeeds, ComposeSeeds, ComposeFails, AdvanceBegins, DrainBurnout,
  DrainAbandoned, SweepAndReap, TickCompletes, PublishSnapshot, Forget, OnSave, timeVars

-----------------------------------------------------------------------------
(* A world stays a world.                                                  *)

LEMMA FreshIsWorld == ASSUME NEW s \in Nat PROVE FreshWorld(s) \in Worlds
BY ClaimConstants DEF FreshWorld, Worlds, NoClaims, NoEventClaims, FreeEvent, Unclaimed

LEMMA ClaimIsWorld ==
  ASSUME NEW w \in Worlds, NEW m \in Memories, NEW day \in Nat
  PROVE  Claim(w, m, day) \in Worlds
<1> DEFINE expiry == day + ClaimExpiryDays
           claims == [n \in Memories |-> IF n = m /\ ~IsClaimed(w, m) THEN expiry ELSE w.claims[n]]
           taken  == {e \in EventsOf[m] : w.eventClaims[e] = FreeEvent}
           events == [e \in Events |-> IF e \in taken THEN [expires |-> expiry, by |-> m]
                                       ELSE w.eventClaims[e]]
<1>1. expiry \in Nat
  BY ClaimConstants
<1>2. claims \in [Memories -> Nat \cup {Unclaimed}]
  <2> HIDE DEF expiry
  <2> QED BY <1>1 DEF Worlds
<1>3. events \in [Events -> [expires : Nat \cup {Unclaimed}, by : Memories \cup {NoMemory}]]
  <2> HIDE DEF expiry, taken
  <2> QED BY <1>1 DEF Worlds
<1>4. Claim(w, m, day) = [w EXCEPT !.claims = claims, !.eventClaims = events,
                                   !.left = @ \ {m}]
  BY DEF Claim
<1> HIDE DEF claims, events
<1> QED BY <1>2, <1>3, <1>4 DEF Worlds

LEMMA ReleaseIsWorld ==
  ASSUME NEW w \in Worlds, NEW m \in Memories
  PROVE  Release(w, m) \in Worlds /\ ReleaseEvents(w, m) \in Worlds
BY DEF Release, ReleaseEvents, Worlds, Unclaimed, FreeEvent

LEMMA SweepIsWorld ==
  ASSUME NEW w \in Worlds, NEW day
  PROVE  SweepClaims(w, day) \in Worlds
BY DEF SweepClaims, Worlds, Unclaimed, FreeEvent

LEMMA TellIsWorld ==
  ASSUME NEW w \in Worlds, NEW m \in Memories
  PROVE  Tell(w, m) \in Worlds /\ Leave(w, m) \in Worlds
<1>1. /\ w.rumors \cup {m} \in SUBSET Memories
      /\ w.told \cup {m} \in SUBSET Memories
      /\ w.left \cup {m} \in SUBSET Memories
  BY DEF Worlds
<1> QED BY <1>1 DEF Tell, Leave, Worlds

LEMMA ClockIsWorld ==
  ASSUME NEW w \in Worlds, NEW e \in Nat, NEW day \in Nat
  PROVE  SetClock(w, e, day) \in Worlds
BY DEF SetClock, Worlds

LEMMA NoLedgerIsWorld == ASSUME NEW w \in Worlds PROVE NoLedger(w) \in Worlds
BY DEF NoLedger, Worlds, NoClaims, NoEventClaims, FreeEvent, Unclaimed

LEMMA StagedIsWorld == ASSUME TypeOK PROVE Staged \in Worlds
BY FreshIsWorld DEF Staged, TypeOK

-----------------------------------------------------------------------------
(* The types, group by group.                                              *)

JobsTyped ==
  /\ queue \in Seq(Handles)
  /\ asOf \in [Handles -> Nat]
  /\ eraOf \in [Handles -> Nat]
  /\ outstanding \subseteq Handles
  /\ cancelled \subseteq Handles

PollTyped ==
  /\ sched \in [nextDue : Days, anchor : Days, era : Nat]
  /\ poll \in [pc : {"idle", "collect", "enqueue"}, now : Nat, due : Seq(Nat)]
  /\ poll.pc = "collect" => sched.nextDue \in Nat
  /\ poll.pc = "enqueue" => poll.due # <<>>

TickTyped ==
  /\ tick \in [pc : TickSteps, handle : Handles \cup {NoHandle}, pool : SUBSET Memories,
               memory : Memories \cup {NoMemory}, seeds : Nat]
  /\ live \in Worlds
  /\ tick.pc # "idle" => tick.handle \in Handles
  /\ tick.pc \in {"evaluate", "compose"} => tick.memory \in Memories /\ tick.seeds > 0

MainTyped ==
  /\ clock \in Nat
  /\ era \in Nat
  /\ main \in [pc : LoadSteps \cup {"play"}, round : 0 .. 2, cancelling : SUBSET Handles,
               read : SUBSET {"sim", "claims"}, incoming : Worlds \cup {NoWorld}, loads : Nat]
  /\ saved \in [world : Worlds, day : Nat, era : Nat]
  /\ main.pc = "image" => main.incoming \in Worlds

ImagesTyped == pending \in Worlds \cup {NoWorld} /\ snapshot \in Worlds

IInv == TypeOK /\ LocalsOK

LEMMA IInvParts == IInv <=> JobsTyped /\ PollTyped /\ TickTyped /\ MainTyped /\ ImagesTyped
BY DEF IInv, TypeOK, LocalsOK, JobsTyped, PollTyped, TickTyped, MainTyped, ImagesTyped

LEMMA JobsStayTyped == ASSUME IInv, Next PROVE JobsTyped'
<1> USE DEF IInv, TypeOK, LocalsOK, JobsTyped
<1>1. CASE PollEnqueue
  <2> DEFINE fresh == Handles \ (outstanding \cup main.cancelling)
             h == CHOOSE x \in fresh : TRUE
  <2>1. fresh # {} /\ h \in Handles
    BY <1>1 DEF PollEnqueue
  <2>2. Head(poll.due) \in Nat /\ sched.era \in Nat
    BY <1>1 DEF PollEnqueue
  <2>3. /\ outstanding' = outstanding \cup {h}
        /\ queue' = Append(queue, h)
        /\ asOf' = [asOf EXCEPT ![h] = Head(poll.due)]
        /\ eraOf' = [eraOf EXCEPT ![h] = sched.era]
        /\ cancelled' = cancelled \ {h}
    BY <1>1 DEF PollEnqueue
  <2> HIDE DEF h
  <2> QED BY <2>1, <2>2, <2>3
<1>2. CASE TickPop
  BY <1>2 DEF TickPop
<1>3. CASE CancelFlags
  BY <1>3 DEF CancelFlags
<1>4. CASE Forget
  BY <1>4 DEF Forget
<1>5. CASE UNCHANGED jobVars
  BY <1>5 DEF jobVars
<1> QED BY <1>1, <1>2, <1>3, <1>4, <1>5, JobFrame

LEMMA TailKeepsDue ==
  ASSUME NEW s \in Seq(Nat), s # <<>>, Len(s) # 1
  PROVE  Tail(s) \in Seq(Nat) /\ Tail(s) # <<>>
<1>1. Tail(s) \in Seq(Nat) /\ Len(Tail(s)) = Len(s) - 1
  BY HeadTailProperties
<1>2. Len(s) \in Nat \ {0} /\ Len(<<>>) = 0
  BY EmptySeq
<1>3. Len(Tail(s)) # 0
  BY <1>1, <1>2
<1> QED BY <1>1, <1>2, <1>3

LEMMA PollStaysTyped == ASSUME IInv, Next PROVE PollTyped'
<1>t. PollTyped /\ clock \in Nat /\ era \in Nat /\ Interval \in Nat \ {0} /\ snapshot \in Worlds
  BY IInvParts, TickConstants DEF MainTyped, ImagesTyped
<1> USE <1>t DEF PollTyped, Days, NotDerived
<1>0. /\ IdlePoll \in [pc : {"idle", "collect", "enqueue"}, now : Nat, due : Seq(Nat)]
      /\ IdlePoll.pc = "idle"
  BY DEF IdlePoll
<1>1. CASE PollDerive
  <2> DEFINE first == sched.nextDue = NotDerived
             owed  == sched.anchor + Interval
             next  == IF ~first THEN sched.nextDue ELSE IF owed > clock THEN owed ELSE clock
             again == \/ first /\ (sched.anchor = NotDerived \/ clock < sched.anchor)
                      \/ clock < next - Interval
  <2>1. next \in Nat /\ clock + Interval \in Nat
    OBVIOUS
  <2>2. /\ poll.pc = "idle"
        /\ sched' = [sched EXCEPT !.nextDue = IF again THEN clock + Interval ELSE next, !.era = era]
        /\ poll' = IF again THEN poll ELSE [poll EXCEPT !.pc = "collect", !.now = clock]
    BY <1>1 DEF PollDerive
  <2> HIDE DEF next, again
  <2> QED BY <2>1, <2>2
<1>2. CASE PollCollect
  <2>0. poll.pc = "collect" /\ sched.nextDue \in Nat
    BY <1>2 DEF PollCollect
  <2>1. CASE sched.nextDue <= poll.now
    <3>1. /\ Append(poll.due, sched.nextDue) \in Seq(Nat)
          /\ sched.nextDue + Interval \in Nat
      BY <2>0
    <3>2. /\ poll' = [poll EXCEPT !.due = Append(poll.due, sched.nextDue)]
          /\ sched' = [sched EXCEPT !.nextDue = sched.nextDue + Interval]
      BY <1>2, <2>1 DEF PollCollect
    <3> QED BY <2>0, <3>1, <3>2
  <2>2. CASE ~(sched.nextDue <= poll.now)
    BY <1>0, <1>2, <2>2 DEF PollCollect
  <2> QED BY <2>1, <2>2
<1>3. ASSUME poll.pc = "enqueue", poll' = PollTail, UNCHANGED sched PROVE PollTyped'
  <2>1. CASE Len(poll.due) = 1
    BY <1>0, <1>3, <2>1 DEF PollTail
  <2>2. CASE Len(poll.due) # 1
    <3>1. Tail(poll.due) \in Seq(Nat) /\ Tail(poll.due) # <<>>
      BY <1>3, <2>2, TailKeepsDue
    <3> QED BY <1>3, <2>2, <3>1 DEF PollTail
  <2> QED BY <2>1, <2>2
<1>4. CASE SessionSchedule
  <2>1. Staged \in Worlds
    BY StagedIsWorld DEF IInv
  <2>2. sched'.nextDue = NotDerived /\ sched' \in [nextDue : Days, anchor : Days, era : Nat]
    BY <1>4, <2>1 DEF SessionSchedule, Worlds
  <2> QED BY <1>4, <2>2 DEF SessionSchedule
<1>5. CASE UNCHANGED <<poll, sched>>
  BY <1>5
<1> QED BY <1>1, <1>2, <1>3, <1>4, <1>5, PollFrame DEF PollNext, PollDrop, PollEnqueue

LEMMA ImagesStayTyped == ASSUME IInv, Next PROVE ImagesTyped'
<1> USE DEF ImagesTyped
<1>1. Staged \in Worlds /\ saved.world \in Worlds /\ main.loads \in Nat /\ clock \in Nat
      /\ era \in Nat /\ saved.era \in Nat /\ live \in Worlds /\ pending \in Worlds \cup {NoWorld} /\ snapshot \in Worlds
      /\ (main.pc = "image" => main.incoming \in Worlds)
  BY StagedIsWorld DEF IInv, TypeOK, LocalsOK
<1>2. NoLedger(Staged) \in Worlds
  BY <1>1, NoLedgerIsWorld
<1>3. ASSUME LoadNext PROVE pending' \in Worlds \cup {NoWorld}
  <2> HIDE DEF Staged
  <2>1. CASE RevertSim
    BY <1>1, <2>1 DEF RevertSim, Worlds
  <2>2. CASE RevertTouch \/ LoadClaimsTouch
    BY <1>1, <2>2 DEF RevertTouch, LoadClaimsTouch
  <2>3. CASE RevertClaims \/ LoadClaimsShort
    BY <1>2, <2>3 DEF RevertClaims, LoadClaimsShort, WriteStaged
  <2>4. CASE LoadSim \/ LoadSimShort
    <3>1. /\ saved.world.rumors \in SUBSET Memories /\ saved.world.simGameDay \in Nat \cup {-1}
          /\ saved.world.era \in Nat
      BY <1>1 DEF Worlds
    <3>2. CASE LoadSim
      BY <1>1, <3>1, <3>2 DEF LoadSim, Worlds
    <3>3. CASE LoadSimShort
      BY <1>1, <3>1, <3>3 DEF LoadSimShort, Worlds
    <3> QED BY <2>4, <3>2, <3>3
  <2>5. CASE LoadClaims
    BY <1>1, <2>5 DEF LoadClaims, WriteStaged, Worlds
  <2>6. CASE SessionStart
    BY <1>1, <2>6 DEF SessionStart, Worlds
  <2>7. CASE UNCHANGED pending
    BY <1>1, <2>7
  <2> QED BY <1>3, <2>1, <2>2, <2>3, <2>4, <2>5, <2>6, <2>7 DEF LoadNext, LoadBegin, CancelAll,
    CancelFlags, EngineLoads, LoadNothing, SessionPublish, SessionSchedule, worldVars
<1>4. pending' \in Worlds \cup {NoWorld}
  BY <1>1, <1>3, PendingFrame DEF AdoptPendingState
<1>5. snapshot' \in Worlds
  BY <1>1, SnapshotFrame DEF AdoptPublish, PublishSnapshot, SessionPublish
<1> QED BY <1>4, <1>5

LEMMA TickStaysTyped == ASSUME IInv, Next PROVE TickTyped'
<1>t. /\ TickTyped /\ queue \in Seq(Handles)
      /\ asOf \in [Handles -> Nat] /\ eraOf \in [Handles -> Nat]
      /\ pending \in Worlds \cup {NoWorld} /\ Staged \in Worlds
  BY StagedIsWorld, IInvParts DEF JobsTyped, ImagesTyped, IInv
<1>m. MaxSeeds \in Nat
  BY TickConstants
<1> USE <1>t DEF TickTyped, TickSteps
<1>1. CASE TickPop
  <2>1. Head(queue) \in Handles
    BY <1>1, HeadTailProperties DEF TickPop
  <2>2. /\ tick' = [pc |-> "popped", handle |-> Head(queue), pool |-> {}, memory |-> NoMemory,
                    seeds |-> 0]
        /\ live' = live
    BY <1>1 DEF TickPop, IdleTick, worldVars
  <2> QED BY <2>1, <2>2
<1>2. CASE TickSkip \/ TickEnter \/ TickAbandoned \/ AdvanceBegins \/ DrainAbandoned
           \/ TickCompletes \/ AdoptPublish \/ PublishSnapshot \/ JobThrows
  BY <1>2 DEF JobThrows, TickSkip, TickEnter, TickAbandoned, AdvanceBegins, DrainAbandoned,
    TickCompletes, AdoptPublish, PublishSnapshot, TickGoes
<1>3. CASE AdoptPendingState
  BY <1>3 DEF AdoptPendingState, TickGoes
<1>4. CASE SetHorizon
  <2>1. eraOf[tick.handle] \in Nat /\ asOf[tick.handle] \in Nat
    BY <1>4 DEF SetHorizon
  <2>2. live' \in Worlds
    BY <1>4, <2>1, ClockIsWorld DEF SetHorizon
  <2> QED BY <1>4, <2>2 DEF SetHorizon, TickGoes
<1>5. CASE SweepNext
  BY <1>5, <1>m DEF SweepNext, SweepDeferred, SweepPool, TickGoes
<1>6. CASE WalkCandidate
  <2>1. PICK m \in tick.pool :
          IF IsClaimed(live, m) \/ AreEventsClaimed(live, m)
            THEN tick' = [tick EXCEPT !.pool = @ \ {m}] /\ UNCHANGED live
            ELSE /\ live' = Claim(live, m, asOf[tick.handle])
                 /\ tick' = [tick EXCEPT !.pc = "evaluate", !.pool = @ \ {m}, !.memory = m]
    BY <1>6 DEF WalkCandidate
  <2>2. m \in Memories /\ asOf[tick.handle] \in Nat /\ tick.pc = "walk" /\ tick.seeds > 0
    BY <1>6 DEF WalkCandidate
  <2>3. Claim(live, m, asOf[tick.handle]) \in Worlds
    BY <2>2, ClaimIsWorld
  <2>4. CASE IsClaimed(live, m) \/ AreEventsClaimed(live, m)
    <3>1. tick' = [tick EXCEPT !.pool = @ \ {m}] /\ UNCHANGED live
      BY <2>1, <2>4
    <3> QED BY <2>2, <3>1
  <2>5. CASE ~(IsClaimed(live, m) \/ AreEventsClaimed(live, m))
    <3>1. /\ live' = Claim(live, m, asOf[tick.handle])
          /\ tick' = [tick EXCEPT !.pc = "evaluate", !.pool = @ \ {m}, !.memory = m]
      BY <2>1, <2>5
    <3> HIDE DEF Claim
    <3> QED BY <2>2, <2>3, <3>1
  <2> QED BY <2>4, <2>5
<1>7. CASE WalkEnds
  BY <1>7 DEF WalkEnds
<1>8. CASE EvalNext
  <2>1. tick.pc = "evaluate" /\ tick.memory \in Memories /\ tick.seeds \in Nat
    BY <1>8 DEF EvalNext, EvalCancelled, EvalKeepsMemoryOnly, EvalDuplicate, EvalUnusable,
      EvalThrows, EvalSeeds
  <2>2. Release(live, tick.memory) \in Worlds /\ ReleaseEvents(live, tick.memory) \in Worlds
    BY <2>1, ReleaseIsWorld
  <2>3. CASE EvalCancelled \/ EvalUnusable
    BY <2>1, <2>2, <2>3 DEF EvalCancelled, EvalUnusable, Settle
  <2>4. CASE EvalKeepsMemoryOnly
    BY <2>1, <2>2, <2>4 DEF EvalKeepsMemoryOnly, Settle, Worlds
  <2>5. CASE EvalDuplicate
    BY <2>1, <2>5 DEF EvalDuplicate, Settle, Worlds
  <2>6. CASE EvalSeeds
    BY <2>1, <2>6 DEF EvalSeeds, TickGoes
  <2>7. CASE EvalThrows
    <3>1. live' \in Worlds
      BY <2>1, <2>7, TellIsWorld DEF EvalThrows
    <3> QED BY <2>7, <3>1 DEF EvalThrows, TickGoes
  <2> QED BY <1>8, <2>3, <2>4, <2>5, <2>6, <2>7 DEF EvalNext
<1>9. CASE ComposeNext
  <2>1. tick.pc = "compose" /\ tick.memory \in Memories /\ tick.seeds - 1 \in Nat
    BY <1>9 DEF ComposeNext, ComposeSeeds, ComposeFails, ComposeThrows
  <2>2. /\ Release(live, tick.memory) \in Worlds /\ Tell(live, tick.memory) \in Worlds
        /\ Leave(live, tick.memory) \in Worlds
    BY <2>1, ReleaseIsWorld, TellIsWorld
  <2> HIDE DEF Release, Tell, Leave
  <2>3. live' \in Worlds
    BY <1>9, <2>2 DEF ComposeNext, ComposeSeeds, ComposeFails, ComposeThrows
  <2>4. CASE Settle("walk", tick.seeds - 1)
    BY <2>1, <2>3, <2>4 DEF Settle
  <2>5. CASE ComposeThrows
    BY <2>3, <2>5 DEF ComposeThrows, TickGoes
  <2> QED BY <1>9, <2>4, <2>5 DEF ComposeNext, ComposeSeeds, ComposeFails
<1>10. CASE DrainBurnout
  <2>1. PICK m \in live.rumors : live' = [live EXCEPT !.rumors = @ \ {m}]
    BY <1>10 DEF DrainBurnout
  <2>2. live' \in Worlds
    BY <2>1 DEF Worlds
  <2> QED BY <1>10, <2>2 DEF DrainBurnout, TickGoes
<1>11. CASE SweepAndReap
  <2>1. live' \in Worlds
    BY <1>11, SweepIsWorld DEF SweepAndReap
  <2> QED BY <1>11, <2>1 DEF SweepAndReap, TickGoes
<1>12. CASE Forget
  BY <1>12 DEF Forget, IdleTick, worldVars
<1>13. CASE UNCHANGED <<tick, live>>
  BY <1>13
<1> QED BY <1>1, <1>2, <1>3, <1>4, <1>5, <1>6, <1>7, <1>8, <1>9, <1>10, <1>11, <1>12, <1>13,
      TickFrame DEF TickNext, WalkNext, AdvanceNext

LEMMA MainStaysTyped == ASSUME IInv, Next PROVE MainTyped'
<1>t. /\ MainTyped /\ ImagesTyped /\ outstanding \subseteq Handles /\ Staged \in Worlds
  BY StagedIsWorld, IInvParts DEF JobsTyped, IInv
<1> USE <1>t DEF MainTyped, ImagesTyped, LoadSteps, timeVars
<1> HIDE DEF Staged
<1>1. CASE LoadBegin
  <2>1. main' = [InPlay EXCEPT !.pc = "cancel", !.round = 1, !.loads = main.loads + 1]
    BY <1>1 DEF LoadBegin
  <2>2. main.loads + 1 \in Nat /\ UNCHANGED <<clock, era, saved>>
    BY <1>1 DEF LoadBegin, MainAlone
  <2>3. main' = [pc |-> "cancel", round |-> 1, cancelling |-> {}, read |-> {},
                 incoming |-> NoWorld, loads |-> main.loads + 1]
    BY <2>1 DEF InPlay
  <2> QED BY <2>2, <2>3
<1>2. CASE CancelAll \/ CancelFlags
  BY <1>2 DEF CancelAll, CancelFlags, MainAlone
<1>3. CASE RevertSim \/ RevertTouch \/ LoadSimShort \/ LoadClaimsTouch \/ LoadClaimsShort
           \/ LoadNothing \/ SessionPublish
  BY <1>3 DEF RevertSim, RevertTouch, LoadSimShort, LoadClaimsTouch, LoadClaimsShort,
    LoadNothing, SessionPublish, MainGoes, MainAlone
<1>4. CASE RevertClaims
  <2>1. PICK pc \in {"cancel", "engine"} : main' = [main EXCEPT !.pc = pc, !.round = 2]
    BY <1>4 DEF RevertClaims
  <2>2. UNCHANGED <<clock, era, saved>>
    BY <1>4 DEF RevertClaims, MainAlone
  <2>3. pc \in LoadSteps /\ pc # "image" /\ 2 \in 0 .. 2
    OBVIOUS
  <2>4. main'.pc # "image"
    BY <2>1, <2>3
  <2> QED BY <2>1, <2>2, <2>3, <2>4
<1>5. CASE EngineLoads
  BY <1>5 DEF EngineLoads, MainGoes
<1>6. CASE LoadSim \/ LoadClaims
  <2>1. \E pc \in {"touchClaims", "session"}, read \in SUBSET {"sim", "claims"} :
           main' = [main EXCEPT !.pc = pc, !.read = read]
    <3>1. CASE LoadSim
      BY <3>1 DEF LoadSim
    <3>2. CASE LoadClaims
      <4>1. main.read \cup {"claims"} \in SUBSET {"sim", "claims"}
        OBVIOUS
      <4> QED BY <3>2, <4>1 DEF LoadClaims
    <3> QED BY <1>6, <3>1, <3>2
  <2>2. UNCHANGED <<clock, era, saved>>
    BY <1>6 DEF LoadSim, LoadClaims, MainAlone
  <2> QED BY <2>1, <2>2
<1>7. CASE SessionStart
  <2>1. pending' \in Worlds
    BY <1>7 DEF SessionStart, Worlds
  <2> QED BY <1>7, <2>1 DEF SessionStart, MainAlone
<1>8. CASE SessionSchedule
  BY <1>8 DEF SessionSchedule, InPlay
<1>9. CASE OnSave
  BY <1>9 DEF OnSave
<1>10. CASE ClockMoves
  BY <1>10 DEF ClockMoves
<1>12. CASE ClockSetBack
  BY <1>12 DEF ClockSetBack
<1>11. CASE UNCHANGED <<main, timeVars, saved>>
  BY <1>11
<1> QED BY <1>1, <1>2, <1>3, <1>4, <1>5, <1>6, <1>7, <1>8, <1>9, <1>10, <1>11, <1>12, MainFrame
      DEF LoadNext

LEMMA InitTyped == Init => IInv
<1>1. FreshWorld(0) \in Worlds /\ NewWorld \in Worlds
  BY FreshIsWorld DEF NewWorld, Worlds
<1> QED BY <1>1 DEF Init, IInv, TypeOK, LocalsOK, IdlePoll, IdleTick, InPlay, NotDerived, Days,
      TickSteps, LoadSteps

LEMMA NextKeepsTypes == IInv /\ [Next]_vars => IInv'
<1>1. ASSUME IInv, Next PROVE IInv'
  <2>1. JobsTyped' /\ PollTyped' /\ TickTyped' /\ MainTyped' /\ ImagesTyped'
    BY <1>1, JobsStayTyped, PollStaysTyped, TickStaysTyped, MainStaysTyped, ImagesStayTyped
  <2> QED BY <2>1 DEF IInv, TypeOK, LocalsOK, JobsTyped, PollTyped, TickTyped, MainTyped,
        ImagesTyped
<1>2. ASSUME IInv, UNCHANGED vars PROVE IInv'
  BY <1>2 DEF IInv, TypeOK, LocalsOK, vars, timeVars, jobVars, worldVars
<1> QED BY <1>1, <1>2

\* Every variable keeps its type: stamps are game days, the worker's handle is
\* a token, the seeds of a sweep never run below zero, and what is published
\* is always a whole world, under every race.
THEOREM TypeCorrect == Spec => []TypeOK
<1>1. Init => IInv
  BY InitTyped
<1>2. IInv /\ [Next]_vars => IInv'
  BY NextKeepsTypes
<1>3. IInv => TypeOK
  BY DEF IInv
<1> QED BY <1>1, <1>2, <1>3, PTL DEF Spec

LEMMA Invariance == Spec => []IInv
<1>1. IInv /\ [Next]_vars => IInv'
  BY NextKeepsTypes
<1> QED BY <1>1, InitTyped, PTL DEF Spec

-----------------------------------------------------------------------------
(* The backlog.  That the cap bounds it needs the queue to hold no handle  *)
(* twice: then the count of the handles is the count of the jobs.          *)

QueuedOnce == \A i, j \in 1 .. Len(queue) : queue[i] = queue[j] => i = j

Backlog ==
  /\ QueuedOnce
  /\ outstanding = Queued \cup Running
  /\ Queued \cap Running = {}
  /\ Cardinality(outstanding) <= MaxOutstandingTicks

LEMMA QueuedCount ==
  ASSUME queue \in Seq(Handles), QueuedOnce
  PROVE  IsFiniteSet(Queued) /\ Cardinality(Queued) = Len(queue)
<1> DEFINE f == [i \in 1 .. Len(queue) |-> queue[i]]
<1>1. Len(queue) \in Nat
  OBVIOUS
<1>2. IsFiniteSet(1 .. Len(queue)) /\ Cardinality(1 .. Len(queue)) = Len(queue)
  BY <1>1, FS_Interval
<1>3. f \in Bijection(1 .. Len(queue), Queued)
  BY DEF QueuedOnce, Queued, Bijection, Injection, Surjection, IsInjective
<1>4. ExistsBijection(1 .. Len(queue), Queued)
  BY <1>3 DEF ExistsBijection
<1> QED BY <1>2, <1>4, FS_Bijection

LEMMA BacklogCount ==
  ASSUME queue \in Seq(Handles), Backlog
  PROVE  IsFiniteSet(outstanding) /\ Cardinality(outstanding) \in Nat
<1>1. IsFiniteSet(Queued)
  BY QueuedCount DEF Backlog
<1>2. IsFiniteSet(Running)
  BY FS_EmptySet, FS_Singleton DEF Running
<1> QED BY <1>1, <1>2, FS_Union, FS_CardinalityType DEF Backlog

\* Only a pop takes a handle in hand and only Forget lets go of it.
LEMMA RunningFrame == ASSUME IInv, Next PROVE TickPop \/ Forget \/ Running' = Running
<1>t. TickTyped
  BY IInvParts
<1>1. CASE TickNext
  <2>1. TickPop \/ Forget \/ /\ tick.pc # "idle" /\ tick'.pc # "idle"
                             /\ tick'.handle = tick.handle
    BY <1>t, <1>1 DEF TickTyped, TickNext, SweepNext, WalkNext, EvalNext, ComposeNext, AdvanceNext,
      TickSkip, TickEnter, AdoptPendingState, AdoptPublish, SetHorizon, TickAbandoned,
      SweepDeferred, JobThrows, EvalThrows,
  ComposeThrows, SweepPool, WalkCandidate, WalkEnds, EvalCancelled,
      EvalKeepsMemoryOnly, EvalDuplicate, EvalUnusable, EvalSeeds, ComposeSeeds, ComposeFails,
      AdvanceBegins, DrainBurnout, DrainAbandoned, SweepAndReap, TickCompletes,
      PublishSnapshot, TickGoes, Settle
  <2> QED BY <2>1 DEF Running
<1>2. CASE UNCHANGED <<tick, live>>
  BY <1>2 DEF Running
<1> QED BY <1>1, <1>2, TickFrame

LEMMA EnqueueKeepsBacklog == ASSUME IInv, Backlog, PollEnqueue PROVE Backlog'
<1> DEFINE fresh == Handles \ (outstanding \cup main.cancelling)
           h == CHOOSE x \in fresh : TRUE
<1>t. queue \in Seq(Handles) /\ MaxOutstandingTicks \in Nat
  BY TickConstants DEF IInv, TypeOK
<1>1. fresh # {} /\ h \in Handles /\ h \notin outstanding
  BY DEF PollEnqueue
<1>2. queue' = Append(queue, h) /\ outstanding' = outstanding \cup {h} /\ tick' = tick
  BY DEF PollEnqueue
<1> HIDE DEF h
<1>3. /\ Len(queue') = Len(queue) + 1 /\ Len(queue) \in Nat
      /\ \A i \in 1 .. Len(queue) : queue'[i] = queue[i]
      /\ queue'[Len(queue) + 1] = h
  BY <1>t, <1>1, <1>2, AppendProperties
<1>4. \A i \in 1 .. Len(queue) : queue[i] # h
  BY <1>1 DEF Backlog, Queued
<1>5. QueuedOnce'
  BY <1>3, <1>4 DEF QueuedOnce, Backlog
<1>6. Queued' = Queued \cup {h}
  BY <1>3 DEF Queued
<1>7. Running' = Running
  BY <1>2 DEF Running
<1>8. Cardinality(outstanding') <= MaxOutstandingTicks
  <2>1. IsFiniteSet(outstanding) /\ Cardinality(outstanding) \in Nat
    BY <1>t, BacklogCount
  <2>2. Cardinality(outstanding') = Cardinality(outstanding) + 1
    BY <1>1, <1>2, <2>1, FS_AddElement
  <2> QED BY <1>t, <2>1, <2>2 DEF PollEnqueue
<1> QED BY <1>1, <1>2, <1>5, <1>6, <1>7, <1>8 DEF Backlog

LEMMA PopKeepsBacklog == ASSUME IInv, Backlog, TickPop PROVE Backlog'
<1>t. queue \in Seq(Handles) /\ queue # <<>>
  BY DEF IInv, TypeOK, TickPop
<1>1. /\ tick.pc = "idle" /\ tick'.pc # "idle" /\ tick'.handle = Head(queue)
      /\ queue' = Tail(queue) /\ outstanding' = outstanding
  BY DEF TickPop, IdleTick
<1>2. /\ Len(queue') = Len(queue) - 1 /\ Len(queue) \in Nat \ {0}
      /\ \A i \in 1 .. Len(queue') : queue'[i] = queue[i + 1]
      /\ Head(queue) = queue[1]
  BY <1>t, <1>1, HeadTailProperties, EmptySeq
<1>3. QueuedOnce'
  BY <1>2 DEF QueuedOnce, Backlog
<1>4. Head(queue) \notin Queued'
  BY <1>2 DEF QueuedOnce, Backlog, Queued
<1>5. Queued = Queued' \cup {Head(queue)}
  <2>1. Queued' \cup {Head(queue)} \subseteq Queued
    BY <1>2 DEF Queued
  <2>2. ASSUME NEW i \in 1 .. Len(queue), i # 1 PROVE queue[i] \in Queued'
    <3>1. i - 1 \in 1 .. Len(queue') /\ queue'[i - 1] = queue[i]
      BY <1>2, <2>2
    <3> QED BY <3>1 DEF Queued
  <2> QED BY <1>2, <2>1, <2>2 DEF Queued
<1>6. Running = {} /\ Running' = {Head(queue)}
  BY <1>1 DEF Running
<1> QED BY <1>1, <1>3, <1>4, <1>5, <1>6 DEF Backlog

LEMMA ForgetKeepsBacklog == ASSUME IInv, Backlog, Forget PROVE Backlog'
<1>1. /\ Running = {tick.handle} /\ Running' = {} /\ queue' = queue
      /\ outstanding' = outstanding \ {tick.handle}
  BY DEF Forget, Running, IdleTick
<1>2. Queued' = Queued /\ QueuedOnce'
  BY <1>1 DEF Queued, QueuedOnce, Backlog
<1>3. Cardinality(outstanding') <= MaxOutstandingTicks
  <2>1. /\ IsFiniteSet(outstanding) /\ Cardinality(outstanding) \in Nat
        /\ MaxOutstandingTicks \in Nat
    BY BacklogCount, TickConstants DEF IInv, TypeOK
  <2>2. Cardinality(outstanding') <= Cardinality(outstanding) /\ Cardinality(outstanding') \in Nat
    BY <1>1, <2>1, FS_Subset, FS_CardinalityType
  <2> QED BY <2>1, <2>2 DEF Backlog
<1> QED BY <1>1, <1>2, <1>3 DEF Backlog

LEMMA NextKeepsBacklog == IInv /\ Backlog /\ [Next]_vars => Backlog'
<1> SUFFICES ASSUME IInv, Backlog, [Next]_vars PROVE Backlog'
  OBVIOUS
<1>1. ASSUME Running' = Running, UNCHANGED <<queue, outstanding>> PROVE Backlog'
  BY <1>1 DEF Backlog, QueuedOnce, Queued
<1>2. CASE UNCHANGED vars
  BY <1>1, <1>2 DEF vars, jobVars, Running
<1>3. CASE CancelFlags
  BY <1>1, <1>3 DEF CancelFlags, Running
<1>4. CASE Next /\ UNCHANGED jobVars /\ Running' = Running
  BY <1>1, <1>4 DEF jobVars
<1> QED BY <1>2, <1>3, <1>4, EnqueueKeepsBacklog, PopKeepsBacklog, ForgetKeepsBacklog,
      JobFrame, RunningFrame

LEMMA BacklogHolds == Spec => []Backlog
<1>1. Init => Backlog
  <2>1. ASSUME Init PROVE outstanding = {} /\ Queued = {} /\ Running = {} /\ QueuedOnce
    BY <2>1 DEF Init, Queued, Running, QueuedOnce, IdleTick
  <2> QED BY <2>1, FS_EmptySet, TickConstants DEF Backlog
<1> QED BY <1>1, Invariance, NextKeepsBacklog, PTL DEF Spec

\* g_outstanding is the truth about the backlog, and the cap holds: whatever
\* way a job ends, cancelled, refused or thrown, its handle is let go of once.
THEOREM BacklogIsAccurate == Spec => []OutstandingAccurate
<1>1. IInv /\ Backlog => OutstandingAccurate
  BY QueuedCount DEF Backlog, OutstandingAccurate, IInv, TypeOK
<1> QED BY <1>1, Invariance, BacklogHolds, PTL

-----------------------------------------------------------------------------
(* The ledger.  LedgerPaired and ClaimsSettled are about the worlds others *)
(* see; they last because every world on its way to being seen is sound:   *)
(* the live one (but for the memory being asked about), the staged one and *)
(* the one a session start has in hand.                                    *)

Paired(w) ==
  \A e \in Events : w.eventClaims[e] # FreeEvent =>
    /\ w.eventClaims[e].by \in Memories
    /\ w.eventClaims[e].expires \in Nat
    /\ w.claims[w.eventClaims[e].by] = w.eventClaims[e].expires

SettledBut(w, asked) ==
  \A m \in Memories : IsClaimed(w, m) => m \in w.told \cup w.kept \cup w.left \cup asked

Sound(w) == Paired(w) /\ SettledBut(w, {})

Asked == IF tick.pc \in {"evaluate", "compose"} THEN {tick.memory} ELSE {}

LiveSound == Paired(live) /\ SettledBut(live, Asked)
ImagesSound ==
  /\ Sound(snapshot) /\ Sound(saved.world)
  /\ pending # NoWorld => Sound(pending)
  /\ main.pc = "image" => Sound(main.incoming)

\* What does not touch the ledger keeps it sound.
LEMMA SameLedger ==
  ASSUME NEW w, NEW v, NEW asked, v.claims = w.claims, v.eventClaims = w.eventClaims,
         w.told \cup w.kept \cup w.left \subseteq v.told \cup v.kept \cup v.left
  PROVE  /\ Paired(w) => Paired(v)
         /\ SettledBut(w, asked) => SettledBut(v, asked)
BY DEF Paired, SettledBut, IsClaimed

\* The ledger of a world may be put in the place of another's.
LEMMA LedgerMoves ==
  ASSUME NEW w, NEW v, Sound(w), v.claims = w.claims, v.eventClaims = w.eventClaims,
         v.told = w.told, v.kept = w.kept, v.left = w.left
  PROVE  Sound(v)
BY DEF Sound, Paired, SettledBut, IsClaimed

LEMMA EmptyLedgerIsSound ==
  ASSUME NEW w, w.claims = NoClaims, w.eventClaims = NoEventClaims
  PROVE  Sound(w)
BY DEF Sound, Paired, SettledBut, IsClaimed, NoClaims, NoEventClaims

\* A claim is emplaced: an expiry that stands is not overwritten, and no
\* event was claimed for a memory that had no claim.
LEMMA ClaimKeepsPaired ==
  ASSUME NEW w \in Worlds, NEW m \in Memories, NEW day \in Nat, ~IsClaimed(w, m),
         Paired(w), SettledBut(w, {})
  PROVE  Paired(Claim(w, m, day)) /\ SettledBut(Claim(w, m, day), {m})
<1> DEFINE expiry == day + ClaimExpiryDays
           v == Claim(w, m, day)
<1>1. expiry \in Nat
  BY ClaimConstants
<1>2. /\ v.claims = [n \in Memories |-> IF n = m THEN expiry ELSE w.claims[n]]
      /\ v.told = w.told /\ v.kept = w.kept /\ v.left = w.left \ {m}
      /\ \A e \in Events : \/ v.eventClaims[e] = w.eventClaims[e]
                           \/ v.eventClaims[e] = [expires |-> expiry, by |-> m]
  BY DEF Claim, Worlds
<1> HIDE DEF v, expiry
<1>3. ASSUME NEW e \in Events, v.eventClaims[e] # FreeEvent
      PROVE  /\ v.eventClaims[e].by \in Memories
             /\ v.eventClaims[e].expires \in Nat
             /\ v.claims[v.eventClaims[e].by] = v.eventClaims[e].expires
  <2>1. CASE v.eventClaims[e] = [expires |-> expiry, by |-> m]
    BY <1>1, <1>2, <2>1
  <2>2. CASE v.eventClaims[e] = w.eventClaims[e]
    <3>1. /\ w.eventClaims[e].by \in Memories /\ w.eventClaims[e].expires \in Nat
          /\ w.claims[w.eventClaims[e].by] = w.eventClaims[e].expires
      BY <1>3, <2>2 DEF Paired
    <3>2. w.eventClaims[e].by # m
      BY <3>1 DEF IsClaimed, Unclaimed
    <3> QED BY <1>2, <2>2, <3>1, <3>2
  <2> QED BY <1>2, <2>1, <2>2
<1>4. Paired(v)
  BY <1>3 DEF Paired
<1>5. SettledBut(v, {m})
  BY <1>2 DEF SettledBut, IsClaimed
<1> QED BY <1>4, <1>5 DEF v

LEMMA ReleaseEventsKeepsPaired ==
  ASSUME NEW w \in Worlds, NEW m \in Memories, NEW asked, Paired(w), SettledBut(w, asked)
  PROVE  Paired(ReleaseEvents(w, m)) /\ SettledBut(ReleaseEvents(w, m), asked)
BY DEF Paired, SettledBut, ReleaseEvents, Worlds, IsClaimed

LEMMA ReleaseSettles ==
  ASSUME NEW w \in Worlds, NEW m \in Memories, Paired(w), SettledBut(w, {m})
  PROVE  Sound(Release(w, m))
<1> DEFINE u == ReleaseEvents(w, m)
           v == Release(w, m)
<1>1. /\ v.claims = [n \in Memories |-> IF n = m THEN Unclaimed ELSE w.claims[n]]
      /\ v.told = w.told /\ v.kept = w.kept /\ v.left = w.left
      /\ \A e \in Events : v.eventClaims[e] = IF w.eventClaims[e].by = m THEN FreeEvent
                                              ELSE w.eventClaims[e]
  BY DEF Release, ReleaseEvents, Worlds
<1> HIDE DEF v
<1>2. Paired(v)
  BY <1>1 DEF Paired
<1>3. SettledBut(v, {})
  BY <1>1 DEF SettledBut, IsClaimed
<1> QED BY <1>2, <1>3 DEF Sound, v

\* A memory that became a rumor, or whose evaluation threw, is accounted for.
LEMMA LeaveSettles ==
  ASSUME NEW w \in Worlds, NEW m \in Memories, Paired(w), SettledBut(w, {m})
  PROVE  Sound(Leave(w, m)) /\ Sound(Tell(w, m))
<1>1. /\ Leave(w, m).claims = w.claims /\ Leave(w, m).eventClaims = w.eventClaims
      /\ Leave(w, m).told = w.told /\ Leave(w, m).kept = w.kept
      /\ Leave(w, m).left = w.left \cup {m}
  BY DEF Leave, Worlds
<1>2. /\ Tell(w, m).claims = w.claims /\ Tell(w, m).eventClaims = w.eventClaims
      /\ Tell(w, m).told = w.told \cup {m} /\ Tell(w, m).kept = w.kept
      /\ Tell(w, m).left = w.left
  BY DEF Tell, Worlds
<1> HIDE DEF Leave, Tell
<1>3. Sound(Leave(w, m))
  BY <1>1 DEF Sound, Paired, SettledBut, IsClaimed
<1>4. Sound(Tell(w, m))
  BY <1>2 DEF Sound, Paired, SettledBut, IsClaimed
<1> QED BY <1>3, <1>4

LEMMA SweepKeepsSound ==
  ASSUME NEW w \in Worlds, NEW day, Sound(w)
  PROVE  Sound(SweepClaims(w, day))
<1> DEFINE v == SweepClaims(w, day)
<1>1. /\ v.claims = [n \in Memories |-> IF w.claims[n] <= day THEN Unclaimed ELSE w.claims[n]]
      /\ v.told = w.told /\ v.kept = w.kept /\ v.left = w.left
      /\ \A e \in Events : v.eventClaims[e] = IF w.eventClaims[e].expires <= day THEN FreeEvent
                                              ELSE w.eventClaims[e]
  BY DEF SweepClaims, Worlds
<1> HIDE DEF v
<1>2. Paired(v)
  BY <1>1 DEF Paired, Sound
<1>3. SettledBut(v, {})
  BY <1>1 DEF SettledBut, IsClaimed, Sound
<1> QED BY <1>2, <1>3 DEF Sound, v

LEMMA StagedIsSound == ASSUME ImagesSound PROVE Sound(Staged)
<1>1. CASE pending = NoWorld
  BY <1>1, EmptyLedgerIsSound DEF Staged, FreshWorld
<1>2. CASE pending # NoWorld
  BY <1>2 DEF Staged, ImagesSound
<1> QED BY <1>1, <1>2

LEMMA LiveStaysSound == ASSUME IInv, LiveSound, ImagesSound, Next PROVE LiveSound'
<1>t. /\ TickTyped /\ asOf \in [Handles -> Nat] /\ Staged \in Worlds
  BY StagedIsWorld, IInvParts DEF JobsTyped, IInv
<1> USE <1>t DEF TickTyped, LiveSound
<1>1. ASSUME UNCHANGED live, Asked' = Asked \/ Asked = {} PROVE LiveSound'
  BY <1>1 DEF SettledBut
<1>2. CASE TickPop \/ TickSkip \/ TickEnter \/ TickAbandoned \/ AdvanceBegins
           \/ DrainAbandoned \/ TickCompletes \/ AdoptPublish \/ PublishSnapshot
           \/ SweepNext \/ WalkEnds \/ JobThrows
  <2>1. UNCHANGED live /\ Asked = {}
    BY <1>2 DEF Asked, TickPop, TickSkip, TickEnter, TickAbandoned, AdvanceBegins,
      DrainAbandoned, JobThrows, TickCompletes, AdoptPublish, PublishSnapshot, SweepNext,
      SweepDeferred, SweepPool, WalkEnds, worldVars
  <2> QED BY <1>1, <2>1
<1>3. CASE AdoptPendingState
  <2>1. tick.pc = "adopt" /\ (UNCHANGED live \/ live' = Staged)
    BY <1>3 DEF AdoptPendingState
  <2>2. Asked = {} /\ Asked' = {}
    BY <1>3 DEF AdoptPendingState, Asked, TickGoes
  <2>3. Sound(Staged)
    BY StagedIsSound
  <2> QED BY <1>1, <2>1, <2>2, <2>3 DEF Sound
<1>4. CASE SetHorizon \/ DrainBurnout
  <2>1. Asked = {} /\ Asked' = {}
    BY <1>4 DEF SetHorizon, DrainBurnout, Asked, TickGoes
  <2>2. /\ live'.claims = live.claims /\ live'.eventClaims = live.eventClaims
        /\ live.told \cup live.kept \cup live.left
             \subseteq live'.told \cup live'.kept \cup live'.left
    <3>1. CASE SetHorizon
      BY <3>1 DEF SetHorizon, SetClock, Worlds
    <3>2. CASE DrainBurnout
      BY <3>2 DEF DrainBurnout, Worlds
    <3> QED BY <1>4, <3>1, <3>2
  <2> QED BY <2>1, <2>2, SameLedger
<1>5. CASE WalkCandidate
  <2>1. PICK m \in tick.pool :
          IF IsClaimed(live, m) \/ AreEventsClaimed(live, m)
            THEN tick' = [tick EXCEPT !.pool = @ \ {m}] /\ UNCHANGED live
            ELSE /\ live' = Claim(live, m, asOf[tick.handle])
                 /\ tick' = [tick EXCEPT !.pc = "evaluate", !.pool = @ \ {m}, !.memory = m]
    BY <1>5 DEF WalkCandidate
  <2>2. m \in Memories /\ asOf[tick.handle] \in Nat /\ Asked = {} /\ tick.pc = "walk"
    BY <1>5 DEF WalkCandidate, Asked
  <2>3. CASE IsClaimed(live, m) \/ AreEventsClaimed(live, m)
    BY <1>1, <2>1, <2>2, <2>3
  <2>4. CASE ~(IsClaimed(live, m) \/ AreEventsClaimed(live, m))
    <3>1. live' = Claim(live, m, asOf[tick.handle]) /\ Asked' = {m}
      BY <2>1, <2>4 DEF Asked
    <3>2. Paired(Claim(live, m, asOf[tick.handle]))
          /\ SettledBut(Claim(live, m, asOf[tick.handle]), {m})
      BY <2>2, <2>4, ClaimKeepsPaired
    <3> HIDE DEF Claim
    <3> QED BY <3>1, <3>2
  <2> QED BY <2>3, <2>4
<1>6. CASE EvalNext
  <2>1. tick.memory \in Memories /\ Asked = {tick.memory} /\ tick.pc = "evaluate"
    BY <1>6 DEF Asked, EvalNext, EvalCancelled, EvalKeepsMemoryOnly, EvalDuplicate,
      EvalUnusable, EvalThrows, EvalSeeds
  <2>2. CASE EvalSeeds
    <3>1. UNCHANGED live /\ Asked' = Asked
      BY <2>1, <2>2 DEF EvalSeeds, TickGoes, Asked
    <3> QED BY <1>1, <3>1
  <2>3. CASE EvalCancelled \/ EvalUnusable
    <3>1. live' = Release(live, tick.memory)
      BY <2>3 DEF EvalCancelled, EvalUnusable
    <3>2. Sound(Release(live, tick.memory))
      BY <2>1, ReleaseSettles
    <3> HIDE DEF Release
    <3> QED BY <3>1, <3>2 DEF Sound, SettledBut
  <2>4. CASE EvalKeepsMemoryOnly \/ EvalDuplicate
    <3>1. PICK w \in {live, ReleaseEvents(live, tick.memory)} :
            live' = [w EXCEPT !.kept = @ \cup {tick.memory}]
      BY <2>4 DEF EvalKeepsMemoryOnly, EvalDuplicate
    <3>2. w \in Worlds /\ Paired(w) /\ SettledBut(w, {tick.memory})
      BY <2>1, <3>1, ReleaseIsWorld, ReleaseEventsKeepsPaired
    <3>3. /\ live'.claims = w.claims /\ live'.eventClaims = w.eventClaims
          /\ live'.told = w.told /\ live'.kept = w.kept \cup {tick.memory}
          /\ live'.left = w.left
      BY <3>1, <3>2 DEF Worlds
    <3> QED BY <3>2, <3>3 DEF Paired, SettledBut, IsClaimed
  <2>5. CASE EvalThrows
    <3>1. live' = Leave(live, tick.memory)
      BY <2>5 DEF EvalThrows
    <3> QED BY <2>1, <3>1, LeaveSettles DEF Sound, SettledBut
  <2> QED BY <1>6, <2>2, <2>3, <2>4, <2>5 DEF EvalNext
<1>7. CASE ComposeNext
  <2>1. tick.memory \in Memories /\ Asked = {tick.memory}
    BY <1>7 DEF Asked, ComposeNext, ComposeSeeds, ComposeFails, ComposeThrows
  <2>2. live' \in {Tell(live, tick.memory), Leave(live, tick.memory), Release(live, tick.memory)}
    BY <1>7 DEF ComposeNext, ComposeSeeds, ComposeFails, ComposeThrows
  <2>3. Sound(live')
    <3> HIDE DEF Release, Tell, Leave
    <3> QED BY <2>1, <2>2, ReleaseSettles, LeaveSettles
  <2> QED BY <2>3 DEF Sound, SettledBut
<1>8. CASE SweepAndReap
  <2>1. Asked = {} /\ live' = SweepClaims(live, live.simGameDay)
    BY <1>8 DEF SweepAndReap, Asked
  <2>2. Sound(SweepClaims(live, live.simGameDay))
    BY <2>1, SweepKeepsSound DEF Sound
  <2> HIDE DEF SweepClaims
  <2> QED BY <2>1, <2>2 DEF Sound, SettledBut
<1>9. CASE Forget
  <2>1. UNCHANGED live /\ Asked = {}
    BY <1>9 DEF Forget, Asked, worldVars
  <2> QED BY <1>1, <2>1
<1>10. CASE UNCHANGED <<tick, live>>
  <2>1. UNCHANGED live /\ Asked' = Asked
    BY <1>10 DEF Asked
  <2> QED BY <1>1, <2>1
<1> QED BY <1>2, <1>3, <1>4, <1>5, <1>6, <1>7, <1>8, <1>9, <1>10, TickFrame
      DEF TickNext, WalkNext, AdvanceNext

LEMMA ImagesStaySound == ASSUME IInv, LiveSound, ImagesSound, Next PROVE ImagesSound'
<1>t. /\ Staged \in Worlds /\ Sound(Staged) /\ live \in Worlds
      /\ snapshot \in Worlds /\ saved.world \in Worlds
  BY StagedIsWorld, StagedIsSound DEF IInv, TypeOK
<1> USE <1>t
<1> HIDE DEF Staged
<1>1. ASSUME tick.pc \in {"adopted", "publish"} PROVE Sound(live)
  BY <1>1 DEF LiveSound, Sound, Asked
<1>2. Sound(snapshot')
  BY <1>1, SnapshotFrame DEF ImagesSound, AdoptPublish, PublishSnapshot, SessionPublish
<1>3. Sound(saved'.world)
  <2>1. saved' = saved \/ saved'.world = snapshot
    BY MainFrame DEF OnSave, ClockMoves, ClockSetBack, LoadNext, MainAlone, LoadBegin, CancelAll,
      CancelFlags, RevertSim, RevertTouch, RevertClaims, EngineLoads, LoadSim, LoadSimShort,
      LoadClaimsTouch, LoadClaims, LoadClaimsShort, LoadNothing, SessionStart,
      SessionPublish, SessionSchedule
  <2> QED BY <2>1 DEF ImagesSound
<1>4. ASSUME LoadNext, pending' # NoWorld PROVE Sound(pending')
  <2>1. CASE RevertSim \/ LoadSim \/ LoadSimShort \/ SessionStart
    <3>1. /\ pending'.claims = Staged.claims /\ pending'.eventClaims = Staged.eventClaims
          /\ pending'.told = Staged.told /\ pending'.kept = Staged.kept
          /\ pending'.left = Staged.left
      BY <2>1 DEF RevertSim, LoadSim, LoadSimShort, SessionStart, Worlds
    <3> QED BY <3>1, LedgerMoves
  <2>2. CASE RevertTouch \/ LoadClaimsTouch
    BY <2>2 DEF RevertTouch, LoadClaimsTouch
  <2>3. CASE RevertClaims \/ LoadClaimsShort
    <3>1. pending' = NoLedger(Staged)
      BY <1>4, <2>3 DEF RevertClaims, LoadClaimsShort, WriteStaged
    <3>2. pending'.claims = NoClaims /\ pending'.eventClaims = NoEventClaims
      BY <3>1 DEF NoLedger, Worlds
    <3> QED BY <3>2, EmptyLedgerIsSound
  <2>4. CASE LoadClaims
    <3>1. /\ pending'.claims = saved.world.claims
          /\ pending'.eventClaims = saved.world.eventClaims
          /\ pending'.told = saved.world.told /\ pending'.kept = saved.world.kept
          /\ pending'.left = saved.world.left
      BY <1>4, <2>4 DEF LoadClaims, WriteStaged, Worlds
    <3> QED BY <3>1, LedgerMoves DEF ImagesSound
  <2>5. CASE UNCHANGED pending
    BY <1>4, <2>5 DEF ImagesSound
  <2> QED BY <1>4, <2>1, <2>2, <2>3, <2>4, <2>5 DEF LoadNext, LoadBegin, CancelAll,
    CancelFlags, EngineLoads, LoadNothing, SessionPublish, SessionSchedule, worldVars
<1>5. ASSUME pending' # NoWorld PROVE Sound(pending')
  BY <1>4, <1>5, PendingFrame DEF AdoptPendingState, ImagesSound
<1>6. ASSUME main'.pc = "image" PROVE Sound(main'.incoming)
  <2>1. MainTyped
    BY IInvParts
  <2>2. SessionStart \/ UNCHANGED main
    BY <1>6, <2>1, MainFrame DEF MainTyped, LoadNext, OnSave, ClockMoves, ClockSetBack, LoadBegin, CancelAll,
      CancelFlags, RevertSim, RevertTouch, RevertClaims, EngineLoads, LoadSim, LoadSimShort,
      LoadClaimsTouch, LoadClaims, LoadClaimsShort, LoadNothing, SessionPublish,
      SessionSchedule, MainGoes, InPlay
  <2>3. CASE SessionStart
    <3>1. main'.incoming = pending' /\ pending' # NoWorld
      <4>1. pending' \in Worlds
        BY <2>1, <2>3 DEF SessionStart, Worlds, MainTyped
      <4> QED BY <2>1, <2>3, <4>1, TickConstants DEF SessionStart, MainTyped
    <3> QED BY <1>5, <3>1
  <2> QED BY <1>6, <2>2, <2>3 DEF ImagesSound
<1> QED BY <1>2, <1>3, <1>5, <1>6 DEF ImagesSound

LEMMA LedgerStaysSound == Spec => [](LiveSound /\ ImagesSound)
<1>1. Init => LiveSound /\ ImagesSound
  <2> SUFFICES ASSUME Init PROVE LiveSound /\ ImagesSound
    OBVIOUS
  <2>1. Sound(FreshWorld(0)) /\ Sound(NewWorld)
    BY EmptyLedgerIsSound DEF FreshWorld, NewWorld
  <2> QED BY <2>1 DEF Init, LiveSound, ImagesSound, Sound, SettledBut, InPlay
<1>2. IInv /\ LiveSound /\ ImagesSound /\ [Next]_vars => (LiveSound /\ ImagesSound)'
  <2>1. ASSUME LiveSound, ImagesSound, UNCHANGED vars PROVE (LiveSound /\ ImagesSound)'
    BY <2>1 DEF LiveSound, ImagesSound, Asked, vars, worldVars
  <2> QED BY <2>1, LiveStaysSound, ImagesStaySound
<1> QED BY <1>1, <1>2, Invariance, PTL DEF Spec

\* An event is claimed only beside the memory it was claimed for, and both
\* lapse together, in the live ledger and in every image of it: what OnSave
\* writes under a memory is all there is to write.
THEOREM LedgerIsPaired == Spec => []LedgerPaired
<1>1. LiveSound /\ ImagesSound => LedgerPaired
  BY DEF LiveSound, ImagesSound, Sound, Paired, LedgerPaired
<1> QED BY <1>1, LedgerStaysSound, PTL

\* No image, published or saved, ever shows a claim whose evaluation is still
\* on its way or came to nothing, but for one that threw where the code does
\* not contain it, though the ledger is written before the call and a load
\* may overtake it.
THEOREM ClaimsAreSettled == Spec => []ClaimsSettled
<1>1. ImagesSound => ClaimsSettled
  BY DEF ImagesSound, Sound, SettledBut, ClaimsSettled
<1> QED BY <1>1, LedgerStaysSound, PTL
=============================================================================
