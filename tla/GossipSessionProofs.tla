------------------------ MODULE GossipSessionProofs ------------------------
(***************************************************************************)
(* Safety of the gossip subsystem from one load to the next: the pool of a *)
(* walk, the staging of a loaded world, the schedule, the images, and what *)
(* a world remembers of the memories it has asked about.                   *)
(*                                                                         *)
(* Except for the pool all of it is for ~Races: a load waits for a poll on *)
(* its way and for a worker between a check of its handle and what the     *)
(* check was for.                                                          *)
(***************************************************************************)
EXTENDS GossipProofs

-----------------------------------------------------------------------------
(* The pool.  What is in it stays free because its members share no        *)
(* happening, with each other or with the one that is being asked about.   *)

Walking == tick.pc \in {"walk", "evaluate", "compose"}
Asking  == tick.pc \in {"evaluate", "compose"}

Free(w, m) == ~IsClaimed(w, m) /\ ~AreEventsClaimed(w, m)

PoolFree ==
  /\ Walking => /\ \A m \in tick.pool : Free(live, m)
                /\ \A m, n \in tick.pool : m # n => ~Overlap(m, n)
  /\ Asking => /\ tick.memory \notin tick.pool
               /\ \A m \in tick.pool : ~Overlap(tick.memory, m)

LEMMA ClaimLeavesOthersFree ==
  ASSUME NEW w \in Worlds, NEW m \in Memories, NEW day, NEW n \in Memories,
         n # m, ~Overlap(m, n), Free(w, n)
  PROVE  Free(Claim(w, m, day), n)
<1>1. EventsOf[m] \subseteq Events /\ EventsOf[n] \subseteq Events
  BY ClaimConstants
<1>2. \A e \in EventsOf[n] : e \notin EventsOf[m]
  BY DEF Overlap
<1>3. Claim(w, m, day).claims[n] = w.claims[n]
  BY DEF Claim, Worlds
<1>4. \A e \in EventsOf[n] : Claim(w, m, day).eventClaims[e] = w.eventClaims[e]
  BY <1>1, <1>2 DEF Claim, Worlds
<1> QED BY <1>3, <1>4 DEF Free, IsClaimed, AreEventsClaimed

LEMMA ReleaseLeavesFree ==
  ASSUME NEW w \in Worlds, NEW m \in Memories, NEW n \in Memories, Free(w, n)
  PROVE  Free(Release(w, m), n) /\ Free(ReleaseEvents(w, m), n)
<1>1. EventsOf[n] \subseteq Events
  BY ClaimConstants
<1>2. /\ Release(w, m).claims[n] \in {w.claims[n], Unclaimed}
      /\ ReleaseEvents(w, m).claims[n] = w.claims[n]
  BY DEF Release, ReleaseEvents, Worlds
<1>3. \A e \in EventsOf[n] : /\ Release(w, m).eventClaims[e] \in {w.eventClaims[e], FreeEvent}
                             /\ ReleaseEvents(w, m).eventClaims[e] \in {w.eventClaims[e], FreeEvent}
  BY <1>1 DEF Release, ReleaseEvents, Worlds
<1> QED BY <1>2, <1>3 DEF Free, IsClaimed, AreEventsClaimed

LEMMA SameLedgerSameFree ==
  ASSUME NEW w, NEW v, v.claims = w.claims, v.eventClaims = w.eventClaims, NEW n
  PROVE  Free(v, n) <=> Free(w, n)
BY DEF Free, IsClaimed, AreEventsClaimed

LEMMA PoolStaysFreeStep == ASSUME IInv, PoolFree, Next PROVE PoolFree'
<1>t. TickTyped
  BY IInvParts
<1>1. ASSUME ~Walking' PROVE PoolFree'
  BY <1>1 DEF PoolFree, Walking, Asking
<1>2. ASSUME tick' = tick, live' = live PROVE PoolFree'
  BY <1>2 DEF PoolFree, Walking, Asking, Free, IsClaimed, AreEventsClaimed
<1>3. CASE SweepPool
  <2>1. /\ tick'.pc = "walk" /\ live' = live /\ tick'.pool \subseteq Memories
        /\ \A m \in tick'.pool : Qualifies(live, m, asOf[tick.handle])
        /\ \A m, n \in tick'.pool : m # n => ~Overlap(m, n)
    BY <1>t, <1>3 DEF SweepPool, TickTyped
  <2> QED BY <2>1 DEF PoolFree, Walking, Asking, Qualifies, Free, IsClaimed, AreEventsClaimed
<1>4. CASE WalkCandidate
  <2>1. PICK m \in tick.pool :
          IF IsClaimed(live, m) \/ AreEventsClaimed(live, m)
            THEN tick' = [tick EXCEPT !.pool = @ \ {m}] /\ UNCHANGED live
            ELSE /\ live' = Claim(live, m, asOf[tick.handle])
                 /\ tick' = [tick EXCEPT !.pc = "evaluate", !.pool = @ \ {m}, !.memory = m]
    BY <1>4 DEF WalkCandidate
  <2>2. m \in Memories /\ tick.pool \subseteq Memories /\ live \in Worlds /\ Walking
    BY <1>t, <1>4 DEF WalkCandidate, TickTyped, Walking
  <2>3. /\ live' = Claim(live, m, asOf[tick.handle])
        /\ tick'.pc = "evaluate" /\ tick'.memory = m /\ tick'.pool = tick.pool \ {m}
    BY <1>t, <2>1, <2>2 DEF PoolFree, Free, TickTyped
  <2>4. \A n \in tick'.pool : n # m /\ n \in Memories /\ ~Overlap(m, n) /\ Free(live, n)
    BY <2>2, <2>3 DEF PoolFree
  <2>5. \A n \in tick'.pool : Free(live', n)
    <3> HIDE DEF Claim
    <3> QED BY <2>2, <2>3, <2>4, ClaimLeavesOthersFree
  <2> QED BY <2>2, <2>3, <2>4, <2>5 DEF PoolFree
<1>5. CASE EvalSeeds
  <2>1. tick' = [tick EXCEPT !.pc = "compose"] /\ live' = live /\ tick.pc = "evaluate"
    BY <1>5 DEF EvalSeeds, TickGoes
  <2> QED BY <1>t, <2>1 DEF PoolFree, Walking, Asking, Free, IsClaimed, AreEventsClaimed, TickTyped
<1>6. CASE EvalKeepsMemoryOnly \/ EvalDuplicate \/ EvalUnusable \/ ComposeSeeds \/ ComposeFails
  <2>1. /\ Asking /\ tick'.pc = "walk" /\ tick'.pool = tick.pool
        /\ tick.memory \in Memories /\ live \in Worlds /\ tick.pool \subseteq Memories
    BY <1>t, <1>6 DEF EvalKeepsMemoryOnly, EvalDuplicate, EvalUnusable, ComposeSeeds,
      ComposeFails, Settle, Asking, TickTyped
  <2>2. PICK w \in {live, Release(live, tick.memory), ReleaseEvents(live, tick.memory)} :
          live'.claims = w.claims /\ live'.eventClaims = w.eventClaims
    <3>1. CASE EvalUnusable \/ ComposeFails
      BY <3>1 DEF EvalUnusable, ComposeFails
    <3>2. CASE EvalDuplicate \/ ComposeSeeds
      BY <2>1, <3>2 DEF EvalDuplicate, ComposeSeeds, Tell, Worlds
    <3>3. CASE EvalKeepsMemoryOnly
      <4>1. ReleaseEvents(live, tick.memory) \in Worlds
        BY <2>1, ReleaseIsWorld
      <4>2. live' = [ReleaseEvents(live, tick.memory) EXCEPT !.kept = @ \cup {tick.memory}]
        BY <3>3 DEF EvalKeepsMemoryOnly
      <4> HIDE DEF ReleaseEvents
      <4> QED BY <4>1, <4>2 DEF Worlds
    <3> QED BY <1>6, <3>1, <3>2, <3>3
  <2>3. \A n \in tick.pool : Free(w, n)
    BY <2>1, ReleaseLeavesFree DEF PoolFree, Walking, Asking
  <2>4. \A n \in tick.pool : Free(live', n)
    BY <2>2, <2>3, SameLedgerSameFree
  <2> QED BY <2>1, <2>4 DEF PoolFree, Walking, Asking
<1>7. CASE TickPop \/ TickSkip \/ TickEnter \/ AdoptPendingState \/ AdoptPublish \/ SetHorizon
           \/ TickAbandoned \/ SweepDeferred \/ JobThrows \/ WalkEnds \/ EvalCancelled
           \/ EvalThrows \/ ComposeThrows
  <2>1. ~Walking'
    BY <1>t, <1>7 DEF TickTyped, TickPop, TickSkip, TickEnter, AdoptPendingState, AdoptPublish,
      SetHorizon, TickAbandoned, SweepDeferred, JobThrows, WalkEnds, EvalCancelled, EvalThrows,
      ComposeThrows, TickGoes, Settle, Walking, IdleTick
  <2> QED BY <1>1, <2>1
<1>8. CASE AdvanceNext \/ TickCompletes \/ PublishSnapshot \/ Forget
  <2>1. ~Walking'
    BY <1>t, <1>8 DEF TickTyped, AdvanceNext, AdvanceBegins, DrainBurnout, DrainAbandoned,
      SweepAndReap, TickCompletes, PublishSnapshot, Forget, TickGoes, Walking, IdleTick
  <2> QED BY <1>1, <2>1
<1> QED BY <1>2, <1>3, <1>4, <1>5, <1>6, <1>7, <1>8, TickFrame
      DEF TickNext, SweepNext, WalkNext, EvalNext, ComposeNext

LEMMA PoolFreeHolds == Spec => []PoolFree
<1>1. Init => PoolFree
  BY DEF Init, PoolFree, Walking, Asking, IdleTick
<1>2. IInv /\ PoolFree /\ [Next]_vars => PoolFree'
  <2>1. ASSUME PoolFree, UNCHANGED vars PROVE PoolFree'
    BY <2>1 DEF PoolFree, Walking, Asking, Free, IsClaimed, AreEventsClaimed, vars, worldVars
  <2> QED BY <2>1, PoolStaysFreeStep
<1> QED BY <1>1, <1>2, Invariance, PTL DEF Spec

\* What a sweep chose is still free when its turn comes, whatever the walk
\* claimed, released or kept in between.
THEOREM PoolIsFree == Spec => []PoolStaysFree
<1>1. PoolFree => PoolStaysFree
  BY DEF PoolFree, PoolStaysFree, Walking, Free
<1> QED BY <1>1, PoolFreeHolds, PTL

-----------------------------------------------------------------------------
(* A load.  By the time it touches the staging area every job there is has  *)
(* been told to stop, none is under way to the staging area or the image,   *)
(* and no poll can add another.                                             *)

LoadIsOn == main.pc # "play"
\* From the first write to the staging area on.
Past == LoadIsOn /\ (main.round = 2 \/ main.pc \in {"touch", "clear"})
EarlySteps == {"cancel", "flag", "revert", "touch", "clear"}

LoadQuiet ==
  /\ LoadIsOn => poll.pc = "idle"
  /\ poll.pc = "idle" => poll.due = <<>>
  /\ LoadIsOn => main.round \in {1, 2}
  /\ main.pc = "play" => main.cancelling = {}
  /\ LoadIsOn /\ main.pc \notin EarlySteps => main.round = 2
  /\ main.pc = "flag" => outstanding \subseteq main.cancelling
  /\ Past \/ main.pc = "revert" => outstanding \subseteq cancelled
  /\ Past => ~Unguarded /\ pending # NoWorld

\* Only a handle that is outstanding is queued or in hand.
LEMMA InHand ==
  ASSUME IInv, Backlog
  PROVE  /\ tick.pc # "idle" => tick.handle \in outstanding
         /\ \A i \in 1 .. Len(queue) : tick.pc = "idle" \/ queue[i] # tick.handle
         /\ \A i \in 1 .. Len(queue) : queue[i] \in outstanding
BY DEF Backlog, Queued, Running

LEMMA WorldIsSome == ASSUME NEW w \in Worlds PROVE w # NoWorld
BY TickConstants

LEMMA PollKeepsQuiet == ASSUME ~Races, IInv, Backlog, LoadQuiet, PollNext PROVE LoadQuiet'
<1>1. main.pc = "play" /\ main' = main /\ tick' = tick /\ pending' = pending
  BY DEF PollNext, PollDerive, PollCollect, PollDrop, PollEnqueue, PollMayRun, LoadQuiet,
    LoadIsOn, worldVars
<1>2. poll'.pc = "idle" => poll'.due = <<>>
  <2>1. PollTyped
    BY IInvParts
  <2>2. CASE PollDerive
    BY <2>1, <2>2 DEF PollDerive, LoadQuiet, PollTyped
  <2>3. CASE PollCollect
    <3>1. poll'.pc = "collect" \/ poll' = IdlePoll \/ poll'.pc = "enqueue"
      BY <2>1, <2>3 DEF PollCollect, PollTyped
    <3> QED BY <3>1 DEF IdlePoll
  <2>4. CASE PollDrop \/ PollEnqueue
    BY <2>1, <2>4 DEF PollDrop, PollEnqueue, PollTail, IdlePoll, PollTyped
  <2> QED BY <2>2, <2>3, <2>4 DEF PollNext
<1> QED BY <1>1, <1>2 DEF LoadQuiet, LoadIsOn, Past

\* What the worker does between its dealings with the other threads.
HeldSteps == {"sweep", "walk", "evaluate", "compose", "swept", "drain", "drained", "publish"}

Works ==
  /\ UNCHANGED <<jobVars, pending, snapshot>>
  /\ tick'.handle = tick.handle
  /\ \/ tick.pc \in {"popped", "check"} /\ tick'.pc = "forget" /\ IsCancelled /\ live' = live
     \/ tick.pc \in HeldSteps \ {"publish"} /\ tick'.pc \in {"forget"} \cup (HeldSteps \ {"sweep", "publish"})
  /\ live'.simGameDay = live.simGameDay /\ live'.era = live.era /\ live'.session = live.session
  /\ live.told \subseteq live'.told

LEMMA PopTakesHead ==
  ASSUME TickPop
  PROVE  tick' = [pc |-> "popped", handle |-> Head(queue), pool |-> {}, memory |-> NoMemory,
                  seeds |-> 0]
BY DEF TickPop, IdleTick

LEMMA TickMoves ==
  ASSUME IInv, TickNext
  PROVE  /\ UNCHANGED <<clock, era, sched, poll, main, saved>>
         /\ tick.pc # "forget" => UNCHANGED <<asOf, eraOf>>
         /\ \/ TickPop \/ TickEnter \/ AdoptPendingState \/ AdoptPublish \/ SetHorizon
            \/ TickCompletes \/ PublishSnapshot \/ Forget \/ Works
<1>t. TickTyped
  BY IInvParts
<1>1. CASE TickPop \/ TickEnter \/ AdoptPendingState \/ AdoptPublish \/ SetHorizon
           \/ TickCompletes \/ PublishSnapshot \/ Forget
  BY <1>1 DEF TickPop, TickEnter, AdoptPendingState, AdoptPublish, SetHorizon, TickCompletes,
    PublishSnapshot, Forget, TickAlone, timeVars, jobVars
<1>2. ASSUME TickAlone, tick'.handle = tick.handle,
             \/ tick.pc \in {"popped", "check"} /\ tick'.pc = "forget" /\ IsCancelled /\ live' = live
             \/ /\ tick.pc \in HeldSteps \ {"publish"}
                /\ tick'.pc \in {"forget"} \cup (HeldSteps \ {"sweep", "publish"}),
             live'.simGameDay = live.simGameDay, live'.era = live.era, live'.session = live.session,
             live.told \subseteq live'.told
      PROVE  Works /\ UNCHANGED <<clock, era, sched, poll, main, saved, asOf, eraOf>>
  BY <1>2 DEF Works, TickAlone, timeVars, jobVars
<1>3. CASE TickSkip \/ TickAbandoned \/ SweepDeferred \/ JobThrows \/ AdvanceBegins \/ DrainAbandoned
  BY <1>t, <1>2, <1>3 DEF TickTyped, TickSkip, TickAbandoned, SweepDeferred, JobThrows, AdvanceBegins,
    DrainAbandoned, TickGoes, HeldSteps
<1>4. CASE SweepPool
  <2>1. live' = live /\ tick'.pc = "walk" /\ tick'.handle = tick.handle /\ tick.pc = "sweep" /\ TickAlone
    BY <1>t, <1>4 DEF SweepPool, TickTyped
  <2> QED BY <1>2, <2>1 DEF HeldSteps
<1>5. CASE WalkNext
  <2>1. /\ tick'.pc \in {"walk", "evaluate", "swept"} /\ tick'.handle = tick.handle /\ tick.pc = "walk"
        /\ TickAlone
    BY <1>t, <1>5 DEF WalkNext, WalkCandidate, WalkEnds, TickTyped
  <2>2. live' = live \/ \E m \in Memories : live' = Claim(live, m, asOf[tick.handle])
    BY <1>t, <1>5 DEF WalkNext, WalkCandidate, WalkEnds, TickTyped
  <2>3. /\ live'.simGameDay = live.simGameDay /\ live'.era = live.era /\ live'.session = live.session
        /\ live'.told = live.told
    BY <1>t, <2>2 DEF Claim, Worlds, TickTyped
  <2> QED BY <1>2, <2>1, <2>3 DEF HeldSteps
<1>6. CASE EvalNext \/ ComposeNext
  <2>1. /\ tick'.pc \in {"walk", "compose", "swept", "forget"} /\ tick'.handle = tick.handle
        /\ tick.pc \in {"evaluate", "compose"} /\ TickAlone
    BY <1>t, <1>6 DEF EvalNext, EvalCancelled, EvalKeepsMemoryOnly, EvalDuplicate, EvalUnusable, EvalSeeds,
      EvalThrows, ComposeNext, ComposeSeeds, ComposeFails, ComposeThrows, Settle, TickGoes, TickTyped
  <2>2. /\ live'.simGameDay = live.simGameDay /\ live'.era = live.era /\ live'.session = live.session
        /\ live.told \subseteq live'.told
    <3>1. CASE EvalSeeds \/ EvalDuplicate
      BY <1>t, <3>1 DEF EvalSeeds, EvalDuplicate, Worlds, TickTyped
    <3>4. CASE ComposeSeeds \/ EvalThrows \/ ComposeThrows
      <4>1. live' \in {Tell(live, tick.memory), Leave(live, tick.memory)}
        BY <3>4 DEF ComposeSeeds, EvalThrows, ComposeThrows
      <4> QED BY <1>t, <4>1 DEF Tell, Leave, Worlds, TickTyped
    <3>2. CASE EvalCancelled \/ EvalUnusable \/ ComposeFails
      BY <1>t, <3>2 DEF EvalCancelled, EvalUnusable, ComposeFails, Release, ReleaseEvents, Worlds, TickTyped
    <3>3. CASE EvalKeepsMemoryOnly
      BY <1>t, <3>3 DEF EvalKeepsMemoryOnly, ReleaseEvents, Worlds, TickTyped
    <3> QED BY <1>6, <3>1, <3>2, <3>3, <3>4 DEF EvalNext, ComposeNext
  <2> QED BY <1>2, <2>1, <2>2 DEF HeldSteps
<1>7. CASE DrainBurnout \/ SweepAndReap
  <2>1. /\ tick'.pc \in {"drain", "drained"} /\ tick'.handle = tick.handle /\ tick.pc = "drain" /\ TickAlone
    BY <1>t, <1>7 DEF DrainBurnout, SweepAndReap, TickGoes, TickTyped
  <2>2. /\ live'.simGameDay = live.simGameDay /\ live'.era = live.era /\ live'.session = live.session
        /\ live'.told = live.told
    BY <1>t, <1>7 DEF DrainBurnout, SweepAndReap, SweepClaims, Worlds, TickTyped
  <2> QED BY <1>2, <2>1, <2>2 DEF HeldSteps
<1> QED BY <1>1, <1>2, <1>3, <1>4, <1>5, <1>6, <1>7 DEF TickNext, SweepNext, AdvanceNext

\* Once a load has begun to stage, the worker only goes on with what it is at.
LEMMA TickWhilePast ==
  ASSUME ~Races, IInv, Backlog, LoadQuiet, TickNext, Past
  PROVE  /\ TickPop \/ Forget \/ Works
         /\ ~Unguarded' /\ pending' = pending /\ snapshot' = snapshot
<1>1. ~Unguarded /\ (tick.pc # "idle" => IsCancelled)
  BY InHand DEF LoadQuiet, IsCancelled
<1>2. TickPop \/ Forget \/ Works
  BY <1>1, TickMoves DEF Unguarded, TickEnter, AdoptPendingState, AdoptPublish, SetHorizon,
    TickCompletes, PublishSnapshot
<1>3. CASE TickPop \/ Forget
  <2>1. tick'.pc \in {"popped", "idle"}
    BY <1>3, PopTakesHead DEF Forget, IdleTick
  <2>2. pending' = pending /\ snapshot' = snapshot
    BY <1>3 DEF TickPop, Forget, worldVars
  <2> QED BY <1>2, <2>1, <2>2 DEF Unguarded
<1>4. CASE Works
  <2>1. tick'.pc # "publish" /\ tick'.pc \in {"forget"} \cup HeldSteps
    BY <1>4 DEF Works
  <2> QED BY <1>2, <1>4, <2>1 DEF Works, Unguarded, HeldSteps
<1> QED BY <1>2, <1>3, <1>4

LEMMA TickKeepsQuiet == ASSUME ~Races, IInv, Backlog, LoadQuiet, TickNext PROVE LoadQuiet'
<1>1. UNCHANGED <<main, poll>>
  BY TickMoves
<1>2. /\ outstanding' \subseteq outstanding
      /\ outstanding \subseteq cancelled => outstanding' \subseteq cancelled'
  BY TickMoves DEF TickPop, TickEnter, AdoptPendingState, AdoptPublish, SetHorizon, TickCompletes,
    PublishSnapshot, Forget, Works, TickAlone, jobVars
<1>3. Past => ~Unguarded' /\ pending' = pending
  BY TickWhilePast
<1> QED BY <1>1, <1>2, <1>3 DEF LoadQuiet, LoadIsOn, Past

LEMMA LoadKeepsQuiet == ASSUME ~Races, IInv, LoadQuiet, LoadNext PROVE LoadQuiet'
<1>t. MainTyped /\ Staged \in Worlds
  BY IInvParts, StagedIsWorld DEF IInv
<1>1. CASE LoadBegin
  BY <1>1 DEF LoadBegin, LoadQuiet, LoadIsOn, Past, InPlay, MainAlone, EarlySteps
<1>2. CASE CancelAll
  BY <1>t, <1>2 DEF CancelAll, LoadQuiet, LoadIsOn, Past, MainAlone, EarlySteps, MainTyped, jobVars, Unguarded
<1>3. CASE CancelFlags
  BY <1>t, <1>3 DEF CancelFlags, LoadQuiet, LoadIsOn, Past, EarlySteps, MainTyped, worldVars, Unguarded
<1>4. ASSUME pending' \in Worlds, MayOvertake, UNCHANGED <<poll, jobVars, tick>>,
             main.pc \in {"revert", "touch", "clear"},
             main'.pc \in {"touch", "clear"} \/ main'.round = 2,
             main'.pc \in {"touch", "clear", "cancel", "engine"}, main'.round \in {main.round, 2}
      PROVE  LoadQuiet'
  <2>1. pending' # NoWorld
    BY <1>4, WorldIsSome
  <2>2. outstanding \subseteq cancelled /\ ~Unguarded /\ main.round \in {1, 2} /\ poll.pc = "idle"
        /\ poll.due = <<>>
    BY <1>4 DEF LoadQuiet, LoadIsOn, Past, MayOvertake
  <2>3. LoadIsOn' /\ main'.pc \notin {"flag", "play"}
    BY <1>4 DEF LoadIsOn
  <2> QED BY <1>4, <2>1, <2>2, <2>3 DEF LoadQuiet, EarlySteps, jobVars, Unguarded
<1>5. CASE RevertSim \/ RevertTouch \/ RevertClaims
  <2>1. pending' \in Worlds
    <3>1. CASE RevertSim
      BY <1>t, <3>1 DEF RevertSim, Worlds, MainTyped
    <3>2. CASE RevertTouch
      BY <1>t, <3>2 DEF RevertTouch
    <3>3. CASE RevertClaims
      <4>1. pending # NoWorld
        BY <3>3 DEF RevertClaims, LoadQuiet, Past, LoadIsOn
      <4> QED BY <1>t, <3>3, <4>1, NoLedgerIsWorld DEF RevertClaims, WriteStaged
    <3> QED BY <1>5, <3>1, <3>2, <3>3
  <2> QED BY <1>t, <1>4, <1>5, <2>1 DEF RevertSim, RevertTouch, RevertClaims, MainGoes, MainAlone, MainTyped
<1>6. ASSUME main.pc \in LoadSteps \ EarlySteps, main'.pc \in LoadSteps \ EarlySteps,
             main'.round = main.round, pending' # NoWorld, UNCHANGED <<poll, jobVars, tick>>
      PROVE  LoadQuiet'
  BY <1>6 DEF LoadQuiet, LoadIsOn, Past, EarlySteps, LoadSteps, jobVars, Unguarded
<1>7. ASSUME main.pc \in {"engine", "simRecord", "touchClaims", "claimsRecord", "session", "image"}
      PROVE  Past /\ pending # NoWorld
  BY <1>7 DEF LoadQuiet, LoadIsOn, Past, EarlySteps
<1>8. CASE EngineLoads \/ LoadNothing \/ SessionPublish
  BY <1>t, <1>6, <1>7, <1>8 DEF EngineLoads, LoadNothing, SessionPublish, MainGoes, MainAlone,
    EarlySteps, LoadSteps, MainTyped, worldVars
<1>9. ASSUME pending' \in Worlds, LoadSim \/ LoadSimShort \/ LoadClaimsTouch \/ LoadClaims
                                   \/ LoadClaimsShort \/ SessionStart
      PROVE  LoadQuiet'
  <2>1. pending' # NoWorld
    BY <1>9, WorldIsSome
  <2> QED BY <1>t, <1>6, <1>9, <2>1 DEF LoadSim, LoadSimShort, LoadClaimsTouch, LoadClaims,
        LoadClaimsShort, SessionStart, MainGoes, MainAlone, EarlySteps, LoadSteps, MainTyped
<1>10. CASE LoadSim \/ LoadSimShort \/ LoadClaimsTouch \/ SessionStart
  <2> HIDE DEF Staged
  <2>1. CASE LoadSim \/ LoadSimShort
    <3>1. CASE LoadSim
      <4>1. pending' = [Staged EXCEPT !.rumors = saved.world.rumors,
                                      !.simGameDay = saved.world.simGameDay,
                                      !.era = saved.world.era]
        BY <3>1 DEF LoadSim
      <4>2. pending' \in Worlds
        BY <1>t, <4>1 DEF Worlds, MainTyped
      <4> QED BY <1>9, <3>1, <4>2
    <3>2. CASE LoadSimShort
      <4>1. pending' = [Staged EXCEPT !.rumors = {}, !.simGameDay = saved.world.simGameDay,
                                      !.era = saved.world.era]
        BY <3>2 DEF LoadSimShort
      <4>2. pending' \in Worlds
        BY <1>t, <4>1 DEF Worlds, MainTyped
      <4> QED BY <1>9, <3>2, <4>2
    <3> QED BY <2>1, <3>1, <3>2
  <2>2. CASE LoadClaimsTouch
    BY <1>t, <1>9, <2>2 DEF LoadClaimsTouch
  <2>3. CASE SessionStart
    <3>1. pending' \in Worlds
      BY <1>t, <2>3 DEF SessionStart, Worlds, MainTyped
    <3> QED BY <1>9, <2>3, <3>1
  <2> QED BY <1>10, <2>1, <2>2, <2>3
<1>11. CASE LoadClaims \/ LoadClaimsShort
  <2> HIDE DEF Staged
  <2>1. CASE LoadClaims
    <3>1. pending' = [Staged EXCEPT !.claims = saved.world.claims,
                                    !.eventClaims = saved.world.eventClaims,
                                    !.told = saved.world.told, !.kept = saved.world.kept,
                                    !.left = saved.world.left]
      BY <1>7, <2>1 DEF LoadClaims, WriteStaged
    <3>2. pending' \in Worlds
      BY <1>t, <3>1 DEF Worlds, MainTyped
    <3> QED BY <1>9, <2>1, <3>2
  <2>2. CASE LoadClaimsShort
    <3>1. pending' = NoLedger(Staged)
      BY <1>7, <2>2 DEF LoadClaimsShort, WriteStaged
    <3>2. pending' \in Worlds
      BY <1>t, <3>1, NoLedgerIsWorld
    <3> QED BY <1>9, <2>2, <3>2
  <2> QED BY <1>11, <2>1, <2>2
<1>12. CASE SessionSchedule
  BY <1>t, <1>12 DEF SessionSchedule, LoadQuiet, LoadIsOn, Past, InPlay, EarlySteps, jobVars
<1> QED BY <1>1, <1>2, <1>3, <1>5, <1>8, <1>10, <1>11, <1>12 DEF LoadNext

LEMMA NextKeepsQuiet == ASSUME ~Races, IInv, Backlog, LoadQuiet, [Next]_vars PROVE LoadQuiet'
<1>1. ASSUME UNCHANGED <<main, poll, jobVars, tick, pending>> PROVE LoadQuiet'
  BY <1>1 DEF LoadQuiet, LoadIsOn, Past, jobVars, Unguarded
<1>2. CASE OnSave \/ ClockMoves \/ ClockSetBack \/ UNCHANGED vars
  BY <1>1, <1>2 DEF OnSave, ClockMoves, ClockSetBack, vars, worldVars
<1> QED BY <1>2, PollKeepsQuiet, TickKeepsQuiet, LoadKeepsQuiet DEF Next

-----------------------------------------------------------------------------
(* Every world that is saved, published, adopted or told to the schedule   *)
(* has a clock: only a staging area under a load has none.                 *)

DaysKnown ==
  /\ snapshot.simGameDay \in Nat /\ saved.world.simGameDay \in Nat
  /\ ~Past /\ pending # NoWorld => pending.simGameDay \in Nat
  /\ tick.pc \in {"adopted"} \cup HeldSteps => live.simGameDay \in Nat
  /\ main.pc \in {"image", "schedule"} => pending.simGameDay \in Nat
  /\ main.pc = "image" => main.incoming = pending

LEMMA PastIsStaged ==
  ASSUME IInv, LoadQuiet, Past
  PROVE  Staged = pending /\ pending \in Worlds
BY IInvParts DEF LoadQuiet, Staged, ImagesTyped

\* Whether the clock goes on or begins a new era, it is then at that day.
LEMMA ClockIsSet ==
  ASSUME NEW w \in Worlds, NEW e \in Nat, NEW day \in Nat
  PROVE  /\ SetClock(w, e, day).era = e /\ SetClock(w, e, day).simGameDay = day
         /\ SetClock(w, e, day).session = w.session
         /\ e = w.era => SetClock(w, e, day).told = w.told
BY DEF SetClock, Worlds

\* A session starts with the day of the staged world, or with that of the game.
LEMMA StartSetsClock ==
  ASSUME IInv, LoadQuiet, SessionStart
  PROVE  /\ main.pc = "session" /\ Past /\ pending \in Worlds /\ pending' \in Worlds
         /\ pending.simGameDay # -1 => pending' = pending
         /\ pending.simGameDay = -1 => /\ pending' = [pending EXCEPT !.simGameDay = clock, !.era = era]
                                       /\ pending'.simGameDay = clock /\ pending'.era = era
                                       /\ pending'.session = pending.session
<1>1. main.pc = "session" /\ Past
  BY DEF SessionStart, LoadQuiet, Past, LoadIsOn, EarlySteps
<1>2. pending \in Worlds /\ Staged = pending
  BY <1>1, PastIsStaged
<1>3. clock \in Nat /\ era \in Nat
  BY IInvParts DEF MainTyped
<1> QED BY <1>1, <1>2, <1>3 DEF SessionStart, Worlds

LEMMA TickKeepsDays ==
  ASSUME ~Races, IInv, Backlog, LoadQuiet, DaysKnown, TickNext PROVE DaysKnown'
<1>t. TickTyped /\ JobsTyped
  BY IInvParts
<1>m. UNCHANGED <<main, saved>> /\ (Past' <=> Past) /\ (LoadIsOn /\ main.pc \notin EarlySteps => Past)
  BY TickMoves DEF Past, LoadIsOn, LoadQuiet
<1>1. CASE TickPop \/ Forget \/ TickEnter
  <2>1. tick'.pc \in {"popped", "idle", "adopt"} /\ UNCHANGED worldVars
    BY <1>t, <1>1, PopTakesHead DEF TickPop, Forget, IdleTick, TickEnter, TickGoes, TickAlone, worldVars, TickTyped
  <2> QED BY <1>m, <2>1 DEF DaysKnown, HeldSteps, worldVars
<1>2. CASE AdoptPendingState
  <2>1. /\ ~Past /\ pending' = NoWorld /\ snapshot' = snapshot
        /\ IF pending = NoWorld THEN tick'.pc = "check" /\ live' = live
           ELSE tick'.pc = "adopted" /\ live' = pending
    BY <1>t, <1>2 DEF AdoptPendingState, TickGoes, Staged, LoadQuiet, Unguarded, TickTyped
  <2> QED BY <1>m, <2>1 DEF DaysKnown, HeldSteps, EarlySteps, LoadIsOn
<1>3. CASE AdoptPublish \/ PublishSnapshot
  <2>1. /\ tick.pc \in {"adopted", "publish"} /\ ~Past /\ pending' = pending /\ snapshot' = live /\ live' = live
        /\ tick'.pc \in {"check", "forget"}
    BY <1>t, <1>3 DEF AdoptPublish, PublishSnapshot, TickGoes, LoadQuiet, Unguarded, TickTyped
  <2> QED BY <1>m, <2>1 DEF DaysKnown, HeldSteps
<1>4. CASE SetHorizon
  <2>1. live'.simGameDay \in Nat /\ pending' = pending /\ snapshot' = snapshot
    BY <1>t, <1>4, ClockIsSet DEF SetHorizon, TickAlone, TickTyped, JobsTyped
  <2> QED BY <1>m, <2>1 DEF DaysKnown
<1>5. CASE TickCompletes \/ Works
  <2>1. /\ live'.simGameDay = live.simGameDay /\ pending' = pending /\ snapshot' = snapshot
        /\ tick'.pc \in {"adopted"} \cup HeldSteps => tick.pc \in HeldSteps
    BY <1>t, <1>5 DEF TickCompletes, TickGoes, TickAlone, Works, HeldSteps, TickTyped
  <2> QED BY <1>m, <2>1 DEF DaysKnown
<1> QED BY <1>1, <1>2, <1>3, <1>4, <1>5, TickMoves

LEMMA BeginStarts ==
  ASSUME LoadBegin
  PROVE  main' = [pc |-> "cancel", round |-> 1, cancelling |-> {}, read |-> {},
                  incoming |-> NoWorld, loads |-> main.loads + 1]
BY DEF LoadBegin, InPlay

LEMMA LoadKeepsDays ==
  ASSUME ~Races, IInv, LoadQuiet, DaysKnown, LoadNext PROVE DaysKnown'
<1>t. MainTyped /\ ImagesTyped
  BY IInvParts
<1>m. UNCHANGED <<tick, live, saved>>
  BY DEF LoadNext, MainAlone, LoadBegin, CancelAll, CancelFlags, RevertSim, RevertTouch, RevertClaims,
    EngineLoads, LoadSim, LoadSimShort, LoadClaimsTouch, LoadClaims, LoadClaimsShort, LoadNothing,
    SessionStart, SessionPublish, SessionSchedule, worldVars
<1>1. CASE LoadBegin \/ CancelAll \/ CancelFlags
  <2>1. (Past' <=> Past) /\ pending' = pending /\ snapshot' = snapshot /\ main'.pc \notin {"image", "schedule"}
    <3>1. CASE LoadBegin
      BY <3>1, BeginStarts DEF LoadBegin, Past, LoadIsOn
    <3>2. CASE CancelAll \/ CancelFlags
      BY <1>t, <3>2 DEF CancelAll, CancelFlags, Past, LoadIsOn, MainTyped, worldVars
    <3> QED BY <1>1, <3>1, <3>2
  <2> QED BY <1>m, <2>1 DEF DaysKnown
<1>2. ASSUME Past', main'.pc \notin {"image", "schedule"}, snapshot' = snapshot PROVE DaysKnown'
  BY <1>m, <1>2 DEF DaysKnown
<1>3. CASE RevertSim \/ RevertTouch \/ RevertClaims
  <2>1. Past' /\ main'.pc \notin {"image", "schedule"} /\ snapshot' = snapshot
    BY <1>t, <1>3 DEF RevertSim, RevertTouch, RevertClaims, MainGoes, Past, LoadIsOn, MainTyped
  <2> QED BY <1>2, <2>1
<1>4. CASE EngineLoads \/ LoadSim \/ LoadSimShort \/ LoadClaimsTouch \/ LoadClaims
           \/ LoadClaimsShort \/ LoadNothing
  <2>1. main'.round = main.round /\ main.round = 2
    BY <1>t, <1>4 DEF EngineLoads, LoadSim, LoadSimShort, LoadClaimsTouch, LoadClaims, LoadClaimsShort,
      LoadNothing, MainGoes, MainTyped, LoadQuiet, LoadIsOn, EarlySteps
  <2>2. main'.pc \notin {"image", "schedule", "play"} /\ snapshot' = snapshot
    BY <1>t, <1>4 DEF EngineLoads, LoadSim, LoadSimShort, LoadClaimsTouch, LoadClaims, LoadClaimsShort,
      LoadNothing, MainGoes, MainTyped, worldVars
  <2> QED BY <1>2, <2>1, <2>2 DEF Past, LoadIsOn
<1>5. CASE SessionStart
  <2>3. pending'.simGameDay \in Nat
    BY <1>t, <1>5, StartSetsClock DEF Worlds, MainTyped
  <2>4. main'.pc = "image" /\ main'.round = 2 /\ main'.incoming = pending' /\ snapshot' = snapshot
    BY <1>t, <1>5 DEF SessionStart, MainTyped, LoadQuiet, LoadIsOn, EarlySteps
  <2> QED BY <1>m, <2>3, <2>4 DEF DaysKnown, Past, LoadIsOn
<1>6. CASE SessionPublish
  <2>1. snapshot' = main.incoming /\ pending' = pending /\ main.pc = "image" /\ main'.pc = "schedule"
        /\ main'.round = 2
    BY <1>t, <1>6 DEF SessionPublish, MainGoes, MainTyped, LoadQuiet, LoadIsOn, EarlySteps
  <2> QED BY <1>m, <2>1 DEF DaysKnown, Past, LoadIsOn
<1>7. CASE SessionSchedule
  BY <1>m, <1>7 DEF SessionSchedule, DaysKnown, InPlay, worldVars
<1> QED BY <1>1, <1>3, <1>4, <1>5, <1>6, <1>7 DEF LoadNext

\* What neither the worker nor the load does leaves the worlds alone.
LEMMA OtherSteps ==
  ASSUME [Next]_vars
  PROVE  \/ TickNext
         \/ LoadNext
         \/ /\ UNCHANGED <<tick, live, pending, snapshot, main>>
            /\ saved' \in {saved, [world |-> snapshot, day |-> clock, era |-> era]}
BY DEF Next, PollNext, PollDerive, PollCollect, PollDrop, PollEnqueue, OnSave, ClockMoves, ClockSetBack,
  vars, worldVars

LEMMA NextKeepsDays ==
  ASSUME ~Races, IInv, Backlog, LoadQuiet, DaysKnown, [Next]_vars PROVE DaysKnown'
<1>1. ASSUME UNCHANGED <<tick, live, pending, snapshot, main>>,
             saved' \in {saved, [world |-> snapshot, day |-> clock, era |-> era]}
      PROVE  DaysKnown'
  BY <1>1 DEF DaysKnown, Past, LoadIsOn
<1> QED BY <1>1, OtherSteps, TickKeepsDays, LoadKeepsDays

-----------------------------------------------------------------------------
(* The staging of a loaded world, record by record.  Nothing of the world  *)
(* before the load is left once the reverts have run, and neither record   *)
(* touches what the other has read.                                        *)

Reverted == Past /\ main.pc \notin {"touch", "clear"}
BeforeRecords == {"cancel", "flag", "revert", "engine", "simRecord"}
BothRead == main.read = {"sim", "claims"}
SavedWorld == [saved.world EXCEPT !.session = main.loads]

Staging ==
  /\ Past => pending.session = main.loads
  /\ Reverted /\ main.pc \in BeforeRecords => pending = FreshWorld(main.loads)
  /\ main.pc \in {"touch", "clear"} =>
       pending.rumors = {} /\ pending.simGameDay = -1 /\ pending.era = 0
  /\ main.pc \in BeforeRecords \cup {"touch", "clear"} => main.read = {}
  /\ main.pc \in {"touchClaims", "claimsRecord"} =>
       /\ pending.simGameDay = saved.world.simGameDay /\ pending.era = saved.world.era
       /\ main.read \subseteq {"sim"}
       /\ main.read = {"sim"} => pending.rumors = saved.world.rumors
       /\ pending.told = {} /\ pending.kept = {}
  /\ main.pc \in {"session", "image"} /\ BothRead => pending = SavedWorld
  /\ main.pc = "session" =>
       \/ pending.simGameDay = -1
       \/ pending.simGameDay = saved.world.simGameDay /\ pending.era = saved.world.era

LEMMA TickKeepsStaging ==
  ASSUME ~Races, IInv, Backlog, LoadQuiet, Staging, TickNext PROVE Staging'
<1>1. UNCHANGED <<main, saved>>
  BY TickMoves
<1>2. CASE Past
  <2>1. pending' = pending
    BY <1>2, TickWhilePast
  <2> QED BY <1>1, <2>1 DEF Staging, Past, LoadIsOn, Reverted, BothRead, SavedWorld
<1>3. CASE ~Past
  <2>1. /\ ~Past'
        /\ main.pc \notin {"touch", "clear", "touchClaims", "claimsRecord", "session", "image"}
    BY <1>1, <1>3 DEF Past, LoadIsOn, LoadQuiet, EarlySteps
  <2> QED BY <1>1, <2>1 DEF Staging, Reverted
<1> QED BY <1>2, <1>3

LEMMA LoadKeepsStaging ==
  ASSUME ~Races, IInv, LoadQuiet, DaysKnown, Staging, LoadNext PROVE Staging'
<1>t. MainTyped /\ ImagesTyped /\ Staged \in Worlds
  BY IInvParts, StagedIsWorld DEF IInv
<1>1. CASE LoadBegin
  BY <1>1, BeginStarts DEF Staging, Past, LoadIsOn, Reverted, BeforeRecords
<1>2. CASE CancelAll \/ CancelFlags
  <2>1. /\ main'.pc \in {"flag", "revert"} /\ main.pc \in {"cancel", "flag"} /\ pending' = pending
        /\ main'.round = main.round /\ main'.loads = main.loads /\ main'.read = main.read
    BY <1>t, <1>2 DEF CancelAll, CancelFlags, MainTyped, worldVars
  <2> QED BY <2>1 DEF Staging, Past, LoadIsOn, Reverted, BeforeRecords
<1>3. CASE RevertSim
  <2>1. pending' = [Staged EXCEPT !.rumors = {}, !.simGameDay = -1, !.era = 0, !.session = main.loads]
        /\ main' = [main EXCEPT !.pc = "touch"] /\ main.pc = "revert"
    BY <1>3 DEF RevertSim, MainGoes
  <2>2. pending'.rumors = {} /\ pending'.simGameDay = -1 /\ pending'.era = 0
        /\ pending'.session = main.loads
    <3> HIDE DEF Staged
    <3> QED BY <1>t, <2>1 DEF Worlds
  <2>3. main'.pc = "touch" /\ main'.loads = main.loads /\ main'.read = main.read
    BY <1>t, <2>1 DEF MainTyped
  <2> QED BY <2>1, <2>2, <2>3 DEF Staging, Past, LoadIsOn, Reverted, BeforeRecords
<1>4. CASE RevertTouch
  <2>1. pending' = pending /\ main.pc = "touch" /\ main' = [main EXCEPT !.pc = "clear"]
    BY <1>4, PastIsStaged DEF RevertTouch, MainGoes, Past, LoadIsOn
  <2>2. main'.pc = "clear" /\ main'.loads = main.loads /\ main'.read = main.read
    BY <1>t, <2>1 DEF MainTyped
  <2> QED BY <2>1, <2>2 DEF Staging, Past, LoadIsOn, Reverted, BeforeRecords
<1>5. CASE RevertClaims
  <2>1. pending' = NoLedger(pending) /\ main.pc = "clear" /\ pending \in Worlds
    BY <1>5, PastIsStaged DEF RevertClaims, WriteStaged, LoadQuiet, Past, LoadIsOn
  <2>2. main'.pc \in {"cancel", "engine"} /\ main'.loads = main.loads /\ main'.read = main.read
    BY <1>t, <1>5 DEF RevertClaims, MainTyped
  <2>3. pending.rumors = {} /\ pending.simGameDay = -1 /\ pending.era = 0
        /\ pending.session = main.loads
    BY <2>1 DEF Staging, Past, LoadIsOn
  <2>4. pending' = FreshWorld(main.loads)
    BY <1>t, <2>1, <2>3 DEF NoLedger, FreshWorld, Worlds
  <2>5. pending'.session = main.loads
    BY <2>4 DEF FreshWorld
  <2> HIDE DEF FreshWorld
  <2> QED BY <2>1, <2>2, <2>4, <2>5 DEF Staging, BeforeRecords
<1>6. CASE EngineLoads
  <2>1. /\ main.pc = "engine" /\ main'.pc = "simRecord" /\ main'.round = main.round
        /\ main'.loads = main.loads /\ main'.read = main.read /\ pending' = pending
    BY <1>t, <1>6 DEF EngineLoads, MainGoes, MainTyped, worldVars
  <2> QED BY <2>1 DEF Staging, Past, LoadIsOn, Reverted, BeforeRecords
<1>7. CASE LoadSim \/ LoadSimShort
  <2>1. main.pc = "simRecord" /\ Past /\ Reverted
    BY <1>7 DEF LoadSim, LoadSimShort, LoadQuiet, Past, Reverted, LoadIsOn, EarlySteps
  <2>2. Staged = FreshWorld(main.loads) /\ Staged.told = {} /\ Staged.kept = {} /\ Staged.session = main.loads
    BY <2>1, PastIsStaged DEF Staging, BeforeRecords, FreshWorld
  <2>3. /\ pending'.simGameDay = saved.world.simGameDay /\ pending'.era = saved.world.era
        /\ pending'.told = {} /\ pending'.kept = {}
        /\ pending'.session = main.loads
        /\ LoadSim => pending'.rumors = saved.world.rumors
    <3> HIDE DEF Staged
    <3>1. CASE LoadSim
      BY <1>t, <2>2, <3>1 DEF LoadSim, Worlds
    <3>2. CASE LoadSimShort /\ ~LoadSim
      BY <1>t, <2>2, <3>2 DEF LoadSimShort, Worlds
    <3> QED BY <1>7, <3>1, <3>2
  <2>4. /\ main'.pc = "touchClaims" /\ main'.loads = main.loads /\ UNCHANGED saved
        /\ main'.read \subseteq {"sim"} /\ (main'.read = {"sim"} => LoadSim)
    <3>1. main.read = {}
      BY <2>1 DEF Staging, BeforeRecords
    <3>2. CASE LoadSim
      BY <1>t, <3>2 DEF LoadSim, MainTyped, MainAlone
    <3>3. CASE LoadSimShort
      BY <1>t, <3>1, <3>3 DEF LoadSimShort, MainGoes, MainTyped, MainAlone
    <3> QED BY <1>7, <3>2, <3>3
  <2> QED BY <2>3, <2>4 DEF Staging, BeforeRecords, Reverted
<1>8. CASE LoadClaimsTouch
  <2>1. pending' = pending /\ main.pc = "touchClaims" /\ main' = [main EXCEPT !.pc = "claimsRecord"] /\ Past
        /\ UNCHANGED saved
    BY <1>8, PastIsStaged DEF LoadClaimsTouch, MainGoes, Past, LoadIsOn, LoadQuiet, EarlySteps, MainAlone
  <2>2. main'.pc = "claimsRecord" /\ main'.loads = main.loads /\ main'.read = main.read
    BY <1>t, <2>1 DEF MainTyped
  <2> QED BY <2>1, <2>2 DEF Staging, BeforeRecords
<1>9. CASE LoadClaims
  <2>1. /\ pending' = [pending EXCEPT !.claims = saved.world.claims,
                                      !.eventClaims = saved.world.eventClaims,
                                      !.told = saved.world.told, !.kept = saved.world.kept,
                                      !.left = saved.world.left]
        /\ main.pc = "claimsRecord" /\ pending \in Worlds /\ Past /\ UNCHANGED saved
    BY <1>9, PastIsStaged DEF LoadClaims, WriteStaged, LoadQuiet, Past, LoadIsOn, EarlySteps, MainAlone
  <2>2. main'.pc = "session" /\ main'.loads = main.loads /\ main'.read = main.read \cup {"claims"}
    BY <1>t, <1>9 DEF LoadClaims, MainTyped
  <2>3. pending'.session = main.loads /\ pending'.simGameDay = saved.world.simGameDay
        /\ pending'.era = saved.world.era
    BY <2>1 DEF Staging, Worlds
  <2>4. ASSUME main'.read = {"sim", "claims"} PROVE pending' = [saved.world EXCEPT !.session = main.loads]
    <3>1. main.read = {"sim"}
      BY <1>t, <2>1, <2>2, <2>4 DEF Staging
    <3>2. pending.rumors = saved.world.rumors /\ pending.session = main.loads
          /\ pending.simGameDay = saved.world.simGameDay /\ pending.era = saved.world.era
      BY <2>1, <3>1 DEF Staging
    <3> QED BY <1>t, <2>1, <3>2 DEF Worlds, MainTyped
  <2> QED BY <2>1, <2>2, <2>3, <2>4 DEF Staging, BeforeRecords, BothRead, SavedWorld
<1>10. CASE LoadClaimsShort
  <2>1. /\ pending' = NoLedger(pending) /\ main.pc = "claimsRecord" /\ pending \in Worlds /\ Past /\ UNCHANGED saved
    BY <1>10, PastIsStaged DEF LoadClaimsShort, WriteStaged, LoadQuiet, Past, LoadIsOn, EarlySteps, MainAlone
  <2>2. main'.pc = "session" /\ main'.loads = main.loads /\ main'.read \subseteq {"sim"}
    BY <1>t, <1>10 DEF LoadClaimsShort, MainGoes, MainTyped, Staging
  <2>3. pending'.session = main.loads /\ pending'.simGameDay = saved.world.simGameDay
        /\ pending'.era = saved.world.era
    BY <2>1 DEF Staging, Worlds, NoLedger
  <2> QED BY <2>1, <2>2, <2>3 DEF Staging, BeforeRecords, BothRead
<1>11. CASE LoadNothing
  <2>1. main.pc = "simRecord" /\ Past /\ Reverted /\ pending' = pending
    BY <1>11 DEF LoadNothing, LoadQuiet, Past, Reverted, LoadIsOn, EarlySteps
  <2>2. main'.pc = "session" /\ main'.loads = main.loads /\ main'.read = {}
    BY <1>t, <1>11 DEF LoadNothing, MainGoes, MainTyped, Staging, BeforeRecords
  <2>3. pending.session = main.loads /\ pending.simGameDay = -1
    BY <2>1 DEF Staging, BeforeRecords, FreshWorld
  <2> QED BY <2>1, <2>2, <2>3 DEF Staging, BeforeRecords, BothRead
<1>12. CASE SessionStart
  <2>1. main.pc = "session" /\ Past /\ UNCHANGED saved
    BY <1>12 DEF SessionStart, LoadQuiet, Past, LoadIsOn, EarlySteps, MainAlone
  <2>3. main'.pc = "image" /\ main'.loads = main.loads /\ main'.read = main.read
    BY <1>t, <1>12 DEF SessionStart, MainTyped
  <2>4. pending'.session = main.loads
    BY <1>12, <2>1, StartSetsClock DEF Staging
  <2>5. ASSUME BothRead PROVE pending' = pending
    <3>1. pending.simGameDay = saved.world.simGameDay /\ saved.world.simGameDay \in Nat
      BY <1>t, <2>1, <2>5 DEF Staging, SavedWorld, DaysKnown, MainTyped, Worlds
    <3> QED BY <1>12, <3>1, StartSetsClock
  <2> QED BY <2>1, <2>3, <2>4, <2>5 DEF Staging, BeforeRecords, BothRead, SavedWorld
<1>13. CASE SessionPublish
  <2>1. main.pc = "image" /\ main'.pc = "schedule" /\ main'.loads = main.loads /\ pending' = pending /\ Past
    BY <1>t, <1>13 DEF SessionPublish, MainGoes, MainTyped, LoadQuiet, Past, LoadIsOn, EarlySteps
  <2> QED BY <2>1 DEF Staging, BeforeRecords
<1>14. CASE SessionSchedule
  <2>1. main'.pc = "play"
    BY <1>14 DEF SessionSchedule, InPlay
  <2> QED BY <2>1 DEF Staging, BeforeRecords, Past, LoadIsOn, Reverted
<1> QED BY <1>1, <1>2, <1>3, <1>4, <1>5, <1>6, <1>7, <1>8, <1>9, <1>10, <1>11, <1>12, <1>13, <1>14
      DEF LoadNext

LEMMA NextKeepsStaging ==
  ASSUME ~Races, IInv, Backlog, LoadQuiet, DaysKnown, Staging, [Next]_vars PROVE Staging'
<1>1. ASSUME UNCHANGED <<tick, live, pending, snapshot, main>>,
             saved' = saved \/ main.pc = "play"
      PROVE  Staging'
  BY <1>1 DEF Staging, Past, LoadIsOn, Reverted, BothRead, SavedWorld, BeforeRecords
<1>2. ASSUME ~TickNext, ~LoadNext PROVE saved' = saved \/ main.pc = "play"
  BY <1>2 DEF Next, PollNext, PollDerive, PollCollect, PollDrop, PollEnqueue, OnSave, ClockMoves,
    ClockSetBack, vars
<1> QED BY <1>1, <1>2, OtherSteps, TickKeepsStaging, LoadKeepsStaging

-----------------------------------------------------------------------------
(* The schedule.  Between loads the stamps of the jobs that still count,   *)
(* then the boundaries the poll has collected, then the next boundary, are *)
(* one increasing sequence, and the world is behind all of it.  Days are   *)
(* ordered by the era they were scheduled in first: a clock set back begins *)
(* a new one, so that what is still on its way from before it stays in line *)
(* before the boundaries the poll re-bases to.                             *)

\* A day of one era is before every day of a later one.
Before(e, d, f, g) == e < f \/ (e = f /\ d < g)
Timely(e, d) == e <= era /\ (e = era => d <= clock)

Current == IF pending = NoWorld THEN live ELSE pending

Ahead(e, d) ==
  /\ \A i \in 1 .. Len(queue) :
       queue[i] \notin cancelled => Before(e, d, eraOf[queue[i]], asOf[queue[i]])
  /\ \A k \in 1 .. Len(poll.due) : Before(e, d, sched.era, poll.due[k])
  /\ Before(e, d, sched.era, sched.nextDue)

QueueRises ==
  \A i, j \in 1 .. Len(queue) :
    i < j /\ queue[i] \notin cancelled /\ queue[j] \notin cancelled
      => Before(eraOf[queue[i]], asOf[queue[i]], eraOf[queue[j]], asOf[queue[j]])
DueRises == \A k, l \in 1 .. Len(poll.due) : k < l => poll.due[k] < poll.due[l]
DueBelow ==
  \A k \in 1 .. Len(poll.due) : poll.due[k] < sched.nextDue /\ Timely(sched.era, poll.due[k])
QueueBelow ==
  \A i \in 1 .. Len(queue) : queue[i] \notin cancelled =>
    /\ Timely(eraOf[queue[i]], asOf[queue[i]])
    /\ Before(eraOf[queue[i]], asOf[queue[i]], sched.era, sched.nextDue)
    /\ \A k \in 1 .. Len(poll.due) :
         Before(eraOf[queue[i]], asOf[queue[i]], sched.era, poll.due[k])

Ordered == QueueRises /\ DueRises /\ DueBelow /\ QueueBelow

\* The worker holds a job whose stamp it has not yet made the world's.
Fresh == tick.pc \in {"popped", "adopt", "adopted", "check"} /\ ~IsCancelled
InHandAhead ==
  /\ Before(Current.era, Current.simGameDay, eraOf[tick.handle], asOf[tick.handle])
  /\ Timely(eraOf[tick.handle], asOf[tick.handle])
  /\ Ahead(eraOf[tick.handle], asOf[tick.handle])

Schedule ==
  /\ Current.simGameDay \in Nat /\ Timely(Current.era, Current.simGameDay)
  /\ sched.era <= era
  /\ sched.nextDue = NotDerived =>
       /\ outstanding \subseteq cancelled /\ poll.pc = "idle" /\ ~Unguarded
       /\ pending # NoWorld /\ sched.anchor = pending.simGameDay /\ sched.era = pending.era
  /\ sched.nextDue # NotDerived =>
       /\ sched.era = era => sched.nextDue <= clock + Interval
       /\ Ordered /\ Ahead(Current.era, Current.simGameDay)
       /\ Fresh => InHandAhead
  /\ poll.pc # "idle" => Timely(sched.era, poll.now)

OnSchedule == ~Past => Schedule

LEMMA PollOnSchedule ==
  ASSUME ~Races, IInv, Backlog, LoadQuiet, DaysKnown, OnSchedule, PollNext PROVE OnSchedule'
<1>t. /\ JobsTyped /\ PollTyped /\ clock \in Nat /\ era \in Nat /\ Interval \in Nat \ {0}
      /\ MaxOutstandingTicks \in Nat
  BY IInvParts, TickConstants DEF MainTyped
<1>m. /\ main.pc = "play" /\ UNCHANGED <<main, tick, pending, live, clock, era>>
      /\ ~Past /\ Schedule /\ Current' = Current /\ Current.simGameDay \in Nat
  BY DEF PollNext, PollDerive, PollCollect, PollDrop, PollEnqueue, PollMayRun, LoadQuiet,
    LoadIsOn, timeVars, worldVars, Past, OnSchedule, Current, Schedule
<1>e. Current.era \in Nat
  BY IInvParts DEF Current, ImagesTyped, TickTyped, Worlds
<1>1. CASE PollDerive
  <2>0. /\ poll.pc = "idle" /\ poll.due = <<>> /\ UNCHANGED jobVars
        /\ poll'.due = <<>> /\ sched'.era = era
        /\ poll'.pc = "idle" \/ poll'.now = clock
    BY <1>t, <1>1 DEF PollDerive, LoadQuiet, PollTyped
  <2>q. \A i \in 1 .. Len(queue) : eraOf[queue[i]] \in Nat /\ asOf[queue[i]] \in Nat
    BY <1>t DEF JobsTyped
  <2>1. CASE sched.nextDue = NotDerived
    <3>1. /\ outstanding \subseteq cancelled /\ sched.anchor = Current.simGameDay
          /\ sched.era = Current.era /\ Timely(Current.era, Current.simGameDay)
      BY <1>m, <2>1 DEF Schedule, Current
    <3> DEFINE owed == IF sched.anchor + Interval > clock THEN sched.anchor + Interval ELSE clock
               next == IF clock < sched.anchor \/ clock < owed - Interval THEN clock + Interval ELSE owed
    <3>2. /\ next \in Nat /\ next <= clock + Interval
          /\ Before(Current.era, Current.simGameDay, era, next)
      BY <1>t, <1>m, <1>e, <3>1 DEF Before, Timely
    <3>3. sched'.nextDue = next
      BY <1>t, <1>m, <1>1, <2>1, <3>1 DEF PollDerive, NotDerived, PollTyped
    <3>5. \A i \in 1 .. Len(queue) : queue[i] \in cancelled
      BY <3>1, InHand
    <3>6. ~Fresh /\ ~Fresh'
      BY <1>m, <2>0, <3>1, InHand DEF Fresh, IsCancelled, jobVars
    <3>7. Ordered'
      BY <2>0, <3>5 DEF Ordered, QueueRises, DueRises, DueBelow, QueueBelow, jobVars
    <3>8. Ahead(Current.era, Current.simGameDay)'
      BY <1>m, <2>0, <3>2, <3>3, <3>5 DEF Ahead, jobVars
    <3>9. Timely(era, clock)
      BY <1>t DEF Timely
    <3>10. sched'.nextDue # NotDerived /\ sched'.nextDue <= clock + Interval
      BY <3>2, <3>3 DEF NotDerived
    <3> HIDE DEF next, owed
    <3> QED BY <1>t, <1>m, <2>0, <3>1, <3>6, <3>7, <3>8, <3>9, <3>10 DEF OnSchedule, Schedule, Timely
  <2>2. CASE sched.nextDue # NotDerived
    <3>1. /\ sched.nextDue \in Nat /\ sched.era \in Nat /\ sched.era <= era
          /\ sched.era = era => sched.nextDue <= clock + Interval
      BY <1>t, <1>m, <2>2 DEF Schedule, PollTyped, Days, NotDerived
    <3>2. /\ sched'.nextDue \in {sched.nextDue, clock + Interval} /\ sched'.nextDue <= clock + Interval
          /\ sched.era = era => sched'.nextDue = sched.nextDue
      BY <1>t, <1>1, <2>2, <3>1 DEF PollDerive, PollTyped
    <3>3. ASSUME NEW e \in Nat, NEW d \in Nat, Before(e, d, sched.era, sched.nextDue)
          PROVE  Before(e, d, era, sched'.nextDue)
      BY <1>t, <3>1, <3>2, <3>3 DEF Before
    <3>4. QueueRises /\ QueueBelow /\ Ahead(Current.era, Current.simGameDay)
      BY <1>m, <2>2 DEF Schedule, Ordered
    <3>5. Ordered'
      <4>1. QueueBelow'
        BY <1>m, <2>0, <2>q, <3>3, <3>4 DEF QueueBelow, Timely, jobVars
      <4> QED BY <2>0, <3>4, <4>1 DEF Ordered, QueueRises, DueRises, DueBelow, jobVars
    <3>6. ASSUME NEW e \in Nat, NEW d \in Nat, Ahead(e, d) PROVE Ahead(e, d)'
      BY <2>0, <3>3, <3>6 DEF Ahead, jobVars
    <3>7. Ahead(Current.era, Current.simGameDay)'
      BY <1>m, <1>e, <3>4, <3>6
    <3>8. ASSUME Fresh' PROVE InHandAhead'
      <4>1. Fresh /\ asOf[tick.handle] \in Nat /\ eraOf[tick.handle] \in Nat
        BY <1>t, <1>m, <2>0, <3>8, IInvParts DEF Fresh, IsCancelled, jobVars, JobsTyped, TickTyped
      <4>2. InHandAhead
        BY <1>m, <2>2, <4>1 DEF Schedule
      <4>3. UNCHANGED <<asOf, eraOf, tick>>
        BY <1>m, <2>0 DEF jobVars
      <4>4. Ahead(eraOf[tick.handle], asOf[tick.handle])'
        BY <3>6, <4>1, <4>2, <4>3 DEF InHandAhead
      <4> QED BY <1>m, <4>2, <4>3, <4>4 DEF InHandAhead, Timely
    <3>9. Timely(era, clock)
      BY <1>t DEF Timely
    <3>10. sched'.nextDue # NotDerived
      BY <1>t, <3>1, <3>2 DEF NotDerived
    <3> QED BY <1>t, <1>m, <2>0, <3>2, <3>5, <3>7, <3>8, <3>9, <3>10 DEF OnSchedule, Schedule, Timely
  <2> QED BY <2>1, <2>2
<1>n. ASSUME poll.pc # "idle" PROVE sched.nextDue # NotDerived /\ sched.nextDue \in Nat
  BY <1>m, <1>t, <1>n DEF Schedule, PollTyped, Days, NotDerived
<1>2. CASE PollCollect
  <2>1. sched.nextDue # NotDerived /\ sched.nextDue \in Nat /\ poll.pc = "collect" /\ UNCHANGED jobVars
    BY <1>2, <1>n DEF PollCollect
  <2>2. CASE sched.nextDue <= poll.now
    <3>1. /\ poll' = [poll EXCEPT !.due = Append(@, sched.nextDue)]
          /\ sched' = [sched EXCEPT !.nextDue = @ + Interval]
      BY <1>2, <2>2 DEF PollCollect
    <3>2. /\ poll'.due = Append(poll.due, sched.nextDue) /\ poll'.now = poll.now /\ poll'.pc = poll.pc
          /\ sched'.nextDue = sched.nextDue + Interval /\ sched'.era = sched.era /\ sched.era \in Nat
      BY <1>t, <3>1 DEF PollTyped
    <3>3. /\ Len(poll'.due) = Len(poll.due) + 1 /\ Len(poll.due) \in Nat
          /\ \A k \in 1 .. Len(poll.due) : poll'.due[k] = poll.due[k] /\ poll.due[k] \in Nat
          /\ poll'.due[Len(poll.due) + 1] = sched.nextDue
      BY <1>t, <2>1, <3>2 DEF PollTyped
    <3>4. \A k \in 1 .. Len(poll'.due) : k \in 1 .. Len(poll.due) \/ k = Len(poll.due) + 1
      BY <3>3
    <3>5. Timely(sched.era, sched.nextDue) /\ Timely(sched.era, poll.now)
      BY <1>t, <1>m, <2>1, <2>2 DEF Schedule, PollTyped, Timely
    <3>6. sched'.nextDue # NotDerived /\ sched'.nextDue \in Nat /\ sched.nextDue < sched'.nextDue
          /\ (sched.era = era => sched'.nextDue <= clock + Interval)
      BY <1>t, <2>1, <3>2, <3>5 DEF NotDerived, Timely
    <3>7. \A i \in 1 .. Len(queue) : asOf[queue[i]] \in Nat /\ eraOf[queue[i]] \in Nat
      BY <1>t DEF JobsTyped
    <3>l. ASSUME NEW e \in Nat, NEW d \in Nat, Before(e, d, sched.era, sched.nextDue)
          PROVE  Before(e, d, sched'.era, sched'.nextDue)
      BY <2>1, <3>2, <3>6, <3>l DEF Before
    <3>8. Ordered'
      <4>1. QueueRises /\ DueRises /\ DueBelow /\ QueueBelow
        BY <1>m, <2>1 DEF Schedule, Ordered
      <4>2. QueueRises'
        BY <2>1, <4>1 DEF QueueRises, jobVars
      <4>3. DueRises'
        <5> SUFFICES ASSUME NEW k \in 1 .. Len(poll'.due), NEW l \in 1 .. Len(poll'.due), k < l
                     PROVE  poll'.due[k] < poll'.due[l]
          BY DEF DueRises
        <5>1. k \in 1 .. Len(poll.due) /\ poll'.due[k] = poll.due[k]
          BY <3>3, <3>4
        <5>2. CASE l \in 1 .. Len(poll.due)
          BY <3>3, <4>1, <5>1, <5>2 DEF DueRises
        <5>3. CASE l = Len(poll.due) + 1
          BY <3>3, <4>1, <5>1, <5>3 DEF DueBelow
        <5> QED BY <3>4, <5>2, <5>3
      <4>4. DueBelow'
        <5> SUFFICES ASSUME NEW k \in 1 .. Len(poll'.due)
                     PROVE  poll'.due[k] < sched'.nextDue /\ Timely(sched.era, poll'.due[k])
          BY <1>m, <3>2 DEF DueBelow, Timely
        <5>1. CASE k \in 1 .. Len(poll.due)
          BY <2>1, <3>3, <3>6, <4>1, <5>1 DEF DueBelow
        <5>2. CASE k = Len(poll.due) + 1
          BY <3>3, <3>5, <3>6, <5>2
        <5> QED BY <3>4, <5>1, <5>2
      <4>5. QueueBelow'
        <5> SUFFICES ASSUME NEW i \in 1 .. Len(queue), queue[i] \notin cancelled
                     PROVE  /\ Timely(eraOf[queue[i]], asOf[queue[i]])
                            /\ Before(eraOf[queue[i]], asOf[queue[i]], sched'.era, sched'.nextDue)
                            /\ \A k \in 1 .. Len(poll'.due) :
                                 Before(eraOf[queue[i]], asOf[queue[i]], sched.era, poll'.due[k])
          BY <1>m, <2>1, <3>2 DEF QueueBelow, Timely, jobVars
        <5>1. /\ Timely(eraOf[queue[i]], asOf[queue[i]])
              /\ Before(eraOf[queue[i]], asOf[queue[i]], sched.era, sched.nextDue)
              /\ asOf[queue[i]] \in Nat /\ eraOf[queue[i]] \in Nat
          BY <3>7, <4>1 DEF QueueBelow
        <5>2. \A k \in 1 .. Len(poll.due) :
                Before(eraOf[queue[i]], asOf[queue[i]], sched.era, poll'.due[k])
          BY <3>3, <4>1 DEF QueueBelow
        <5>3. Before(eraOf[queue[i]], asOf[queue[i]], sched.era, poll'.due[Len(poll.due) + 1])
          BY <3>3, <5>1
        <5>4. Before(eraOf[queue[i]], asOf[queue[i]], sched'.era, sched'.nextDue)
          BY <3>l, <5>1
        <5> QED BY <3>4, <5>1, <5>2, <5>3, <5>4
      <4> QED BY <4>2, <4>3, <4>4, <4>5 DEF Ordered
    <3>9. ASSUME NEW e \in Nat, NEW d \in Nat, Ahead(e, d) PROVE Ahead(e, d)'
      <4>1. \A i \in 1 .. Len(queue') :
              queue'[i] \notin cancelled' => Before(e, d, eraOf'[queue'[i]], asOf'[queue'[i]])
        BY <2>1, <3>9 DEF Ahead, jobVars
      <4>2. \A k \in 1 .. Len(poll'.due) : Before(e, d, sched'.era, poll'.due[k])
        BY <3>2, <3>3, <3>4, <3>9 DEF Ahead
      <4>3. Before(e, d, sched'.era, sched'.nextDue)
        BY <3>l, <3>9 DEF Ahead
      <4> QED BY <4>1, <4>2, <4>3 DEF Ahead
    <3>10. Ahead(Current.era, Current.simGameDay)'
      BY <1>m, <1>e, <2>1, <3>9 DEF Schedule
    <3>11. ASSUME Fresh' PROVE InHandAhead'
      <4>1. Fresh /\ asOf[tick.handle] \in Nat /\ eraOf[tick.handle] \in Nat
        BY <1>t, <1>m, <2>1, <3>11, IInvParts DEF Fresh, IsCancelled, jobVars, JobsTyped, TickTyped
      <4>2. InHandAhead /\ UNCHANGED <<asOf, eraOf, tick>>
        BY <1>m, <2>1, <4>1 DEF Schedule, jobVars
      <4>3. Ahead(eraOf[tick.handle], asOf[tick.handle])'
        BY <3>9, <4>1, <4>2 DEF InHandAhead
      <4> QED BY <1>m, <4>2, <4>3 DEF InHandAhead, Timely
    <3> QED BY <1>m, <3>2, <3>5, <3>6, <3>8, <3>10, <3>11 DEF OnSchedule, Schedule, Timely
  <2>3. CASE ~(sched.nextDue <= poll.now)
    <3>1. sched' = sched /\ poll'.due = poll.due /\ (poll'.pc = "idle" \/ poll'.now = poll.now)
      BY <1>t, <1>2, <2>3 DEF PollCollect, PollTyped, IdlePoll
    <3>2. Ordered' /\ Ahead(Current.era, Current.simGameDay)'
      BY <1>m, <2>1, <3>1 DEF Schedule, Ordered, QueueRises, DueRises, DueBelow, QueueBelow, Timely, Ahead,
        jobVars
    <3>3. Fresh' => InHandAhead'
      BY <1>m, <2>1, <3>1 DEF Schedule, InHandAhead, Timely, Ahead, Fresh, IsCancelled, jobVars
    <3> QED BY <1>t, <1>m, <2>1, <3>1, <3>2, <3>3 DEF OnSchedule, Schedule, Timely, jobVars
  <2> QED BY <2>2, <2>3
<1>3. ASSUME poll.pc = "enqueue", poll' = PollTail
      PROVE  /\ poll'.pc # "idle" => poll'.now = poll.now
             /\ Len(poll.due) \in Nat \ {0}
             /\ Len(poll'.due) = Len(poll.due) - 1
             /\ \A k \in 1 .. Len(poll'.due) : k + 1 \in 1 .. Len(poll.due) /\ poll'.due[k] = poll.due[k + 1]
  <2>1. poll.due \in Seq(Nat) /\ poll.due # <<>>
    BY <1>t, <1>3 DEF PollTyped
  <2>2. CASE Len(poll.due) = 1
    BY <1>3, <2>1, <2>2 DEF PollTail, IdlePoll
  <2>3. CASE Len(poll.due) # 1
    <3>1. poll'.due = Tail(poll.due) /\ poll'.now = poll.now
      BY <1>t, <1>3, <2>3 DEF PollTail, PollTyped
    <3> QED BY <2>1, <2>3, <3>1
  <2> QED BY <2>2, <2>3
<1>4. CASE PollDrop
  <2>1. poll.pc = "enqueue" /\ poll' = PollTail /\ UNCHANGED <<sched, jobVars>>
    BY <1>4 DEF PollDrop
  <2>2. sched.nextDue # NotDerived
    BY <1>n, <2>1
  <2>3. \A k \in 1 .. Len(poll'.due) : k + 1 \in 1 .. Len(poll.due) /\ poll'.due[k] = poll.due[k + 1]
    BY <1>3, <2>1
  <2>4. QueueRises /\ DueRises /\ DueBelow /\ QueueBelow
    BY <1>m, <2>2 DEF Schedule, Ordered
  <2>5. DueRises'
    <3> SUFFICES ASSUME NEW k \in 1 .. Len(poll'.due), NEW l \in 1 .. Len(poll'.due), k < l
                 PROVE  poll'.due[k] < poll'.due[l]
      BY DEF DueRises
    <3>1. k + 1 < l + 1
      OBVIOUS
    <3> QED BY <2>3, <2>4, <3>1 DEF DueRises
  <2>6. Ordered'
    BY <1>m, <2>1, <2>3, <2>4, <2>5 DEF Ordered, QueueRises, DueBelow, QueueBelow, Timely, jobVars
  <2>7. ASSUME NEW e, NEW d, Ahead(e, d) PROVE Ahead(e, d)'
    BY <2>1, <2>3, <2>7 DEF Ahead, jobVars
  <2>8. Fresh' => Fresh
    BY <1>m, <2>1 DEF Fresh, IsCancelled, jobVars
  <2>9. UNCHANGED <<asOf, eraOf, cancelled, outstanding>>
    BY <2>1 DEF jobVars
  <2>10. poll'.pc # "idle" => poll'.now = poll.now
    BY <1>3, <2>1
  <2>11. Ahead(Current.era, Current.simGameDay)'
    BY <1>m, <2>2, <2>7 DEF Schedule
  <2>12. ASSUME Fresh' PROVE InHandAhead'
    <3>1. InHandAhead
      BY <1>m, <2>2, <2>8, <2>12 DEF Schedule
    <3>2. Ahead(eraOf[tick.handle], asOf[tick.handle])'
      BY <1>m, <2>7, <2>9, <3>1 DEF InHandAhead
    <3> QED BY <1>m, <2>9, <3>1, <3>2 DEF InHandAhead, Timely
  <2> QED BY <1>m, <2>1, <2>2, <2>6, <2>8, <2>9, <2>10, <2>11, <2>12 DEF OnSchedule, Schedule, Timely
<1>5. CASE PollEnqueue
  <2> DEFINE fresh == Handles \ (outstanding \cup main.cancelling)
             g == CHOOSE x \in fresh : TRUE
  <2>1. /\ poll.pc = "enqueue" /\ poll' = PollTail /\ sched' = sched
        /\ fresh # {} /\ queue' = Append(queue, g) /\ asOf' = [asOf EXCEPT ![g] = Head(poll.due)]
        /\ eraOf' = [eraOf EXCEPT ![g] = sched.era]
        /\ cancelled' = cancelled \ {g}
    BY <1>5 DEF PollEnqueue
  <2>2. g \in Handles /\ g \notin outstanding
    BY <2>1
  <2> HIDE DEF g, fresh
  <2>3. sched.nextDue # NotDerived /\ sched.nextDue \in Nat
    BY <1>n, <2>1
  <2>4. Head(poll.due) = poll.due[1] /\ 1 \in 1 .. Len(poll.due) /\ poll.due[1] \in Nat
    BY <1>t, <1>3, <2>1 DEF PollTyped
  <2>5. /\ Len(queue) \in Nat /\ Len(queue') = Len(queue) + 1
        /\ \A i \in 1 .. Len(queue) : queue'[i] = queue[i]
        /\ queue'[Len(queue) + 1] = g
    BY <1>t, <2>1, <2>2 DEF JobsTyped
  <2>6. \A i \in 1 .. Len(queue) :
          /\ asOf'[queue[i]] = asOf[queue[i]] /\ eraOf'[queue[i]] = eraOf[queue[i]]
          /\ queue[i] \in cancelled' <=> queue[i] \in cancelled
    BY <1>t, <2>1, <2>2, InHand DEF JobsTyped
  <2>7. asOf'[g] = poll.due[1] /\ eraOf'[g] = sched.era /\ g \notin cancelled'
    BY <1>t, <2>1, <2>2, <2>4 DEF JobsTyped
  <2>8. \A i \in 1 .. Len(queue') : i \in 1 .. Len(queue) \/ i = Len(queue) + 1
    BY <2>5
  <2>9. \A k \in 1 .. Len(poll'.due) :
          /\ k + 1 \in 1 .. Len(poll.due) /\ poll'.due[k] = poll.due[k + 1] /\ 1 < k + 1
          /\ poll.due[k + 1] \in Nat
    BY <1>t, <1>3, <2>1 DEF PollTyped
  <2>10. Ordered'
    <3>1. QueueRises /\ DueRises /\ DueBelow /\ QueueBelow
      BY <1>m, <2>3 DEF Schedule, Ordered
    <3>2. QueueRises'
      <4> SUFFICES ASSUME NEW i \in 1 .. Len(queue'), NEW j \in 1 .. Len(queue'), i < j,
                          queue'[i] \notin cancelled', queue'[j] \notin cancelled'
                   PROVE  Before(eraOf'[queue'[i]], asOf'[queue'[i]], eraOf'[queue'[j]], asOf'[queue'[j]])
        BY DEF QueueRises
      <4>1. i \in 1 .. Len(queue) /\ queue'[i] = queue[i] /\ queue[i] \notin cancelled
            /\ asOf'[queue[i]] = asOf[queue[i]] /\ eraOf'[queue[i]] = eraOf[queue[i]]
        BY <2>5, <2>6, <2>8
      <4>2. CASE j \in 1 .. Len(queue)
        BY <2>5, <2>6, <3>1, <4>1, <4>2 DEF QueueRises
      <4>3. CASE j = Len(queue) + 1
        BY <2>4, <2>5, <2>7, <3>1, <4>1, <4>3 DEF QueueBelow
      <4> QED BY <2>8, <4>2, <4>3
    <3>3. DueRises'
      <4> SUFFICES ASSUME NEW k \in 1 .. Len(poll'.due), NEW l \in 1 .. Len(poll'.due), k < l
                   PROVE  poll'.due[k] < poll'.due[l]
        BY DEF DueRises
      <4>1. k + 1 < l + 1
        OBVIOUS
      <4> QED BY <2>9, <3>1, <4>1 DEF DueRises
    <3>4. DueBelow'
      BY <1>m, <2>1, <2>9, <3>1 DEF DueBelow, Timely
    <3>5. QueueBelow'
      <4> SUFFICES ASSUME NEW i \in 1 .. Len(queue'), queue'[i] \notin cancelled'
                   PROVE  /\ Timely(eraOf'[queue'[i]], asOf'[queue'[i]])
                          /\ Before(eraOf'[queue'[i]], asOf'[queue'[i]], sched.era, sched.nextDue)
                          /\ \A k \in 1 .. Len(poll'.due) :
                               Before(eraOf'[queue'[i]], asOf'[queue'[i]], sched.era, poll'.due[k])
        BY <1>m, <2>1 DEF QueueBelow, Timely
      <4>1. CASE i \in 1 .. Len(queue)
        BY <2>5, <2>6, <2>9, <3>1, <4>1 DEF QueueBelow
      <4>2. CASE i = Len(queue) + 1
        BY <2>4, <2>5, <2>7, <2>9, <3>1, <4>2 DEF DueRises, DueBelow, Before
      <4> QED BY <2>8, <4>1, <4>2
    <3> QED BY <3>2, <3>3, <3>4, <3>5 DEF Ordered
  <2>11. ASSUME NEW e \in Nat, NEW d \in Nat, Ahead(e, d) PROVE Ahead(e, d)'
    <3>1. \A i \in 1 .. Len(queue') :
            queue'[i] \notin cancelled' => Before(e, d, eraOf'[queue'[i]], asOf'[queue'[i]])
      <4> SUFFICES ASSUME NEW i \in 1 .. Len(queue'), queue'[i] \notin cancelled'
                   PROVE  Before(e, d, eraOf'[queue'[i]], asOf'[queue'[i]])
        OBVIOUS
      <4>1. CASE i \in 1 .. Len(queue)
        BY <2>5, <2>6, <2>11, <4>1 DEF Ahead
      <4>2. CASE i = Len(queue) + 1
        BY <2>4, <2>5, <2>7, <2>11, <4>2 DEF Ahead
      <4> QED BY <2>8, <4>1, <4>2
    <3>2. \A k \in 1 .. Len(poll'.due) : Before(e, d, sched.era, poll'.due[k])
      BY <2>9, <2>11 DEF Ahead
    <3> QED BY <2>1, <2>11, <3>1, <3>2 DEF Ahead
  <2>12. Ahead(Current.era, Current.simGameDay)'
    BY <1>m, <1>e, <2>3, <2>11 DEF Schedule
  <2>13. ASSUME Fresh' PROVE InHandAhead'
    <3>1. tick.handle \in outstanding /\ tick.handle \in Handles
      BY <1>m, <2>13, InHand, IInvParts DEF Fresh, TickTyped
    <3>2. /\ Fresh /\ asOf'[tick.handle] = asOf[tick.handle] /\ asOf[tick.handle] \in Nat
          /\ eraOf'[tick.handle] = eraOf[tick.handle] /\ eraOf[tick.handle] \in Nat /\ tick' = tick
      BY <1>t, <1>m, <2>1, <2>2, <2>13, <3>1 DEF Fresh, IsCancelled, JobsTyped
    <3>3. InHandAhead
      BY <1>m, <2>3, <3>2 DEF Schedule
    <3>4. Ahead(eraOf[tick.handle], asOf[tick.handle])'
      BY <2>11, <3>2, <3>3 DEF InHandAhead
    <3> QED BY <1>m, <3>2, <3>3, <3>4 DEF InHandAhead, Timely
  <2> QED BY <1>m, <1>3, <2>1, <2>3, <2>10, <2>12, <2>13 DEF OnSchedule, Schedule, Timely
<1> QED BY <1>1, <1>2, <1>4, <1>5 DEF PollNext

LEMMA TickOnSchedule ==
  ASSUME ~Races, IInv, Backlog, LoadQuiet, DaysKnown, OnSchedule, TickNext PROVE OnSchedule'
<1>t. /\ JobsTyped /\ TickTyped /\ ImagesTyped
      /\ NoWorld \notin Worlds
  BY IInvParts, TickConstants
<1>m. /\ UNCHANGED <<clock, era, sched, poll, main>> /\ (Past' <=> Past)
      /\ tick.pc # "forget" => UNCHANGED <<asOf, eraOf>>
  BY TickMoves DEF Past, LoadIsOn
<1> SUFFICES ASSUME ~Past, Schedule PROVE Schedule'
  BY <1>m DEF OnSchedule
<1>h. /\ tick.pc # "idle" => tick.handle \in outstanding
      /\ sched.nextDue = NotDerived => tick.pc = "idle" \/ IsCancelled
  BY InHand DEF Schedule, IsCancelled
<1>k. ASSUME UNCHANGED jobVars, Current'.simGameDay = Current.simGameDay, Current'.era = Current.era,
             Fresh' => Fresh /\ tick'.handle = tick.handle,
             sched.nextDue = NotDerived => ~Unguarded' /\ pending' = pending
      PROVE  Schedule'
  <2>1. Ordered' <=> Ordered
    BY <1>m, <1>k DEF Ordered, QueueRises, DueRises, DueBelow, QueueBelow, Timely, jobVars
  <2>2. \A e, d : Ahead(e, d)' <=> Ahead(e, d)
    BY <1>m, <1>k DEF Ahead, jobVars
  <2>3. Ahead(Current.era, Current.simGameDay)' <=> Ahead(Current.era, Current.simGameDay)
    BY <1>m, <1>k DEF Ahead, jobVars
  <2>4. ASSUME Fresh', InHandAhead PROVE InHandAhead'
    BY <1>m, <1>k, <2>4 DEF InHandAhead, Timely, Ahead, jobVars
  <2> QED BY <1>m, <1>k, <2>1, <2>3, <2>4 DEF Schedule, Timely, jobVars
<1>1. CASE TickPop
  <2>1. /\ tick.pc = "idle" /\ tick'.pc = "popped" /\ tick'.handle = queue[1] /\ queue # <<>>
        /\ queue' = Tail(queue) /\ UNCHANGED <<outstanding, cancelled, live, pending>>
    BY <1>t, <1>1, PopTakesHead, HeadTailProperties DEF TickPop, worldVars, JobsTyped
  <2>2. /\ 1 \in 1 .. Len(queue) /\ Len(queue') = Len(queue) - 1 /\ Len(queue) \in Nat
        /\ \A i \in 1 .. Len(queue') : i + 1 \in 1 .. Len(queue) /\ queue'[i] = queue[i + 1] /\ 1 < i + 1
    BY <1>t, <2>1 DEF JobsTyped
  <2>3. Current' = Current /\ ~Unguarded'
    BY <2>1 DEF Current, Unguarded
  <2>4. ASSUME sched.nextDue # NotDerived PROVE Ordered' /\ Ahead(Current.era, Current.simGameDay)'
    <3>1. QueueRises /\ DueRises /\ DueBelow /\ QueueBelow /\ Ahead(Current.era, Current.simGameDay)
      BY <2>4 DEF Schedule, Ordered
    <3>2. QueueRises'
      <4> SUFFICES ASSUME NEW i \in 1 .. Len(queue'), NEW j \in 1 .. Len(queue'), i < j,
                          queue'[i] \notin cancelled, queue'[j] \notin cancelled
                   PROVE  Before(eraOf[queue'[i]], asOf[queue'[i]], eraOf[queue'[j]], asOf[queue'[j]])
        BY <1>m, <2>1 DEF QueueRises
      <4>1. i + 1 < j + 1
        OBVIOUS
      <4> QED BY <2>2, <3>1, <4>1 DEF QueueRises
    <3>3. QueueBelow'
      BY <1>m, <2>1, <2>2, <3>1 DEF QueueBelow, Timely
    <3>4. DueRises' /\ DueBelow'
      BY <1>m, <3>1 DEF DueRises, DueBelow, Timely
    <3>5. Ahead(Current.era, Current.simGameDay)'
      BY <1>m, <2>1, <2>2, <2>3, <3>1 DEF Ahead
    <3> QED BY <3>2, <3>3, <3>4, <3>5 DEF Ordered
  <2>5. ASSUME sched.nextDue # NotDerived, Fresh' PROVE InHandAhead'
    <3>1. queue[1] \notin cancelled
      BY <2>1, <2>5 DEF Fresh, IsCancelled
    <3>2. /\ Before(Current.era, Current.simGameDay, eraOf[queue[1]], asOf[queue[1]])
          /\ Timely(eraOf[queue[1]], asOf[queue[1]])
      BY <2>2, <2>5, <3>1 DEF Schedule, Ordered, QueueBelow, Ahead
    <3>3. PICK e \in Nat, d \in Nat : e = eraOf[queue[1]] /\ d = asOf[queue[1]]
      BY <1>t, <2>2 DEF JobsTyped
    <3>4. \A i \in 1 .. Len(queue') :
            queue'[i] \notin cancelled => Before(e, d, eraOf[queue'[i]], asOf[queue'[i]])
      BY <2>2, <2>5, <3>1, <3>3 DEF Schedule, Ordered, QueueRises
    <3>5. /\ Before(e, d, sched.era, sched.nextDue)
          /\ \A k \in 1 .. Len(poll.due) : Before(e, d, sched.era, poll.due[k])
      BY <2>2, <2>5, <3>1, <3>3 DEF Schedule, Ordered, QueueBelow
    <3>6. Ahead(e, d)'
      BY <1>m, <2>1, <3>4, <3>5 DEF Ahead
    <3>7. eraOf'[tick'.handle] = e /\ asOf'[tick'.handle] = d
      BY <1>m, <2>1, <3>3
    <3> QED BY <1>m, <2>3, <3>2, <3>3, <3>6, <3>7 DEF InHandAhead, Timely
  <2> QED BY <1>m, <2>1, <2>3, <2>4, <2>5 DEF Schedule, Timely
<1>2. CASE TickEnter
  <2>1. /\ tick.pc = "popped" /\ ~IsCancelled /\ tick' = [tick EXCEPT !.pc = "adopt"]
        /\ UNCHANGED <<jobVars, live, pending>>
    BY <1>2 DEF TickEnter, TickGoes, TickAlone
  <2>2. Fresh /\ tick'.handle = tick.handle /\ Current' = Current /\ sched.nextDue # NotDerived
    BY <1>t, <1>h, <2>1 DEF Fresh, Current, TickTyped
  <2> QED BY <1>k, <2>1, <2>2
<1>3. CASE AdoptPendingState
  <2>1. /\ tick.pc = "adopt" /\ UNCHANGED jobVars /\ pending' = NoWorld /\ live' \in {live, pending}
        /\ tick'.handle = tick.handle /\ (pending = NoWorld <=> live' = live /\ pending = NoWorld)
        /\ (pending # NoWorld => live' = pending)
    BY <1>t, <1>3 DEF AdoptPendingState, Staged, TickGoes, TickTyped
  <2>2. Current' = Current /\ sched.nextDue # NotDerived
    BY <2>1 DEF Current, Schedule, Unguarded
  <2>3. Fresh' => Fresh
    BY <2>1 DEF Fresh, IsCancelled, jobVars
  <2> QED BY <1>k, <2>1, <2>2, <2>3
<1>4. CASE AdoptPublish \/ PublishSnapshot
  <2>1. /\ tick.pc \in {"adopted", "publish"} /\ UNCHANGED <<jobVars, live, pending>>
        /\ tick'.handle = tick.handle /\ (tick.pc = "publish" => tick'.pc = "forget")
    BY <1>t, <1>4 DEF AdoptPublish, PublishSnapshot, TickGoes, TickTyped
  <2>2. Current' = Current /\ sched.nextDue # NotDerived /\ (Fresh' => Fresh)
    BY <2>1 DEF Current, Schedule, Unguarded, Fresh, IsCancelled, jobVars
  <2> QED BY <1>k, <2>1, <2>2
<1>5. CASE SetHorizon
  <2>1. /\ tick.pc = "check" /\ ~IsCancelled /\ tick'.pc = "sweep" /\ UNCHANGED <<jobVars, pending>>
        /\ live' = SetClock(live, eraOf[tick.handle], asOf[tick.handle])
    BY <1>t, <1>5 DEF SetHorizon, TickGoes, TickAlone, TickTyped
  <2>2. Fresh /\ sched.nextDue # NotDerived /\ ~Fresh' /\ InHandAhead
    BY <1>h, <2>1 DEF Fresh, Schedule
  <2>3. /\ asOf[tick.handle] \in Nat /\ eraOf[tick.handle] \in Nat
        /\ live'.simGameDay = asOf[tick.handle] /\ live'.era = eraOf[tick.handle]
    <3>1. asOf[tick.handle] \in Nat /\ eraOf[tick.handle] \in Nat /\ live \in Worlds
      BY <1>h, <1>t, <2>1 DEF JobsTyped, TickTyped
    <3> QED BY <2>1, <3>1, ClockIsSet
  <2>4. Ordered'
    BY <1>m, <2>1, <2>2 DEF Schedule, Ordered, QueueRises, DueRises, DueBelow, QueueBelow, Timely, jobVars
  <2>5. \/ Current' = Current
        \/ Current'.simGameDay = asOf[tick.handle] /\ Current'.era = eraOf[tick.handle]
    BY <2>1, <2>3 DEF Current
  <2>6. Ahead(Current.era, Current.simGameDay)'
    BY <1>m, <2>1, <2>2, <2>5 DEF Schedule, InHandAhead, Ahead, jobVars
  <2>7. Current'.simGameDay \in Nat /\ Timely(Current.era, Current.simGameDay)'
    BY <1>m, <2>2, <2>3, <2>5 DEF Schedule, InHandAhead, Timely
  <2> QED BY <1>m, <2>2, <2>4, <2>6, <2>7 DEF Schedule, Timely
<1>6. CASE TickCompletes
  <2>1. /\ tick.pc = "drained" /\ ~IsCancelled /\ tick'.pc = "publish" /\ UNCHANGED <<jobVars, live, pending>>
    BY <1>t, <1>6 DEF TickCompletes, TickGoes, TickAlone, TickTyped
  <2>2. ~Fresh' /\ Current' = Current /\ sched.nextDue # NotDerived
    BY <1>h, <2>1 DEF Fresh, Current
  <2> QED BY <1>k, <2>1, <2>2
<1>7. CASE Works
  <2>1. /\ UNCHANGED <<jobVars, pending>> /\ live'.simGameDay = live.simGameDay /\ live'.era = live.era
        /\ tick'.pc \in {"forget"} \cup (HeldSteps \ {"publish"})
    BY <1>7 DEF Works
  <2>2. Current'.simGameDay = Current.simGameDay /\ Current'.era = Current.era /\ ~Fresh' /\ ~Unguarded'
    BY <2>1 DEF Current, Fresh, Unguarded, HeldSteps
  <2> QED BY <1>k, <2>1, <2>2
<1>8. CASE Forget
  <2>1. /\ tick.pc = "forget" /\ UNCHANGED <<queue, live, pending>> /\ tick'.pc = "idle"
        /\ cancelled' = cancelled \ {tick.handle} /\ outstanding' = outstanding \ {tick.handle}
    BY <1>8 DEF Forget, IdleTick, worldVars
  <2>2. \A i \in 1 .. Len(queue) :
          /\ queue[i] \in cancelled' <=> queue[i] \in cancelled
          /\ asOf'[queue[i]] = asOf[queue[i]] /\ eraOf'[queue[i]] = eraOf[queue[i]]
    <3>1. \A i \in 1 .. Len(queue) : queue[i] # tick.handle /\ queue[i] \in Handles
      BY <1>t, <2>1, InHand DEF JobsTyped
    <3> QED BY <1>t, <1>8, <2>1, <3>1 DEF Forget, JobsTyped
  <2>3. Ordered' <=> Ordered
    BY <1>m, <2>1, <2>2 DEF Ordered, QueueRises, DueRises, DueBelow, QueueBelow, Timely
  <2>4. Current' = Current /\ ~Fresh' /\ ~Unguarded'
    BY <2>1 DEF Current, Fresh, Unguarded
  <2>5. Ahead(Current.era, Current.simGameDay)' <=> Ahead(Current.era, Current.simGameDay)
    BY <1>m, <2>1, <2>2, <2>4 DEF Ahead
  <2> QED BY <1>m, <2>1, <2>3, <2>4, <2>5 DEF Schedule, Timely
<1> QED BY <1>1, <1>2, <1>3, <1>4, <1>5, <1>6, <1>7, <1>8, TickMoves

\* The clock a load goes back to is no earlier than that of the world it
\* reads, so the world a session starts with is not ahead of its clock.
LoadClock ==
  /\ saved.world.era <= saved.era
  /\ saved.world.era = saved.era => saved.world.simGameDay <= saved.day
  /\ main.pc \in {"simRecord", "touchClaims", "claimsRecord", "session"} =>
       clock = saved.day /\ era = saved.era
  /\ main.pc \in {"image", "schedule"} => Timely(pending.era, pending.simGameDay)

LEMMA LoadOnSchedule ==
  ASSUME ~Races, IInv, Backlog, LoadQuiet, DaysKnown, LoadClock, OnSchedule, LoadNext PROVE OnSchedule'
<1>t. MainTyped /\ ImagesTyped /\ PollTyped
  BY IInvParts
<1>1. ASSUME Past' PROVE OnSchedule'
  BY <1>1 DEF OnSchedule
<1>2. CASE LoadBegin \/ CancelAll \/ CancelFlags
  <2>1. UNCHANGED <<clock, era, sched, poll, queue, asOf, eraOf, outstanding, tick, worldVars>>
        /\ cancelled \subseteq cancelled'
    BY <1>2 DEF LoadBegin, CancelAll, CancelFlags, MainAlone, timeVars, worldVars, jobVars
  <2>2. Past' <=> Past
    <3>1. CASE LoadBegin
      BY <3>1, BeginStarts DEF LoadBegin, Past, LoadIsOn
    <3>2. CASE CancelAll \/ CancelFlags
      BY <1>t, <3>2 DEF CancelAll, CancelFlags, Past, LoadIsOn, MainTyped
    <3> QED BY <1>2, <3>1, <3>2
  <2>3. Current' = Current /\ (Unguarded' <=> Unguarded) /\ (Fresh' => Fresh)
    BY <2>1 DEF Current, Unguarded, Fresh, IsCancelled, worldVars
  <2>4. Ordered => Ordered'
    BY <2>1 DEF Ordered, QueueRises, DueRises, DueBelow, QueueBelow, Timely
  <2>5. Ahead(Current.era, Current.simGameDay) => Ahead(Current.era, Current.simGameDay)'
    BY <2>1, <2>3 DEF Ahead
  <2>6. InHandAhead => InHandAhead'
    BY <2>1, <2>3 DEF InHandAhead, Timely, Ahead
  <2> QED BY <2>1, <2>2, <2>3, <2>4, <2>5, <2>6 DEF OnSchedule, Schedule, Timely, worldVars
<1>3. CASE RevertSim \/ RevertTouch \/ RevertClaims
  <2>1. Past'
    BY <1>t, <1>3 DEF RevertSim, RevertTouch, RevertClaims, MainGoes, Past, LoadIsOn, MainTyped
  <2> QED BY <1>1, <2>1
<1>4. CASE EngineLoads \/ LoadSim \/ LoadSimShort \/ LoadClaimsTouch \/ LoadClaims
           \/ LoadClaimsShort \/ LoadNothing \/ SessionStart \/ SessionPublish
  <2>1. main.round = 2
    BY <1>4 DEF EngineLoads, LoadSim, LoadSimShort, LoadClaimsTouch, LoadClaims, LoadClaimsShort,
      LoadNothing, SessionStart, SessionPublish, LoadQuiet, LoadIsOn, EarlySteps
  <2>2. main'.round = main.round /\ main'.pc # "play"
    BY <1>t, <1>4 DEF EngineLoads, LoadSim, LoadSimShort, LoadClaimsTouch, LoadClaims, LoadClaimsShort,
      LoadNothing, SessionStart, SessionPublish, MainGoes, MainTyped
  <2> QED BY <1>1, <2>1, <2>2 DEF Past, LoadIsOn
<1>5. CASE SessionSchedule
  <2>1. /\ main.pc = "schedule" /\ UNCHANGED <<clock, era, poll, jobVars, tick, worldVars>>
        /\ sched'.nextDue = NotDerived
    BY <1>5 DEF SessionSchedule, timeVars
  <2>2. Past
    BY <2>1 DEF LoadQuiet, Past, LoadIsOn, EarlySteps
  <2>3. /\ outstanding \subseteq cancelled /\ poll.pc = "idle" /\ ~Unguarded /\ pending # NoWorld
        /\ Staged = pending /\ pending.simGameDay \in Nat /\ Timely(pending.era, pending.simGameDay)
    BY <2>1, <2>2, PastIsStaged DEF LoadQuiet, Past, LoadIsOn, DaysKnown, LoadClock
  <2>4. sched'.anchor = pending.simGameDay /\ sched'.era = pending.era
    BY <1>5, <2>3 DEF SessionSchedule
  <2>5. Current' = pending /\ pending' = pending
    BY <2>1, <2>3 DEF Current, worldVars
  <2> QED BY <1>t, <2>1, <2>3, <2>4, <2>5
        DEF OnSchedule, Schedule, Timely, jobVars, Unguarded, MainTyped
<1> QED BY <1>2, <1>3, <1>4, <1>5 DEF LoadNext

-----------------------------------------------------------------------------
(* The image.  While a world is staged it is the image, and the worker may *)
(* not touch either; once it is adopted the image is a day of the live     *)
(* world that is past.                                                     *)

\* v is w, or what became of it.
Follows(v, w) ==
  \/ w.era < v.era
  \/ w.era = v.era /\ w.simGameDay <= v.simGameDay /\ w.told \subseteq v.told

ImageFollows ==
  /\ ~Past /\ pending # NoWorld =>
       /\ snapshot = pending /\ tick.pc \notin {"adopted", "publish"}
       /\ tick.pc \in {"check"} \cup HeldSteps => IsCancelled
  /\ ~Past /\ pending = NoWorld =>
       /\ Follows(live, snapshot)
       /\ snapshot.session = live.session
       /\ tick.pc = "adopted" => live = snapshot
       /\ tick.pc \in HeldSteps =>
            Before(snapshot.era, snapshot.simGameDay, live.era, live.simGameDay)
  /\ main.pc = "play" => snapshot.session = main.loads
  /\ main.pc = "schedule" => snapshot = pending

LEMMA WorldOrder == ASSUME NEW w \in Worlds PROVE Follows(w, w)
BY DEF Follows, Worlds

LEMMA TickImageFollows ==
  ASSUME ~Races, IInv, Backlog, LoadQuiet, DaysKnown, OnSchedule, ImageFollows, TickNext
  PROVE  ImageFollows'
<1>t. /\ JobsTyped /\ TickTyped /\ ImagesTyped /\ NoWorld \notin Worlds
      /\ snapshot.simGameDay \in Nat /\ live.simGameDay \in Nat \cup {-1}
      /\ snapshot.era \in Nat /\ live.era \in Nat /\ live \in Worlds
  <2>1. JobsTyped /\ TickTyped /\ ImagesTyped
    BY IInvParts
  <2> QED BY <2>1, TickConstants DEF DaysKnown, TickTyped, ImagesTyped, Worlds
<1>f. \A w \in Worlds : Follows(w, w)
  BY WorldOrder
<1>m. UNCHANGED <<sched, poll, main>> /\ (Past' <=> Past) /\ (main.pc = "play" => ~Past)
      /\ (main.pc = "schedule" => Past)
  BY TickMoves DEF Past, LoadIsOn, LoadQuiet, EarlySteps
<1>p. CASE Past
  BY <1>m, <1>p, TickWhilePast DEF ImageFollows
<1>n. CASE ~Past
  <2>h. tick.pc # "idle" => tick.handle \in outstanding
    BY InHand
  <2>s. Schedule
    BY <1>n DEF OnSchedule
  <2>1. CASE TickPop \/ Forget
    <3>1. tick'.pc \in {"popped", "idle"} /\ UNCHANGED worldVars
      BY <2>1, PopTakesHead DEF TickPop, Forget, IdleTick
    <3> QED BY <1>m, <3>1 DEF ImageFollows, worldVars, HeldSteps
  <2>2. CASE TickEnter
    <3>1. tick'.pc = "adopt" /\ UNCHANGED worldVars
      BY <1>t, <2>2 DEF TickEnter, TickGoes, TickAlone, TickTyped, worldVars
    <3> QED BY <1>m, <3>1 DEF ImageFollows, worldVars, HeldSteps
  <2>3. CASE AdoptPendingState
    <3>1. /\ pending' = NoWorld /\ snapshot' = snapshot
          /\ \/ pending = NoWorld /\ tick'.pc = "check" /\ live' = live
             \/ pending # NoWorld /\ tick'.pc = "adopted" /\ live' = pending
      BY <1>t, <2>3 DEF AdoptPendingState, Staged, TickGoes, TickTyped
    <3> QED BY <1>t, <1>f, <1>m, <1>n, <3>1 DEF ImageFollows, HeldSteps, ImagesTyped
  <2>4. CASE AdoptPublish \/ PublishSnapshot
    <3>1. /\ tick.pc \in {"adopted", "publish"} /\ tick'.pc \in {"check", "forget"}
          /\ snapshot' = live /\ UNCHANGED <<live, pending>>
      BY <1>t, <2>4 DEF AdoptPublish, PublishSnapshot, TickGoes, TickTyped
    <3>2. pending = NoWorld
      BY <1>n, <3>1 DEF ImageFollows
    <3> QED BY <1>t, <1>f, <1>m, <1>n, <3>1, <3>2 DEF ImageFollows, HeldSteps
  <2>5. CASE SetHorizon
    <3>1. /\ tick.pc = "check" /\ ~IsCancelled /\ tick'.pc = "sweep" /\ UNCHANGED <<pending, snapshot>>
          /\ live' = SetClock(live, eraOf[tick.handle], asOf[tick.handle])
      BY <1>t, <2>5 DEF SetHorizon, TickGoes, TickAlone, TickTyped
    <3>2. pending = NoWorld
      BY <1>n, <3>1 DEF ImageFollows
    <3>3. asOf[tick.handle] \in Nat /\ eraOf[tick.handle] \in Nat
      BY <1>t, <3>1 DEF TickTyped, JobsTyped
    <3>4. /\ live'.simGameDay = asOf[tick.handle] /\ live'.era = eraOf[tick.handle]
          /\ live'.session = live.session
          /\ live'.era = live.era => live'.told = live.told
      BY <1>t, <3>1, <3>3, ClockIsSet
    <3>5. Before(live.era, live.simGameDay, live'.era, live'.simGameDay)
      BY <2>h, <2>s, <3>1, <3>2, <3>4 DEF Schedule, InHandAhead, Fresh, Current, IsCancelled
    <3>6. Follows(live, snapshot)
      BY <1>n, <3>2 DEF ImageFollows
    <3>7. Follows(live', snapshot) /\ Before(snapshot.era, snapshot.simGameDay, live'.era, live'.simGameDay)
      BY <1>t, <3>3, <3>4, <3>5, <3>6 DEF Follows, Before
    <3> QED BY <1>t, <1>m, <1>n, <3>1, <3>2, <3>4, <3>7 DEF ImageFollows
  <2>6. CASE TickCompletes
    <3>1. /\ tick.pc = "drained" /\ ~IsCancelled /\ tick'.pc = "publish" /\ UNCHANGED worldVars
      BY <1>t, <2>6 DEF TickCompletes, TickGoes, TickAlone, TickTyped, worldVars
    <3> QED BY <1>m, <1>n, <3>1 DEF ImageFollows, HeldSteps, worldVars
  <2>7. CASE Works
    <3>1. /\ UNCHANGED <<cancelled, pending, snapshot>> /\ tick'.handle = tick.handle
          /\ live'.simGameDay = live.simGameDay /\ live'.era = live.era /\ live'.session = live.session
          /\ live.told \subseteq live'.told
          /\ tick'.pc \notin {"adopted", "publish", "check"}
          /\ tick'.pc \in HeldSteps => tick.pc \in HeldSteps
      BY <2>7 DEF Works, jobVars, HeldSteps
    <3>2. Follows(live, snapshot) => Follows(live', snapshot)
      BY <3>1 DEF Follows
    <3> QED BY <1>m, <1>n, <3>1, <3>2 DEF ImageFollows, IsCancelled
  <2> QED BY <2>1, <2>2, <2>3, <2>4, <2>5, <2>6, <2>7, TickMoves
<1> QED BY <1>p, <1>n

LEMMA LoadImageFollows ==
  ASSUME ~Races, IInv, Backlog, LoadQuiet, DaysKnown, Staging, ImageFollows, LoadNext
  PROVE  ImageFollows'
<1>t. MainTyped /\ ImagesTyped
  BY IInvParts
<1>1. ASSUME Past', main'.pc \notin {"play", "schedule"} PROVE ImageFollows'
  BY <1>1 DEF ImageFollows
<1>2. CASE LoadBegin \/ CancelAll \/ CancelFlags
  <2>1. UNCHANGED <<tick, worldVars>> /\ cancelled \subseteq cancelled'
    BY <1>2 DEF LoadBegin, CancelAll, CancelFlags, MainAlone, worldVars, jobVars
  <2>2. (Past' <=> Past) /\ main'.pc \notin {"play", "schedule"}
    <3>1. CASE LoadBegin
      BY <3>1, BeginStarts DEF LoadBegin, Past, LoadIsOn
    <3>2. CASE CancelAll \/ CancelFlags
      BY <1>t, <3>2 DEF CancelAll, CancelFlags, Past, LoadIsOn, MainTyped
    <3> QED BY <1>2, <3>1, <3>2
  <2>3. IsCancelled => IsCancelled'
    BY <2>1 DEF IsCancelled
  <2> QED BY <2>1, <2>2, <2>3 DEF ImageFollows, worldVars
<1>3. CASE RevertSim \/ RevertTouch \/ RevertClaims
  <2>1. Past' /\ main'.pc \notin {"play", "schedule"}
    BY <1>t, <1>3 DEF RevertSim, RevertTouch, RevertClaims, MainGoes, Past, LoadIsOn, MainTyped
  <2> QED BY <1>1, <2>1
<1>4. CASE EngineLoads \/ LoadSim \/ LoadSimShort \/ LoadClaimsTouch \/ LoadClaims
           \/ LoadClaimsShort \/ LoadNothing \/ SessionStart
  <2>1. main.round = 2
    BY <1>4 DEF EngineLoads, LoadSim, LoadSimShort, LoadClaimsTouch, LoadClaims, LoadClaimsShort,
      LoadNothing, SessionStart, LoadQuiet, LoadIsOn, EarlySteps
  <2>2. main'.round = main.round /\ main'.pc \notin {"play", "schedule"}
    BY <1>t, <1>4 DEF EngineLoads, LoadSim, LoadSimShort, LoadClaimsTouch, LoadClaims, LoadClaimsShort,
      LoadNothing, SessionStart, MainGoes, MainTyped
  <2> QED BY <1>1, <2>1, <2>2 DEF Past, LoadIsOn
<1>5. CASE SessionPublish
  <2>1. snapshot' = pending' /\ main'.pc = "schedule" /\ main'.round = 2
    BY <1>t, <1>5 DEF SessionPublish, MainGoes, MainTyped, DaysKnown, LoadQuiet, LoadIsOn, EarlySteps
  <2> QED BY <2>1 DEF ImageFollows, Past, LoadIsOn
<1>6. CASE SessionSchedule
  <2>1. /\ main.pc = "schedule" /\ UNCHANGED <<cancelled, outstanding, tick, worldVars>>
        /\ main'.pc = "play" /\ main'.loads = main.loads
    BY <1>6 DEF SessionSchedule, InPlay, jobVars
  <2>2. Past
    BY <2>1 DEF LoadQuiet, Past, LoadIsOn, EarlySteps
  <2>3. pending # NoWorld /\ snapshot = pending /\ pending.session = main.loads
        /\ (tick.pc # "idle" => IsCancelled) /\ ~Unguarded
    BY <2>1, <2>2, InHand DEF LoadQuiet, Past, LoadIsOn, ImageFollows, Staging, IsCancelled
  <2>4. tick'.pc \in {"check"} \cup HeldSteps => IsCancelled'
    BY <2>1, <2>3 DEF HeldSteps, IsCancelled
  <2>5. tick'.pc \notin {"adopted", "publish"}
    BY <2>1, <2>3 DEF Unguarded
  <2> QED BY <2>1, <2>3, <2>4, <2>5 DEF ImageFollows, worldVars
<1> QED BY <1>2, <1>3, <1>4, <1>5, <1>6 DEF LoadNext

LEMMA NextKeepsClock ==
  ASSUME ~Races, IInv, Backlog, LoadQuiet, DaysKnown, Staging, LoadClock, OnSchedule, ImageFollows,
         [Next]_vars
  PROVE  LoadClock'
<1>t. MainTyped /\ ImagesTyped /\ TickTyped /\ NoWorld \notin Worlds
  BY IInvParts, TickConstants
<1>1. CASE TickNext
  <2>1. UNCHANGED <<main, saved, clock, era>>
    BY <1>1, TickMoves
  <2>2. main.pc \in {"image", "schedule"} => pending' = pending
    BY <1>1, TickWhilePast DEF LoadQuiet, Past, LoadIsOn, EarlySteps
  <2> QED BY <2>1, <2>2 DEF LoadClock, Timely
<1>2. ASSUME main'.pc \notin {"simRecord", "touchClaims", "claimsRecord", "session", "image", "schedule"},
             saved' = saved
      PROVE  LoadClock'
  BY <1>2 DEF LoadClock
<1>3. CASE LoadBegin \/ CancelAll \/ CancelFlags \/ RevertSim \/ RevertTouch \/ RevertClaims \/ SessionSchedule
  <2>1. saved' = saved
    BY <1>3 DEF LoadBegin, CancelAll, CancelFlags, RevertSim, RevertTouch, RevertClaims, SessionSchedule,
      MainAlone
  <2>2. CASE LoadBegin
    BY <1>2, <2>1, <2>2, BeginStarts
  <2>3. CASE SessionSchedule
    BY <1>2, <2>1, <2>3 DEF SessionSchedule, InPlay
  <2>4. CASE CancelAll \/ CancelFlags \/ RevertSim \/ RevertTouch \/ RevertClaims
    BY <1>t, <1>2, <2>1, <2>4 DEF CancelAll, CancelFlags, RevertSim, RevertTouch, RevertClaims, MainGoes,
      MainTyped
  <2> QED BY <1>3, <2>2, <2>3, <2>4
<1>4. CASE EngineLoads
  BY <1>t, <1>4 DEF EngineLoads, MainGoes, MainTyped, LoadClock
<1>5. CASE LoadSim \/ LoadSimShort \/ LoadClaimsTouch \/ LoadClaims \/ LoadClaimsShort \/ LoadNothing
  <2>1. /\ main.pc \in {"simRecord", "touchClaims", "claimsRecord"}
        /\ main'.pc \in {"touchClaims", "claimsRecord", "session"} /\ UNCHANGED <<saved, clock, era>>
    BY <1>t, <1>5 DEF LoadSim, LoadSimShort, LoadClaimsTouch, LoadClaims, LoadClaimsShort, LoadNothing,
      MainGoes, MainAlone, timeVars, MainTyped
  <2> QED BY <2>1 DEF LoadClock
<1>6. CASE SessionStart
  <2>1. UNCHANGED <<saved, clock, era>> /\ main'.pc = "image"
    BY <1>t, <1>6 DEF SessionStart, MainAlone, timeVars, MainTyped
  <2>2. /\ main.pc = "session" /\ saved.world.simGameDay \in Nat
        /\ \/ pending.simGameDay = -1
           \/ pending.simGameDay = saved.world.simGameDay /\ pending.era = saved.world.era
        /\ saved.world.era <= era /\ (saved.world.era = era => saved.world.simGameDay <= clock)
    BY <1>6, StartSetsClock DEF Staging, LoadClock, DaysKnown
  <2>3. clock \in Nat /\ era \in Nat
    BY <1>t DEF MainTyped
  <2>4. Timely(pending'.era, pending'.simGameDay)
    <3>1. CASE pending.simGameDay = -1
      BY <1>6, <2>3, <3>1, StartSetsClock DEF Timely
    <3>2. CASE pending.simGameDay # -1
      BY <1>6, <2>2, <3>2, StartSetsClock DEF Timely
    <3> QED BY <3>1, <3>2
  <2> QED BY <2>1, <2>4 DEF LoadClock, Timely
<1>7. CASE SessionPublish
  <2>1. main.pc = "image" /\ main'.pc = "schedule" /\ UNCHANGED <<saved, clock, era, pending>>
    BY <1>t, <1>7 DEF SessionPublish, MainGoes, MainAlone, timeVars, MainTyped
  <2> QED BY <2>1 DEF LoadClock, Timely
<1>8. CASE OnSave
  <2>1. /\ main.pc = "play" /\ main' = main /\ ~Past /\ Schedule
        /\ saved' = [world |-> snapshot, day |-> clock, era |-> era]
    BY <1>8 DEF OnSave, Past, LoadIsOn, OnSchedule
  <2>2. Timely(snapshot.era, snapshot.simGameDay)
    <3>1. /\ snapshot.simGameDay \in Nat /\ clock \in Nat /\ snapshot.era \in Nat /\ era \in Nat
          /\ live.era \in Nat /\ live.simGameDay \in Int
      BY <1>t DEF DaysKnown, MainTyped, ImagesTyped, TickTyped, Worlds
    <3>2. CASE pending = NoWorld
      BY <1>t, <2>1, <3>1, <3>2 DEF ImageFollows, Follows, Schedule, Current, Timely
    <3>3. CASE pending # NoWorld
      BY <2>1, <3>3 DEF ImageFollows, Schedule, Current
    <3> QED BY <3>2, <3>3
  <2> QED BY <2>1, <2>2 DEF LoadClock, Timely
<1>9. CASE ClockMoves \/ ClockSetBack \/ PollNext \/ UNCHANGED vars
  <2>1. CASE ClockMoves \/ ClockSetBack
    BY <1>2, <2>1 DEF ClockMoves, ClockSetBack
  <2>2. CASE PollNext \/ UNCHANGED vars
    BY <2>2 DEF PollNext, PollDerive, PollCollect, PollDrop, PollEnqueue, vars, timeVars, worldVars,
      LoadClock, Timely
  <2> QED BY <1>9, <2>1, <2>2
<1> QED BY <1>1, <1>3, <1>4, <1>5, <1>6, <1>7, <1>8, <1>9 DEF Next, LoadNext

LEMMA NextKeepsSchedule ==
  ASSUME ~Races, IInv, Backlog, LoadQuiet, DaysKnown, LoadClock, OnSchedule, [Next]_vars
  PROVE  OnSchedule'
<1>t. /\ MainTyped /\ PollTyped /\ JobsTyped /\ Interval \in Nat
  BY IInvParts, TickConstants
<1>1. CASE OnSave \/ ClockMoves \/ ClockSetBack \/ UNCHANGED vars
  <2>1. /\ UNCHANGED <<sched, poll, jobVars, tick, worldVars, main>>
        /\ \/ era' = era /\ clock' \in {clock, clock + 1}
           \/ era' = era + 1 /\ clock' \in Nat
        /\ clock \in Nat /\ era \in Nat
    BY <1>1, <1>t DEF OnSave, ClockMoves, ClockSetBack, vars, timeVars, MainTyped
  <2>2. SUFFICES ASSUME ~Past, Schedule PROVE Schedule'
    BY <2>1 DEF OnSchedule, Past, LoadIsOn
  <2>3. Current' = Current /\ (Fresh' <=> Fresh) /\ (Unguarded' <=> Unguarded)
    BY <2>1 DEF Current, Fresh, Unguarded, IsCancelled, worldVars, jobVars
  <2>4. ASSUME NEW e \in Nat, NEW d \in Nat, Timely(e, d) PROVE Timely(e, d)'
    BY <2>1, <2>4 DEF Timely
  <2>5. /\ \A k \in 1 .. Len(poll.due) : poll.due[k] \in Nat
        /\ \A i \in 1 .. Len(queue) : asOf[queue[i]] \in Nat /\ eraOf[queue[i]] \in Nat
        /\ sched.era \in Nat /\ sched.nextDue \in Nat \cup {-1} /\ poll.now \in Nat
    BY <1>t DEF JobsTyped, PollTyped, Days
  <2>6. Ordered => Ordered'
    <3> SUFFICES ASSUME Ordered PROVE Ordered'
      OBVIOUS
    <3>1. QueueRises' /\ DueRises'
      BY <2>1 DEF Ordered, QueueRises, DueRises, jobVars
    <3>2. DueBelow'
      BY <2>1, <2>4, <2>5 DEF Ordered, DueBelow
    <3>3. QueueBelow'
      BY <2>1, <2>4, <2>5 DEF Ordered, QueueBelow, jobVars
    <3> QED BY <3>1, <3>2, <3>3 DEF Ordered
  <2>7. Ahead(Current.era, Current.simGameDay)' <=> Ahead(Current.era, Current.simGameDay)
    BY <2>1, <2>3 DEF Ahead, jobVars
  <2>8. ASSUME Fresh, InHandAhead PROVE InHandAhead'
    <3>1. asOf[tick.handle] \in Nat /\ eraOf[tick.handle] \in Nat
      BY <1>t, <2>8, IInvParts DEF Fresh, JobsTyped, TickTyped
    <3>2. Timely(eraOf[tick.handle], asOf[tick.handle])'
      BY <2>1, <2>4, <2>8, <3>1 DEF InHandAhead, jobVars
    <3>3. Ahead(eraOf[tick.handle], asOf[tick.handle])' <=> Ahead(eraOf[tick.handle], asOf[tick.handle])
      BY <2>1 DEF Ahead, jobVars
    <3> QED BY <2>1, <2>3, <2>8, <3>2, <3>3 DEF InHandAhead, jobVars
  <2>9. Current.era \in Nat
    BY IInvParts DEF Current, ImagesTyped, TickTyped, Worlds
  <2>10. Timely(Current.era, Current.simGameDay)' /\ (poll.pc # "idle" => Timely(sched.era, poll.now)')
    BY <2>1, <2>2, <2>3, <2>4, <2>5, <2>9 DEF Schedule
  <2>11. sched.era <= era' /\ (sched.nextDue # NotDerived /\ sched.era = era' => sched.nextDue <= clock' + Interval)
    BY <1>t, <2>1, <2>2, <2>5 DEF Schedule
  <2> QED BY <1>t, <2>1, <2>2, <2>3, <2>6, <2>7, <2>8, <2>10, <2>11 DEF Schedule, jobVars, worldVars
<1> QED BY <1>1, PollOnSchedule, TickOnSchedule, LoadOnSchedule DEF Next

LEMMA NextImageFollows ==
  ASSUME ~Races, IInv, Backlog, LoadQuiet, DaysKnown, Staging, OnSchedule, ImageFollows, [Next]_vars
  PROVE  ImageFollows'
<1>1. CASE ~TickNext /\ ~LoadNext
  <2>1. UNCHANGED <<tick, live, pending, snapshot, main>>
    BY <1>1, OtherSteps
  <2>2. tick.pc # "idle" /\ IsCancelled => IsCancelled'
    <3>1. CASE PollEnqueue
      <4> DEFINE fresh == Handles \ (outstanding \cup main.cancelling)
                 g == CHOOSE x \in fresh : TRUE
      <4>1. fresh # {} /\ cancelled' = cancelled \ {g}
        BY <3>1 DEF PollEnqueue
      <4>2. g \notin outstanding
        BY <4>1
      <4> HIDE DEF g
      <4> QED BY <2>1, <4>1, <4>2, InHand DEF IsCancelled
    <3>2. CASE ~PollEnqueue
      BY <1>1, <2>1, <3>2 DEF Next, PollNext, PollDerive, PollCollect, PollDrop, OnSave, ClockMoves,
        ClockSetBack, vars, jobVars, IsCancelled
    <3> QED BY <3>1, <3>2
  <2>3. tick.pc \in {"check"} \cup HeldSteps => tick.pc # "idle"
    BY DEF HeldSteps
  <2> QED BY <2>1, <2>2, <2>3 DEF ImageFollows, Past, LoadIsOn
<1> QED BY <1>1, TickImageFollows, LoadImageFollows

\* All of it.
SessionInv == LoadQuiet /\ DaysKnown /\ Staging /\ LoadClock /\ OnSchedule /\ ImageFollows

LEMMA InitSession == Init => SessionInv
<1> SUFFICES ASSUME Init PROVE SessionInv
  OBVIOUS
<1>1. /\ main.pc = "play" /\ main.cancelling = {} /\ main.loads = 0
      /\ poll.pc = "idle" /\ poll.due = <<>> /\ tick.pc = "idle"
      /\ clock = 0 /\ era = 0 /\ sched.nextDue = NotDerived /\ sched.anchor = 0 /\ sched.era = 0
      /\ outstanding = {} /\ pending = NewWorld /\ snapshot = NewWorld
      /\ saved.world = NewWorld /\ saved.day = 0 /\ saved.era = 0
  BY DEF Init, InPlay, IdlePoll, IdleTick
<1>2. FreshWorld(0) \in Worlds /\ NewWorld = [FreshWorld(0) EXCEPT !.simGameDay = 0]
  BY FreshIsWorld DEF NewWorld
<1>3. NewWorld \in Worlds /\ NewWorld.simGameDay = 0 /\ NewWorld.session = 0 /\ NewWorld.era = 0
  <2>1. FreshWorld(0).session = 0 /\ FreshWorld(0).era = 0
    BY DEF FreshWorld
  <2> HIDE DEF FreshWorld
  <2> QED BY <1>2, <2>1 DEF Worlds
<1>4. NewWorld # NoWorld
  BY <1>3, WorldIsSome
<1>5. ~Past /\ ~LoadIsOn /\ ~Unguarded
  BY <1>1 DEF Past, LoadIsOn, Unguarded
<1> HIDE DEF NewWorld
<1>6. LoadQuiet /\ DaysKnown
  BY <1>1, <1>3, <1>5 DEF LoadQuiet, DaysKnown, HeldSteps, EarlySteps
<1>7. Staging /\ LoadClock
  BY <1>1, <1>3, <1>5 DEF Staging, LoadClock, BeforeRecords, Reverted
<1>8. OnSchedule
  BY <1>1, <1>3, <1>4, <1>5 DEF OnSchedule, Schedule, Current, Timely
<1>9. ImageFollows
  BY <1>1, <1>3, <1>4 DEF ImageFollows, HeldSteps
<1> QED BY <1>6, <1>7, <1>8, <1>9 DEF SessionInv

LEMMA SessionHolds == ASSUME ~Races PROVE Spec => [](IInv /\ SessionInv)
<1>1. IInv /\ Backlog /\ SessionInv /\ [Next]_vars => SessionInv'
  BY NextKeepsQuiet, NextKeepsDays, NextKeepsStaging, NextKeepsClock, NextKeepsSchedule,
    NextImageFollows DEF SessionInv
<1> QED BY <1>1, InitSession, Invariance, BacklogHolds, PTL DEF Spec

\* While the player plays, the image every reader and every save takes is of
\* the world this load staged: a worker of the world before cannot publish
\* over it.
THEOREM SnapshotIsCurrent == ASSUME ~Races PROVE Spec => []SnapshotCurrent
<1>1. SessionInv => SnapshotCurrent
  BY DEF SessionInv, ImageFollows, SnapshotCurrent
<1> QED BY <1>1, SessionHolds, PTL

\* At a session start that found both records the staged world is the saved
\* one whole: neither revert, nor the other record, nor the worker has
\* touched what a record put there.
THEOREM LoadedWorldIsWhole == ASSUME ~Races PROVE Spec => []StagedComplete
<1>1. SessionInv => StagedComplete
  BY DEF SessionInv, Staging, DaysKnown, BothRead, SavedWorld, StagedComplete
<1> QED BY <1>1, SessionHolds, PTL

\* While the player plays every new image is of a later day and has every
\* rumor told the one before it had, or is the first of those scheduled since
\* the player set the clock back: a tick of the time before that is never
\* published after one of the time since.
THEOREM ImagesGoForward == ASSUME ~Races PROVE Spec => ImageForward
<1>1. IInv /\ SessionInv /\ [Next]_vars =>
        (main.pc = "play" /\ snapshot' # snapshot =>
           \/ snapshot'.era > snapshot.era
           \/ /\ snapshot'.era = snapshot.era
              /\ snapshot'.simGameDay > snapshot.simGameDay
              /\ snapshot.told \subseteq snapshot'.told)
  <2> SUFFICES ASSUME IInv, SessionInv, Next, main.pc = "play", snapshot' # snapshot
               PROVE  \/ snapshot'.era > snapshot.era
                      \/ /\ snapshot'.era = snapshot.era
                         /\ snapshot'.simGameDay > snapshot.simGameDay
                         /\ snapshot.told \subseteq snapshot'.told
    BY DEF vars, worldVars
  <2>1. AdoptPublish \/ PublishSnapshot
    BY SnapshotFrame DEF SessionPublish
  <2>2. snapshot' = live /\ tick.pc \in {"adopted", "publish"}
    BY <2>1 DEF AdoptPublish, PublishSnapshot
  <2>3. ~Past /\ pending = NoWorld
    BY <2>2 DEF SessionInv, ImageFollows, Past, LoadIsOn
  <2>4. /\ tick.pc = "publish" /\ Follows(live, snapshot)
        /\ Before(snapshot.era, snapshot.simGameDay, live.era, live.simGameDay)
    BY <2>2, <2>3 DEF SessionInv, ImageFollows, HeldSteps
  <2>5. /\ snapshot.simGameDay \in Nat /\ live.simGameDay \in Nat
        /\ snapshot.era \in Nat /\ live.era \in Nat
    BY <2>4, IInvParts DEF SessionInv, DaysKnown, HeldSteps, ImagesTyped, TickTyped, Worlds
  <2> QED BY <2>2, <2>4, <2>5 DEF Follows, Before
<1> QED BY <1>1, SessionHolds, PTL DEF Spec, ImageForward

-----------------------------------------------------------------------------
(* Memory.  The ledger forgets an entry only once the memory is too old to *)
(* be swept up again, so what it does not hold was never asked about or    *)
(* never will be.  That rests on days that go forward: a clock set back    *)
(* begins a new era, with nothing told or kept in it yet.                  *)

Late(w, m) == w.simGameDay - DayOf[m] > HarvestWindowDays

Holds(w, m) == w.claims[m] >= DayOf[m] + ClaimExpiryDays
HoldsEvents(w, m) ==
  \A e \in EventsOf[m] : /\ w.eventClaims[e].by = m
                         /\ w.eventClaims[e].expires >= DayOf[m] + ClaimExpiryDays

Remembered(w) ==
  /\ \A m \in w.told \cup w.kept : Late(w, m) \/ Holds(w, m)
  /\ \A m \in w.told : Late(w, m) \/ HoldsEvents(w, m)

LEMMA MemoryFacts ==
  ASSUME NEW m \in Memories
  PROVE  /\ DayOf[m] \in Nat /\ EventsOf[m] \subseteq Events /\ m # NoMemory
         /\ HarvestWindowDays \in Nat /\ ClaimExpiryDays \in Nat
         /\ ClaimExpiryDays > HarvestWindowDays
         /\ \A n \in Memories : Overlap(m, n) => DayOf[n] = DayOf[m]
BY ClaimConstants DEF Overlap

LEMMA WorldFacts ==
  ASSUME NEW w \in Worlds
  PROVE  /\ w.told \subseteq Memories /\ w.kept \subseteq Memories /\ w.simGameDay \in Int
         /\ \A m \in Memories : w.claims[m] \in Int
         /\ \A e \in Events : w.eventClaims[e].expires \in Int
BY DEF Worlds, Unclaimed

\* A later day, or fewer memories to remember.
LEMMA LaterRemembers ==
  ASSUME NEW w \in Worlds, NEW v \in Worlds, Remembered(w),
         v.claims = w.claims, v.eventClaims = w.eventClaims, v.told \subseteq w.told,
         v.kept \subseteq w.kept, w.simGameDay <= v.simGameDay
  PROVE  Remembered(v)
<1>1. ASSUME NEW m \in Memories, Late(w, m) PROVE Late(v, m)
  BY <1>1, MemoryFacts, WorldFacts DEF Late
<1>2. w.told \subseteq Memories /\ w.kept \subseteq Memories
  BY WorldFacts
<1> QED BY <1>1, <1>2 DEF Remembered, Holds, HoldsEvents

LEMMA NothingToRemember == ASSUME NEW w, w.told = {}, w.kept = {} PROVE Remembered(w)
BY DEF Remembered

LEMMA ClaimRemembers ==
  ASSUME NEW w \in Worlds, NEW m \in Memories, NEW day \in Nat, Remembered(w)
  PROVE  Remembered(Claim(w, m, day))
<1> DEFINE v == Claim(w, m, day)
<1>1. /\ v.told = w.told /\ v.kept = w.kept /\ v.simGameDay = w.simGameDay
      /\ \A n \in Memories : w.claims[n] # Unclaimed => v.claims[n] = w.claims[n]
      /\ \A e \in Events : w.eventClaims[e] # FreeEvent => v.eventClaims[e] = w.eventClaims[e]
  BY DEF Claim, Worlds, IsClaimed
<1> HIDE DEF v
<1>2. ASSUME NEW n \in Memories, Holds(w, n) PROVE Holds(v, n)
  <2>1. w.claims[n] # Unclaimed
    BY <1>2, MemoryFacts, WorldFacts DEF Holds, Unclaimed
  <2> QED BY <1>1, <1>2, <2>1 DEF Holds
<1>3. ASSUME NEW n \in Memories, HoldsEvents(w, n) PROVE HoldsEvents(v, n)
  <2>1. \A e \in EventsOf[n] : e \in Events /\ w.eventClaims[e] # FreeEvent
    BY <1>3, MemoryFacts DEF HoldsEvents, FreeEvent
  <2> QED BY <1>1, <1>3, <2>1 DEF HoldsEvents
<1>4. \A n : Late(v, n) <=> Late(w, n)
  BY <1>1 DEF Late
<1>5. Remembered(v)
  BY <1>1, <1>2, <1>3, <1>4, WorldFacts DEF Remembered
<1> QED BY <1>5 DEF v

LEMMA ReleaseRemembers ==
  ASSUME NEW w \in Worlds, NEW m \in Memories, m \notin w.told \cup w.kept, Remembered(w)
  PROVE  Remembered(Release(w, m)) /\ Remembered(ReleaseEvents(w, m))
<1>1. ASSUME NEW v, v.told = w.told, v.kept = w.kept, v.simGameDay = w.simGameDay,
             \A n \in Memories : n # m => v.claims[n] = w.claims[n],
             \A e \in Events : w.eventClaims[e].by # m => v.eventClaims[e] = w.eventClaims[e]
      PROVE  Remembered(v)
  <2>1. ASSUME NEW n \in w.told \cup w.kept PROVE n \in Memories /\ n # m /\ (Late(v, n) <=> Late(w, n))
    BY <1>1, <2>1, WorldFacts DEF Late
  <2>2. ASSUME NEW n \in w.told \cup w.kept, Holds(w, n) PROVE Holds(v, n)
    BY <1>1, <2>1, <2>2 DEF Holds
  <2>3. ASSUME NEW n \in w.told, HoldsEvents(w, n) PROVE HoldsEvents(v, n)
    <3>1. \A e \in EventsOf[n] : e \in Events /\ w.eventClaims[e].by # m
      BY <2>1, <2>3, MemoryFacts DEF HoldsEvents
    <3> QED BY <1>1, <2>3, <3>1 DEF HoldsEvents
  <2> QED BY <1>1, <2>1, <2>2, <2>3 DEF Remembered
<1>2. Remembered(Release(w, m))
  <2> DEFINE v == Release(w, m)
  <2>1. /\ v.told = w.told /\ v.kept = w.kept /\ v.simGameDay = w.simGameDay
        /\ \A n \in Memories : n # m => v.claims[n] = w.claims[n]
        /\ \A e \in Events : w.eventClaims[e].by # m => v.eventClaims[e] = w.eventClaims[e]
    BY DEF Release, ReleaseEvents, Worlds
  <2> HIDE DEF v
  <2>2. Remembered(v)
    BY <1>1, <2>1
  <2> QED BY <2>2 DEF v
<1>3. Remembered(ReleaseEvents(w, m))
  <2> DEFINE v == ReleaseEvents(w, m)
  <2>1. /\ v.told = w.told /\ v.kept = w.kept /\ v.simGameDay = w.simGameDay
        /\ \A n \in Memories : n # m => v.claims[n] = w.claims[n]
        /\ \A e \in Events : w.eventClaims[e].by # m => v.eventClaims[e] = w.eventClaims[e]
    BY DEF ReleaseEvents, Worlds
  <2> HIDE DEF v
  <2>2. Remembered(v)
    BY <1>1, <2>1
  <2> QED BY <2>2 DEF v
<1> QED BY <1>2, <1>3

\* Nothing lapses by the world's own day that a sweep of that day could still
\* take: the expiry is longer than the window.
LEMMA SweepRemembers ==
  ASSUME NEW w \in Worlds, Remembered(w)
  PROVE  Remembered(SweepClaims(w, w.simGameDay))
<1> DEFINE v == SweepClaims(w, w.simGameDay)
<1>1. /\ v.told = w.told /\ v.kept = w.kept /\ v.simGameDay = w.simGameDay
      /\ \A n \in Memories : w.claims[n] > w.simGameDay => v.claims[n] = w.claims[n]
      /\ \A e \in Events :
           w.eventClaims[e].expires > w.simGameDay => v.eventClaims[e] = w.eventClaims[e]
  <2>1. \A n \in Memories : w.claims[n] > w.simGameDay => ~(w.claims[n] <= w.simGameDay)
    BY WorldFacts
  <2>2. \A e \in Events : w.eventClaims[e].expires > w.simGameDay
                            => ~(w.eventClaims[e].expires <= w.simGameDay)
    BY WorldFacts
  <2> QED BY <2>1, <2>2 DEF SweepClaims, Worlds
<1> HIDE DEF v
<1>2. ASSUME NEW n \in Memories, ~Late(w, n), NEW x \in Int, x >= DayOf[n] + ClaimExpiryDays
      PROVE  x > w.simGameDay
  BY <1>2, MemoryFacts, WorldFacts DEF Late
<1>3. \A n : Late(v, n) <=> Late(w, n)
  BY <1>1 DEF Late
<1>4. ASSUME NEW n \in Memories, ~Late(w, n), Holds(w, n) PROVE Holds(v, n)
  BY <1>1, <1>2, <1>4, WorldFacts DEF Holds
<1>5. ASSUME NEW n \in Memories, ~Late(w, n), HoldsEvents(w, n) PROVE HoldsEvents(v, n)
  <2>1. \A e \in EventsOf[n] : e \in Events /\ w.eventClaims[e].expires > w.simGameDay
    BY <1>2, <1>5, MemoryFacts, WorldFacts DEF HoldsEvents
  <2> QED BY <1>1, <1>5, <2>1 DEF HoldsEvents
<1>6. Remembered(v)
  BY <1>1, <1>3, <1>4, <1>5, WorldFacts DEF Remembered
<1> QED BY <1>6 DEF v

\* A memory in the window that the ledger does not hold is new to this world.
LEMMA FreeIsNew ==
  ASSUME NEW w \in Worlds, NEW m \in Memories, Remembered(w), Free(w, m), ~Late(w, m)
  PROVE  m \notin w.told \cup w.kept /\ \A n \in w.told : ~Overlap(n, m)
<1>1. ~Holds(w, m)
  BY MemoryFacts, WorldFacts DEF Free, IsClaimed, Holds, Unclaimed
<1>2. ASSUME NEW n \in w.told, Overlap(n, m) PROVE FALSE
  <2>1. n \in Memories
    BY WorldFacts
  <2>2. ~Late(w, n)
    BY <1>2, <2>1, MemoryFacts DEF Late
  <2>3. HoldsEvents(w, n)
    BY <2>2 DEF Remembered
  <2>4. PICK e \in EventsOf[n] \cap EventsOf[m] : TRUE
    BY <1>2 DEF Overlap
  <2>5. w.eventClaims[e] # FreeEvent
    BY <2>1, <2>3, <2>4, MemoryFacts DEF HoldsEvents, FreeEvent
  <2> QED BY <2>4, <2>5 DEF Free, AreEventsClaimed
<1> QED BY <1>1, <1>2 DEF Remembered

Stamped == tick.pc \in {"sweep", "walk", "evaluate", "compose"}
InWindow(m) ==
  DayOf[m] <= asOf[tick.handle] /\ asOf[tick.handle] - DayOf[m] <= HarvestWindowDays

\* The worker's sweep is of the world's own day, and what it is asking about
\* is in the ledger and nowhere else.
Asks ==
  /\ Stamped => live.simGameDay = asOf[tick.handle]
  /\ Walking => \A m \in tick.pool : InWindow(m)
  /\ Asking => /\ InWindow(tick.memory)
               /\ tick.memory \notin live.told \cup live.kept
               /\ live.claims[tick.memory] = asOf[tick.handle] + ClaimExpiryDays
               /\ \A e \in EventsOf[tick.memory] :
                    live.eventClaims[e] = [expires |-> asOf[tick.handle] + ClaimExpiryDays,
                                           by |-> tick.memory]
               /\ \A m \in live.told : ~Overlap(m, tick.memory)

WorldsRemember ==
  /\ Remembered(live) /\ Remembered(snapshot) /\ Remembered(saved.world)
  /\ pending # NoWorld /\ main.pc \notin {"touch", "clear"} => Remembered(pending)

LEMMA SettledRemembers ==
  ASSUME IInv, Remembered(live), Asks, Asking,
         EvalKeepsMemoryOnly \/ EvalDuplicate \/ live' = Tell(live, tick.memory)
  PROVE  Remembered(live')
<1> DEFINE m == tick.memory
<1>t. /\ live \in Worlds /\ m \in Memories /\ asOf[tick.handle] \in Nat
      /\ m \notin live.told \cup live.kept
  BY IInvParts DEF TickTyped, JobsTyped, Asking, Asks
<1>1. Holds(live, m) /\ HoldsEvents(live, m)
  <2>1. asOf[tick.handle] + ClaimExpiryDays >= DayOf[m] + ClaimExpiryDays
    BY <1>t, MemoryFacts DEF Asks, InWindow
  <2> QED BY <2>1 DEF Asks, Holds, HoldsEvents
<1>2. CASE EvalKeepsMemoryOnly
  <2> DEFINE w == ReleaseEvents(live, m)
  <2>1. w \in Worlds /\ Remembered(w) /\ w.claims = live.claims /\ w.told = live.told /\ w.kept = live.kept
    <3>1. w \in Worlds /\ Remembered(w)
      <4> HIDE DEF ReleaseEvents
      <4> QED BY <1>t, ReleaseIsWorld, ReleaseRemembers
    <3>2. w.claims = live.claims /\ w.told = live.told /\ w.kept = live.kept
      BY <1>t DEF ReleaseEvents, Worlds
    <3> QED BY <3>1, <3>2
  <2>2. live' = [w EXCEPT !.kept = @ \cup {m}]
    BY <1>2 DEF EvalKeepsMemoryOnly
  <2> HIDE DEF w
  <2>3. /\ live'.claims = w.claims /\ live'.eventClaims = w.eventClaims /\ live'.told = w.told
        /\ live'.kept = w.kept \cup {m} /\ live'.simGameDay = w.simGameDay
    BY <2>1, <2>2 DEF Worlds
  <2> QED BY <1>1, <2>1, <2>3 DEF Remembered, Holds, HoldsEvents, Late
<1>3. CASE EvalDuplicate \/ live' = Tell(live, tick.memory)
  <2>1. /\ live'.claims = live.claims /\ live'.eventClaims = live.eventClaims
        /\ live'.simGameDay = live.simGameDay
        /\ live'.told \subseteq live.told \cup {m}
        /\ live'.told \cup live'.kept \subseteq live.told \cup live.kept \cup {m}
    <3>1. CASE EvalDuplicate
      BY <1>t, <3>1 DEF EvalDuplicate, Worlds
    <3>2. CASE live' = Tell(live, tick.memory)
      BY <1>t, <3>2 DEF Tell, Worlds
    <3> QED BY <1>3, <3>1, <3>2
  <2> QED BY <1>1, <2>1 DEF Remembered, Holds, HoldsEvents, Late
<1> QED BY <1>2, <1>3

LEMMA WorkerRemembers ==
  ASSUME ~Races, IInv, Backlog, PoolFree, SessionInv, WorldsRemember, Asks, TickNext
  PROVE  Remembered(live') /\ Asks'
<1>t. /\ TickTyped /\ JobsTyped /\ ImagesTyped
      /\ tick.pc # "forget" => UNCHANGED <<asOf, eraOf>>
      /\ tick.pc # "idle" => asOf[tick.handle] \in Nat
  <2>1. TickTyped /\ JobsTyped /\ ImagesTyped /\ (tick.pc # "forget" => UNCHANGED <<asOf, eraOf>>)
    BY IInvParts, TickMoves
  <2> QED BY <2>1 DEF TickTyped, JobsTyped
<1>r. Remembered(live) /\ live \in Worlds
  BY <1>t DEF WorldsRemember, TickTyped
<1>1. ASSUME ~Stamped' PROVE Asks'
  BY <1>1 DEF Asks, Stamped, Walking, Asking
<1>2. ASSUME Walking, tick'.pc = "walk", tick'.pool \subseteq tick.pool, tick'.handle = tick.handle,
             live'.simGameDay = live.simGameDay
      PROVE  Asks'
  BY <1>t, <1>2 DEF Asks, Stamped, Walking, Asking, InWindow
<1>3. CASE TickPop \/ TickSkip \/ TickEnter \/ AdoptPublish \/ TickAbandoned \/ SweepDeferred \/ JobThrows
           \/ WalkEnds \/ AdvanceBegins \/ DrainAbandoned \/ TickCompletes \/ PublishSnapshot \/ Forget
  <2>1. live' = live /\ ~Stamped'
    <3>1. CASE TickPop \/ Forget
      BY <3>1, PopTakesHead DEF TickPop, Forget, IdleTick, worldVars, Stamped
    <3>2. CASE TickSkip \/ TickEnter \/ AdoptPublish \/ TickAbandoned \/ SweepDeferred \/ JobThrows
      BY <1>t, <3>2 DEF TickSkip, TickEnter, AdoptPublish, TickAbandoned, SweepDeferred, JobThrows, TickGoes,
        TickTyped, Stamped
    <3>3. CASE WalkEnds \/ AdvanceBegins \/ DrainAbandoned \/ TickCompletes \/ PublishSnapshot
      BY <1>t, <3>3 DEF WalkEnds, AdvanceBegins, DrainAbandoned, TickCompletes, PublishSnapshot, TickGoes,
        TickTyped, Stamped
    <3> QED BY <1>3, <3>1, <3>2, <3>3
  <2> QED BY <1>r, <1>1, <2>1
<1>4. CASE AdoptPendingState
  <2>1. /\ tick.pc = "adopt" /\ ~Stamped'
        /\ live' = live \/ (pending # NoWorld /\ live' = pending)
    BY <1>t, <1>4 DEF AdoptPendingState, Staged, TickGoes, TickTyped, Stamped
  <2>2. main.pc \notin {"touch", "clear"}
    BY <2>1 DEF SessionInv, LoadQuiet, Past, LoadIsOn, Unguarded
  <2> QED BY <1>r, <1>1, <2>1, <2>2 DEF WorldsRemember
<1>5. CASE SetHorizon
  <2>1. /\ tick.pc = "check" /\ ~IsCancelled /\ tick'.pc = "sweep" /\ tick'.handle = tick.handle
        /\ live' = SetClock(live, eraOf[tick.handle], asOf[tick.handle])
    BY <1>t, <1>5 DEF SetHorizon, TickGoes, TickTyped
  <2>2. tick.handle \in outstanding
    BY <2>1, InHand
  <2>3. ~Past /\ pending = NoWorld
    BY <2>1, <2>2 DEF SessionInv, LoadQuiet, ImageFollows, IsCancelled
  <2>4. Before(live.era, live.simGameDay, eraOf[tick.handle], asOf[tick.handle])
    BY <2>1, <2>2, <2>3 DEF SessionInv, OnSchedule, Schedule, InHandAhead, Fresh, Current, IsCancelled
  <2>5. eraOf[tick.handle] \in Nat /\ asOf[tick.handle] \in Nat
    BY <1>t, <2>1 DEF JobsTyped, TickTyped
  <2>6. live'.simGameDay = asOf[tick.handle] /\ live' \in Worlds
    <3>1. SetClock(live, eraOf[tick.handle], asOf[tick.handle]) \in Worlds
      BY <1>r, <2>5, ClockIsWorld
    <3>2. SetClock(live, eraOf[tick.handle], asOf[tick.handle]).simGameDay = asOf[tick.handle]
      BY <1>r, <2>5, ClockIsSet
    <3> QED BY <2>1, <3>1, <3>2
  <2>7. Asks'
    BY <1>t, <2>1, <2>6 DEF Asks, Walking, Asking
  <2>8. CASE eraOf[tick.handle] = live.era
    <3>1. live.simGameDay < asOf[tick.handle] /\ live.simGameDay \in Int
      BY <1>r, <2>4, <2>5, <2>8, WorldFacts DEF Before, Worlds
    <3>2. live' = [live EXCEPT !.simGameDay = asOf[tick.handle]]
      BY <2>1, <2>8 DEF SetClock
    <3>3. /\ live'.claims = live.claims /\ live'.eventClaims = live.eventClaims
          /\ live'.told = live.told /\ live'.kept = live.kept
      BY <1>r, <3>2 DEF Worlds
    <3>4. live.simGameDay <= live'.simGameDay
      BY <2>5, <2>6, <3>1
    <3> QED BY <1>r, <2>6, <2>7, <3>3, <3>4, LaterRemembers
  <2>9. CASE eraOf[tick.handle] # live.era
    <3>1. live'.told = {} /\ live'.kept = {}
      BY <1>r, <2>1, <2>9 DEF SetClock, Worlds
    <3> QED BY <2>7, <3>1, NothingToRemember
  <2> QED BY <2>8, <2>9
<1>6. CASE SweepPool
  <2>1. /\ tick.pc = "sweep" /\ tick'.pc = "walk" /\ live' = live /\ tick'.handle = tick.handle
        /\ \A m \in tick'.pool : Qualifies(live, m, asOf[tick.handle])
    BY <1>t, <1>6 DEF SweepPool, TickTyped
  <2> QED BY <1>r, <1>t, <2>1 DEF Asks, Stamped, Walking, Asking, InWindow, Qualifies
<1>7. CASE WalkCandidate
  <2>1. PICK m \in tick.pool :
          IF IsClaimed(live, m) \/ AreEventsClaimed(live, m)
            THEN tick' = [tick EXCEPT !.pool = @ \ {m}] /\ UNCHANGED live
            ELSE /\ live' = Claim(live, m, asOf[tick.handle])
                 /\ tick' = [tick EXCEPT !.pc = "evaluate", !.pool = @ \ {m}, !.memory = m]
    BY <1>7 DEF WalkCandidate
  <2>2. /\ m \in Memories /\ Walking /\ Stamped /\ asOf[tick.handle] \in Nat /\ tick.pc = "walk"
        /\ Free(live, m) /\ InWindow(m) /\ live.simGameDay = asOf[tick.handle]
    BY <1>t, <1>7 DEF WalkCandidate, TickTyped, Walking, Stamped, PoolFree, Asks
  <2>3. /\ live' = Claim(live, m, asOf[tick.handle])
        /\ tick'.pc = "evaluate" /\ tick'.memory = m /\ tick'.pool = tick.pool \ {m}
        /\ tick'.handle = tick.handle
    BY <1>t, <2>1, <2>2 DEF Free, TickTyped
  <2>4. m \notin live.told \cup live.kept /\ \A n \in live.told : ~Overlap(n, m)
    <3>1. ~Late(live, m)
      BY <2>2, MemoryFacts DEF Late, InWindow
    <3> QED BY <1>r, <2>2, <3>1, FreeIsNew
  <2>5. /\ live'.told = live.told /\ live'.kept = live.kept /\ live'.simGameDay = live.simGameDay
        /\ live'.claims[m] = asOf[tick.handle] + ClaimExpiryDays
    BY <1>r, <2>2, <2>3 DEF Claim, Worlds, Free
  <2>6. \A e \in EventsOf[m] :
          live'.eventClaims[e] = [expires |-> asOf[tick.handle] + ClaimExpiryDays, by |-> m]
    <3>1. \A e \in EventsOf[m] : e \in Events /\ live.eventClaims[e] = FreeEvent
      BY <2>2, MemoryFacts DEF Free, AreEventsClaimed
    <3> QED BY <1>r, <2>3, <3>1 DEF Claim, Worlds
  <2>7. Remembered(live')
    <3> HIDE DEF Claim
    <3> QED BY <1>r, <2>2, <2>3, ClaimRemembers
  <2>8. Asks'
    BY <1>t, <2>2, <2>3, <2>4, <2>5, <2>6 DEF Asks, Stamped, Walking, Asking, InWindow
  <2> QED BY <2>7, <2>8
<1>8. CASE EvalCancelled \/ EvalUnusable \/ ComposeFails
  <2>1. /\ Asking /\ live' = Release(live, tick.memory) /\ tick.memory \in Memories
        /\ tick'.handle = tick.handle
        /\ tick'.pc = "swept" \/ (tick'.pc = "walk" /\ tick'.pool = tick.pool)
    BY <1>t, <1>8 DEF EvalCancelled, EvalUnusable, ComposeFails, Settle, TickTyped, Asking
  <2>2. tick.memory \notin live.told \cup live.kept
    BY <2>1 DEF Asks
  <2>3. Remembered(live')
    BY <1>r, <2>1, <2>2, ReleaseRemembers
  <2>4. live'.simGameDay = live.simGameDay
    BY <1>r, <2>1 DEF Release, ReleaseEvents, Worlds
  <2>5. Asks'
    BY <1>1, <1>2, <2>1, <2>4 DEF Stamped, Walking, Asking
  <2> QED BY <2>3, <2>5
<1>9. CASE EvalKeepsMemoryOnly \/ EvalDuplicate \/ ComposeSeeds
  <2>0. ComposeSeeds => live' = Tell(live, tick.memory)
    BY DEF ComposeSeeds
  <2>1. /\ Asking /\ tick'.handle = tick.handle /\ tick'.pc = "walk" /\ tick'.pool = tick.pool
    BY <1>t, <1>9 DEF EvalKeepsMemoryOnly, EvalDuplicate, ComposeSeeds, Settle, TickTyped, Asking
  <2>2. Remembered(live')
    BY <1>r, <1>9, <2>0, <2>1, SettledRemembers
  <2>3. live'.simGameDay = live.simGameDay
    <3>1. CASE EvalKeepsMemoryOnly
      BY <1>r, <3>1 DEF EvalKeepsMemoryOnly, ReleaseEvents, Worlds
    <3>2. CASE EvalDuplicate
      BY <1>r, <3>2 DEF EvalDuplicate, Worlds
    <3>3. CASE ComposeSeeds
      BY <1>r, <3>3 DEF ComposeSeeds, Tell, Worlds
    <3> QED BY <1>9, <3>1, <3>2, <3>3
  <2>4. Asks'
    BY <1>2, <2>1, <2>3 DEF Walking, Asking
  <2> QED BY <2>2, <2>4
<1>10. CASE EvalSeeds
  <2>1. /\ tick.pc = "evaluate" /\ live' = live
        /\ tick' = [tick EXCEPT !.pc = "compose"]
    BY <1>10 DEF EvalSeeds, TickGoes
  <2>2. /\ tick'.pc = "compose" /\ tick'.handle = tick.handle /\ tick'.memory = tick.memory
        /\ tick'.pool = tick.pool
    BY <1>t, <2>1 DEF TickTyped
  <2> QED BY <1>r, <1>t, <2>1, <2>2 DEF Asks, Stamped, Walking, Asking, InWindow
<1>11. CASE DrainBurnout \/ SweepAndReap
  <2>1. ~Stamped'
    BY <1>t, <1>11 DEF DrainBurnout, SweepAndReap, TickGoes, TickTyped, Stamped
  <2>2. CASE SweepAndReap
    <3>1. live' = SweepClaims(live, live.simGameDay)
      BY <2>2 DEF SweepAndReap
    <3> QED BY <1>r, <1>1, <2>1, <3>1, SweepRemembers
  <2>3. CASE DrainBurnout
    <3>1. PICK m \in live.rumors : live' = [live EXCEPT !.rumors = @ \ {m}]
      BY <2>3 DEF DrainBurnout
    <3>2. /\ live'.claims = live.claims /\ live'.eventClaims = live.eventClaims
          /\ live'.told = live.told /\ live'.kept = live.kept /\ live'.simGameDay = live.simGameDay
      BY <1>r, <3>1 DEF Worlds
    <3>3. Remembered(live')
      BY <1>r, <3>2 DEF Remembered, Late, Holds, HoldsEvents
    <3> QED BY <1>1, <2>1, <3>3
  <2> QED BY <1>11, <2>2, <2>3
<1>12. CASE EvalThrows \/ ComposeThrows
  <2>1. Asking /\ ~Stamped'
    BY <1>t, <1>12 DEF EvalThrows, ComposeThrows, TickGoes, TickTyped, Asking, Stamped
  <2>2. live' = Leave(live, tick.memory) \/ live' = Tell(live, tick.memory)
    BY <1>12 DEF EvalThrows, ComposeThrows
  <2>3. CASE live' = Leave(live, tick.memory)
    <3>1. /\ live'.claims = live.claims /\ live'.eventClaims = live.eventClaims
          /\ live'.told = live.told /\ live'.kept = live.kept /\ live'.simGameDay = live.simGameDay
      BY <1>r, <2>3 DEF Leave, Worlds
    <3>2. Remembered(live')
      BY <1>r, <3>1 DEF Remembered, Late, Holds, HoldsEvents
    <3> QED BY <1>1, <2>1, <3>2
  <2>4. CASE live' = Tell(live, tick.memory)
    BY <1>1, <1>r, <2>1, <2>4, SettledRemembers
  <2> QED BY <2>2, <2>3, <2>4
<1> QED BY <1>3, <1>4, <1>5, <1>6, <1>7, <1>8, <1>9, <1>10, <1>11, <1>12
      DEF TickNext, SweepNext, WalkNext, EvalNext, ComposeNext, AdvanceNext

LEMMA StagedRemembers ==
  ASSUME ~Races, IInv, SessionInv, WorldsRemember, LoadNext
  PROVE  pending' # NoWorld /\ main'.pc \notin {"touch", "clear"} => Remembered(pending')
<1>t. MainTyped /\ ImagesTyped /\ saved.world \in Worlds
  BY IInvParts DEF MainTyped
<1>1. CASE LoadBegin \/ CancelAll \/ CancelFlags \/ EngineLoads \/ LoadNothing \/ SessionPublish
           \/ SessionSchedule
  BY <1>1 DEF LoadBegin, CancelAll, CancelFlags, EngineLoads, LoadNothing, SessionPublish,
    SessionSchedule, worldVars, WorldsRemember
<1>2. CASE RevertSim \/ RevertTouch
  BY <1>t, <1>2 DEF RevertSim, RevertTouch, MainGoes, MainTyped
<1>s. ASSUME main.pc \in {"clear", "simRecord", "touchClaims", "claimsRecord", "session"}
      PROVE  Staged = pending /\ pending \in Worlds /\ pending # NoWorld
  BY <1>s, PastIsStaged DEF SessionInv, LoadQuiet, Past, LoadIsOn, EarlySteps
<1>3. CASE RevertClaims \/ LoadClaimsShort
  <2>1. pending' = NoLedger(pending) /\ pending \in Worlds
    BY <1>3, <1>s DEF RevertClaims, LoadClaimsShort, WriteStaged
  <2>2. pending'.told = {} /\ pending'.kept = {}
    BY <2>1 DEF NoLedger, Worlds
  <2> QED BY <2>2, NothingToRemember
<1>4. CASE LoadSim \/ LoadSimShort
  <2>1. main.pc = "simRecord" /\ pending = FreshWorld(main.loads) /\ Staged = pending
    BY <1>4, <1>s DEF LoadSim, LoadSimShort, SessionInv, Staging, Reverted, Past, LoadIsOn, LoadQuiet,
      EarlySteps, BeforeRecords
  <2>2. pending'.told = {} /\ pending'.kept = {}
    <3>1. pending.told = {} /\ pending.kept = {} /\ pending \in Worlds
      BY <1>s, <2>1 DEF FreshWorld
    <3>2. CASE LoadSim
      BY <2>1, <3>1, <3>2 DEF LoadSim, Worlds
    <3>3. CASE LoadSimShort
      BY <2>1, <3>1, <3>3 DEF LoadSimShort, Worlds
    <3> QED BY <1>4, <3>2, <3>3
  <2> QED BY <2>2, NothingToRemember
<1>5. CASE LoadClaimsTouch
  <2>1. pending' = pending /\ main.pc = "touchClaims"
    BY <1>5, <1>s DEF LoadClaimsTouch
  <2> QED BY <2>1 DEF WorldsRemember
<1>6. CASE LoadClaims
  <2>1. /\ pending' = [pending EXCEPT !.claims = saved.world.claims,
                                      !.eventClaims = saved.world.eventClaims,
                                      !.told = saved.world.told, !.kept = saved.world.kept,
                                      !.left = saved.world.left]
        /\ main.pc = "claimsRecord" /\ pending \in Worlds
    BY <1>6, <1>s DEF LoadClaims, WriteStaged
  <2>2. pending.simGameDay = saved.world.simGameDay
    BY <2>1 DEF SessionInv, Staging
  <2>3. /\ pending'.claims = saved.world.claims /\ pending'.eventClaims = saved.world.eventClaims
        /\ pending'.told = saved.world.told /\ pending'.kept = saved.world.kept
        /\ pending'.simGameDay = saved.world.simGameDay
    BY <2>1, <2>2 DEF Worlds
  <2> QED BY <2>3 DEF WorldsRemember, Remembered, Late, Holds, HoldsEvents
<1>7. CASE SessionStart
  <2>1. /\ main.pc = "session" /\ pending \in Worlds /\ pending' \in Worlds
        /\ pending' = pending \/ (/\ pending' = [pending EXCEPT !.simGameDay = clock, !.era = era]
                                  /\ pending.simGameDay = -1)
    BY <1>7, StartSetsClock DEF SessionInv
  <2>2. Remembered(pending)
    BY <2>1, WorldIsSome DEF WorldsRemember
  <2>3. CASE pending' = pending
    BY <2>2, <2>3
  <2>4. CASE pending' # pending
    <3>1. /\ pending'.claims = pending.claims /\ pending'.eventClaims = pending.eventClaims
          /\ pending'.told = pending.told /\ pending'.kept = pending.kept
          /\ pending'.simGameDay = clock
      BY <2>1, <2>4 DEF Worlds
    <3>2. pending.simGameDay <= pending'.simGameDay
      BY <1>t, <2>1, <2>4, <3>1 DEF MainTyped
    <3> QED BY <2>1, <2>2, <3>1, <3>2, LaterRemembers
  <2> QED BY <2>3, <2>4
<1> QED BY <1>1, <1>2, <1>3, <1>4, <1>5, <1>6, <1>7 DEF LoadNext

LEMMA NextRemembers ==
  ASSUME ~Races, IInv, Backlog, PoolFree, SessionInv, WorldsRemember, Asks, [Next]_vars
  PROVE  WorldsRemember' /\ Asks'
<1>1. CASE TickNext
  <2>1. Remembered(live') /\ Asks' /\ UNCHANGED <<main, saved>>
    BY <1>1, WorkerRemembers, TickMoves
  <2>2. pending' \in {pending, NoWorld} /\ snapshot' \in {snapshot, live}
    BY <1>1, TickMoves DEF TickPop, TickEnter, AdoptPendingState, AdoptPublish, SetHorizon,
      TickCompletes, PublishSnapshot, Forget, Works, TickAlone, worldVars
  <2> QED BY <2>1, <2>2 DEF WorldsRemember
<1>2. CASE ~TickNext
  <2>1. UNCHANGED <<tick, live>>
    BY <1>2, TickFrame DEF vars, worldVars
  <2>2. tick.pc # "idle" => asOf'[tick.handle] = asOf[tick.handle]
    <3>1. CASE PollEnqueue
      <4> DEFINE fresh == Handles \ (outstanding \cup main.cancelling)
                 g == CHOOSE x \in fresh : TRUE
      <4>1. fresh # {} /\ asOf' = [asOf EXCEPT ![g] = Head(poll.due)]
        BY <3>1 DEF PollEnqueue
      <4>2. g \notin outstanding
        BY <4>1
      <4> HIDE DEF g, fresh
      <4>3. tick.pc # "idle" => tick.handle # g /\ tick.handle \in Handles
        BY <4>2, InHand, IInvParts DEF TickTyped
      <4>4. asOf \in [Handles -> Nat]
        BY IInvParts DEF JobsTyped
      <4> QED BY <4>1, <4>3, <4>4
    <3>2. CASE ~PollEnqueue
      BY <1>2, <3>2, JobFrame DEF CancelFlags, TickNext, vars, jobVars
    <3> QED BY <3>1, <3>2
  <2>3. Asks'
    BY <2>1, <2>2 DEF Asks, Stamped, Walking, Asking, InWindow
  <2>4. CASE LoadNext
    <3>1. snapshot' = snapshot \/ (main.pc = "image" /\ snapshot' = pending /\ pending # NoWorld)
      <4>1. CASE SessionPublish
        BY <4>1 DEF SessionPublish, SessionInv, DaysKnown, LoadQuiet, Past, LoadIsOn, EarlySteps
      <4>2. CASE ~SessionPublish
        BY <1>2, <2>4, <4>2, SnapshotFrame DEF TickNext, Next
      <4> QED BY <4>1, <4>2
    <3>2. saved' = saved
      BY <2>4 DEF LoadNext, MainAlone, LoadBegin, CancelAll, CancelFlags, RevertSim, RevertTouch, RevertClaims,
        EngineLoads, LoadSim, LoadSimShort, LoadClaimsTouch, LoadClaims, LoadClaimsShort, LoadNothing,
        SessionStart, SessionPublish, SessionSchedule
    <3> QED BY <2>1, <2>3, <2>4, <3>1, <3>2, StagedRemembers DEF WorldsRemember
  <2>5. CASE ~LoadNext
    <3>1. /\ UNCHANGED <<pending, snapshot, main>>
          /\ saved' = saved \/ saved'.world = snapshot
      BY <1>2, <2>5, OtherSteps
    <3> QED BY <2>1, <2>3, <3>1 DEF WorldsRemember
  <2> QED BY <2>4, <2>5
<1> QED BY <1>1, <1>2

LEMMA MemoryHolds == ASSUME ~Races PROVE Spec => [](WorldsRemember /\ Asks)
<1>1. Init => WorldsRemember /\ Asks
  <2> SUFFICES ASSUME Init PROVE WorldsRemember /\ Asks
    OBVIOUS
  <2>1. \A w \in {FreshWorld(0), NewWorld} : w.told = {} /\ w.kept = {}
    BY DEF FreshWorld, NewWorld
  <2>2. live \in {FreshWorld(0), NewWorld} /\ pending = NewWorld /\ snapshot = NewWorld
        /\ saved.world = NewWorld /\ tick.pc = "idle"
    BY DEF Init, IdleTick
  <2> HIDE DEF FreshWorld, NewWorld
  <2> QED BY <2>1, <2>2, NothingToRemember DEF WorldsRemember, Asks, Stamped, Walking, Asking
<1>2. IInv /\ Backlog /\ PoolFree /\ SessionInv /\ WorldsRemember /\ Asks /\ [Next]_vars
        => (WorldsRemember /\ Asks)'
  BY NextRemembers
<1> QED BY <1>1, <1>2, SessionHolds, BacklogHolds, PoolFreeHolds, PTL DEF Spec

\* A memory that became a rumor or was refused is never asked about again:
\* the ledger still holds it while a sweep could take it, over every tick,
\* expiry, save and load, until the player sets the clock back.
THEOREM NeverAskedTwice == ASSUME ~Races PROVE Spec => []AskedOnce
<1>1. Asks => AskedOnce
  BY DEF Asks, Asking, AskedOnce
<1> QED BY <1>1, MemoryHolds, PTL

\* One happening becomes one rumor, whichever of its witnesses is asked about
\* and however many ticks and loads lie between them, while time goes forward.
THEOREM OneRumorPerHappening == ASSUME ~Races PROVE Spec => []HappeningOnce
<1>1. Asks => HappeningOnce
  BY DEF Asks, Asking, HappeningOnce
<1> QED BY <1>1, MemoryHolds, PTL
=============================================================================
