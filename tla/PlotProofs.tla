----------------------------- MODULE PlotProofs -----------------------------
(***************************************************************************)
(* The plot simulation under its schedule, its dashboard and its loads,    *)
(* for every clock, backlog and number of loads, jobs that throw included. *)
(*                                                                         *)
(* The invariant follows a state from the image it is staged or saved in   *)
(* to the tick that adopts it: every image is good, and which world each   *)
(* is of is known.  What a load may meet halfway, a poll that has decided  *)
(* or a tick past its last check, is what late and overtaken record.       *)
(***************************************************************************)
EXTENDS PlotStateProofs

Pcs == {"idle", "start", "begin", "birth", "advance", "reap", "check", "publish", "retire",
        "forget"}
JobType  == [stamp: Nat, cancelled: BOOLEAN, late: BOOLEAN]
TickType == [pc: Pcs, stamp: Nat, cancelled: BOOLEAN, late: BOOLEAN, at: Nat]

ScheduleTyped ==
    /\ clock \in Nat /\ dead \subseteq NPC
    /\ lastFired \in Nat /\ needsRebase \in BOOLEAN /\ ticksEnabled \in BOOLEAN
    /\ forcedAhead \in Nat
    /\ poll \in [stamps: Seq(Nat), late: BOOLEAN]
    /\ saved.clock \in Nat /\ saved.dead \subseteq NPC
    /\ loading \in {"no", "revert", "read"} /\ world \in Nat /\ overtaken \in BOOLEAN

JobsTyped == queue \in Seq(JobType) /\ tick \in TickType

TurnIsActive == tick.pc = "advance" => tick.at \in ActiveIn(live)

ImagesGood ==
    /\ GoodState(live) /\ GoodState(published) /\ GoodState(saved.state)
    /\ pending # <<>> => pending = <<Head(pending)>> /\ GoodState(Head(pending))

(* The count covers what is queued and what runs, whatever is cancelled.   *)
Counted == outstandingTicks \in Nat /\ PendingTicksCounted

(* The world an image is of; during a load nothing is left that is of the  *)
(* session before it and does not know so.                                 *)
Simulating == {"begin", "birth", "advance", "reap", "check", "publish"}

WorldsKnown ==
    /\ IF pending = <<>> THEN live.world = world ELSE Head(pending).world = world
    /\ tick.pc \in Simulating /\ OfThisWorld(tick) => pending = <<>>
    /\ tick.pc = "publish" /\ tick.cancelled => overtaken
    /\ published.world = world \/ overtaken

LoadIsQuiet ==
    loading # "no" =>
        /\ \A k \in DOMAIN queue : ~OfThisWorld(queue[k])
        /\ tick.pc # "idle" => ~OfThisWorld(tick)
        /\ needsRebase \/ lastFired = clock
        /\ poll.stamps # <<>> => poll.late

(* A poll that no load came over decides on hours that have passed.        *)
Horizons ==
    /\ StampsWithinHorizon
    /\ loading = "no" /\ ~poll.late => \A k \in DOMAIN poll.stamps : poll.stamps[k] <= clock

IInv ==
    /\ ScheduleTyped /\ JobsTyped /\ TurnIsActive /\ ImagesGood
    /\ Counted /\ WorldsKnown /\ LoadIsQuiet /\ Horizons

-----------------------------------------------------------------------------
(* The arithmetic of a poll.                                               *)

LEMMA BoundariesWithin ==
    ASSUME NEW last \in Nat, NEW now \in Nat, last <= now
    PROVE  /\ (now - last) \div Interval \in Nat
           /\ Interval * ((now - last) \div Interval) <= now - last
           /\ now = last => (now - last) \div Interval = 0
BY PlotAssumption

LEMMA AdvanceDecides ==
    ASSUME NEW last \in Nat, NEW now \in Nat, NEW outstanding \in Nat
    PROVE  LET decision == Advance(last, now, outstanding)
           IN  /\ decision.newLast \in Nat /\ decision.stamps \in Seq(Nat)
               /\ \A k \in DOMAIN decision.stamps : decision.stamps[k] <= now
               /\ now = last => decision.stamps = <<>> /\ decision.newLast = last
<1> DEFINE boundaries == (now - last) \div Interval
           room == IF outstanding >= MaxOutstanding THEN 0 ELSE MaxOutstanding - outstanding
           fired == IF boundaries < room THEN boundaries ELSE room
           stamps == [k \in 1..fired |-> last + Interval * k]
<1>1. CASE now < last
  <2>1. Advance(last, now, outstanding) = [newLast |-> now, stamps |-> <<>>]
    BY <1>1 DEF Advance
  <2> QED BY <1>1, <2>1, EmptySeq
<1>2. CASE ~(now < last)
  <2>1. /\ boundaries \in Nat /\ Interval * boundaries <= now - last
        /\ now = last => boundaries = 0
    BY <1>2, BoundariesWithin
  <2>2. Advance(last, now, outstanding) =
          [newLast |-> last + Interval * boundaries, stamps |-> stamps]
    BY <1>2 DEF Advance
  <2> HIDE DEF boundaries
  <2>3. fired \in Nat /\ fired <= boundaries
    BY <2>1, PlotAssumption
  <2> HIDE DEF fired
  <2>4. \A k \in 1 .. fired : last + Interval * k \in Nat /\ last + Interval * k <= now
    <3> SUFFICES ASSUME NEW k \in 1 .. fired
                 PROVE  last + Interval * k \in Nat /\ last + Interval * k <= now
      OBVIOUS
    <3>1. k \in Nat /\ k <= boundaries /\ Interval \in Nat
      BY <2>1, <2>3, PlotAssumption
    <3>2. Interval * k <= Interval * boundaries /\ Interval * k \in Nat
      BY <2>1, <3>1
    <3> QED BY <2>1, <3>1, <3>2
  <2>5. stamps \in [1 .. fired -> Nat]
    BY <2>4
  <2>6. stamps \in Seq(Nat) /\ DOMAIN stamps = 1 .. fired
    BY <2>3, <2>5, SeqDef
  <2>7. last + Interval * boundaries \in Nat
    BY <2>1, PlotAssumption
  <2>8. now = last => stamps = <<>> /\ last + Interval * boundaries = last
    <3> SUFFICES ASSUME now = last PROVE stamps = <<>> /\ last + Interval * boundaries = last
      OBVIOUS
    <3>1. boundaries = 0 /\ fired = 0
      BY <2>1, <2>3
    <3>2. Len(stamps) = 0
      BY <2>5, <2>6, <3>1, LenProperties
    <3> QED BY <2>6, <3>1, <3>2, EmptySeq, PlotAssumption
  <2> HIDE DEF stamps
  <2>9. \A k \in DOMAIN stamps : stamps[k] <= now
    BY <2>4, <2>6 DEF stamps
  <2> QED BY <2>2, <2>6, <2>7, <2>8, <2>9
<1> QED BY <1>1, <1>2

-----------------------------------------------------------------------------
(* The worker's turn passes to a plot that is active, or to the reaper.    *)

LEMMA NextTurnTyped ==
    ASSUME NEW st, IsState(st), NEW at \in Nat, tick \in TickType
    PROVE  LET t == NextTurn(st, at)
           IN  /\ t \in TickType /\ t.pc \in {"reap", "advance"}
               /\ t.pc = "advance" => t.at \in ActiveIn(st) /\ t.at > at
               /\ t.stamp = tick.stamp /\ t.cancelled = tick.cancelled /\ t.late = tick.late
<1> DEFINE ahead == {id \in ActiveIn(st) : id > at}
<1>1. ahead \in SUBSET Nat
  BY DEF ActiveIn, IsState
<1>2. CASE ahead = {}
  BY <1>2 DEF NextTurn, At, TickType, Pcs
<1>3. CASE ahead # {}
  <2> DEFINE id == CHOOSE k \in ahead : \A other \in ahead : k <= other
  <2>1. id \in ahead
    BY <1>1, <1>3, LeastExists
  <2>2. NextTurn(st, at) = [tick EXCEPT !.pc = "advance", !.at = id]
    BY <1>3 DEF NextTurn
  <2> HIDE DEF id
  <2>3. id \in Nat /\ id \in ActiveIn(st) /\ id > at
    BY <1>1, <2>1
  <2> QED BY <2>2, <2>3 DEF TickType, Pcs
<1> QED BY <1>2, <1>3

-----------------------------------------------------------------------------
(* Which steps touch what.                                                 *)

LEMMA LiveFrame ==
    ASSUME [Next]_vars
    PROVE  \/ TakePendingState \/ BeginSimulation
           \/ \E m \in NPC, plan \in Plans : BirthPlot(m, plan)
           \/ tick.pc = "advance" /\ AdvancePlot
           \/ Reap
           \/ live' = live
BY DEF Next, Poll, PollEnqueue, ForceTicks, SetTicksEnabled, Worker, SkipCancelled, PopJob,
   BirthSkipped, AdvancePlot, EndAtOnce, DispatchTo, DispatchWait, DispatchImpossible,
   ToDispatch, Working, StepWorks, LeaveAlone, StepSucceeds, FinishFails, CapHit, Concede,
   Substitute, AdaptThrows, Adapting, Advancing, CheckBeforePublish, PublishSnapshot,
   RetireTick, Forget, JobThrows, Game, PassTime, Die, Save, PreLoadGame, OnRevert, OnLoad, vars

(* What a turn leaves, whatever comes of it.                               *)
LEMMA TurnFrame ==
    ASSUME AdvancePlot
    PROVE  /\ tick' = NextTurn(live', tick.at) \/ tick' = Idle
           /\ live'.world = live.world
           /\ UNCHANGED <<game, schedule, outstandingTicks, queue, images, overtaken>>
<1>1. (\E q, occ : Settle(q, occ)) \/ (\E p, outcome : AdaptThrows(p, outcome))
  BY DEF AdvancePlot, EndAtOnce, DispatchTo, DispatchWait, DispatchImpossible, StepWorks,
     LeaveAlone, StepSucceeds, FinishFails, CapHit, Concede, Substitute, SettleEnded
<1>2. CASE \E q, occ : Settle(q, occ)
  BY <1>2 DEF Settle
<1>3. CASE \E p, outcome : AdaptThrows(p, outcome)
  BY <1>3 DEF AdaptThrows
<1> QED BY <1>1, <1>2, <1>3

LEMMA LiveGood ==
    ASSUME ImagesGood, TurnIsActive, JobsTyped, [Next]_vars
    PROVE  GoodState(live')
<1>1. GoodState(live)
  BY DEF ImagesGood
<1>2. CASE TakePendingState
  BY <1>1, <1>2 DEF TakePendingState, ImagesGood
<1>3. CASE BeginSimulation
  <2>1. tick.stamp \in Nat
    BY DEF JobsTyped, TickType
  <2> QED BY <1>1, <1>3, <2>1, BeginGood DEF BeginSimulation
<1>4. CASE tick.pc = "advance" /\ AdvancePlot
  BY <1>1, <1>4, AdvanceGood DEF TurnIsActive
<1> QED BY <1>1, <1>2, <1>3, <1>4, LiveFrame, BirthGood, ReapGood

LEMMA ImagesStayGood ==
    ASSUME ImagesGood, TurnIsActive, JobsTyped, ScheduleTyped, [Next]_vars
    PROVE  ImagesGood'
<1>1. GoodState(live')
  BY LiveGood
<1>2. CASE PublishSnapshot
  BY <1>1, <1>2 DEF PublishSnapshot, ImagesGood
<1>3. CASE PreLoadGame \/ OnRevert \/ OnLoad
  <2>1. PICK st : StageLoadedState(st) /\ GoodState(st)
    <3>1. \A w \in Nat : GoodState(EmptyState(w))
      BY EmptyGood
    <3>2. world \in Nat /\ world + 1 \in Nat
      BY DEF ScheduleTyped
    <3>3. \A gone \in SUBSET DOMAIN saved.state.plots : GoodState(Restored(saved.state, gone))
      BY <3>2, RestoredGood DEF ImagesGood
    <3> QED BY <1>3, <3>1, <3>2, <3>3 DEF PreLoadGame, OnRevert, OnLoad
  <2>2. pending' = <<st>> /\ published' = st
    BY <2>1 DEF StageLoadedState
  <2>3. saved' = saved
    BY <1>3 DEF PreLoadGame, OnRevert, OnLoad
  <2> QED BY <1>1, <2>1, <2>2, <2>3 DEF ImagesGood
<1>4. CASE Save
  BY <1>1, <1>4 DEF Save, ImagesGood
<1>5. CASE TakePendingState
  BY <1>1, <1>5 DEF TakePendingState, ImagesGood
<1>6. CASE AdvancePlot
  BY <1>1, <1>6, TurnFrame DEF ImagesGood, images
<1>7. CASE UNCHANGED images
  BY <1>1, <1>7 DEF ImagesGood, images
<1>8. \/ PublishSnapshot \/ PreLoadGame \/ OnRevert \/ OnLoad \/ Save \/ TakePendingState
      \/ AdvancePlot \/ UNCHANGED images
  BY DEF Next, Poll, PollEnqueue, ForceTicks, SetTicksEnabled, Worker, SkipCancelled, PopJob,
     BeginSimulation, BirthSkipped, BirthPlot, Reap, CheckBeforePublish, RetireTick, Forget,
     JobThrows, Game, PassTime, Die, vars, images
<1> QED BY <1>2, <1>3, <1>4, <1>5, <1>6, <1>7, <1>8

-----------------------------------------------------------------------------
(* The jobs.                                                               *)

LEMMA EnqueueTyped ==
    ASSUME JobsTyped, NEW stamps \in Seq(Nat), NEW late \in BOOLEAN, Enqueue(stamps, late)
    PROVE  /\ queue' \in Seq(JobType) /\ Len(queue') = Len(queue) + Len(stamps)
           /\ Len(stamps) \in Nat /\ Len(queue) \in Nat
           /\ \A k \in DOMAIN queue' :
                \/ k \in DOMAIN queue /\ queue'[k] = queue[k]
                \/ \E j \in DOMAIN stamps :
                      queue'[k] = [stamp |-> stamps[j], cancelled |-> FALSE, late |-> late]
<1> DEFINE jobs == [k \in DOMAIN stamps |->
                      [stamp |-> stamps[k], cancelled |-> FALSE, late |-> late]]
<1>1. /\ Len(stamps) \in Nat /\ DOMAIN stamps = 1 .. Len(stamps) /\ queue \in Seq(JobType)
      /\ Len(queue) \in Nat /\ DOMAIN queue = 1 .. Len(queue)
      /\ \A k \in DOMAIN stamps : stamps[k] \in Nat
  BY LenProperties DEF JobsTyped
<1>2. jobs \in [1 .. Len(stamps) -> JobType]
  BY <1>1 DEF JobType
<1>3. jobs \in Seq(JobType)
  BY <1>1, <1>2, SeqDef
<1>4. Len(jobs) = Len(stamps)
  BY <1>1, <1>2, <1>3, LenProperties
<1>5. queue' = queue \o jobs
  BY DEF Enqueue
<1>6. \A k \in 1 .. Len(stamps) :
        jobs[k] = [stamp |-> stamps[k], cancelled |-> FALSE, late |-> late]
  BY <1>1
<1> HIDE DEF jobs
<1>7. /\ queue' \in Seq(JobType) /\ Len(queue') = Len(queue) + Len(stamps)
      /\ \A k \in 1 .. Len(queue) + Len(stamps) :
            queue'[k] = IF k <= Len(queue) THEN queue[k] ELSE jobs[k - Len(queue)]
  <2>1. /\ queue \o jobs \in Seq(JobType) /\ Len(queue \o jobs) = Len(queue) + Len(jobs)
        /\ \A k \in 1 .. Len(queue) + Len(jobs) :
              (queue \o jobs)[k] = IF k <= Len(queue) THEN queue[k] ELSE jobs[k - Len(queue)]
    BY <1>1, <1>3, ConcatProperties, Zenon
  <2> QED BY <1>4, <1>5, <2>1, Zenon
<1>8. DOMAIN queue' = 1 .. Len(queue')
  BY <1>7, LenProperties
<1>9. ASSUME NEW k \in DOMAIN queue'
      PROVE  \/ k \in DOMAIN queue /\ queue'[k] = queue[k]
             \/ \E j \in DOMAIN stamps :
                   queue'[k] = [stamp |-> stamps[j], cancelled |-> FALSE, late |-> late]
  <2>1. CASE k <= Len(queue)
    BY <1>1, <1>7, <1>8, <2>1
  <2>2. CASE ~(k <= Len(queue))
    <3>1. k - Len(queue) \in 1 .. Len(stamps) /\ queue'[k] = jobs[k - Len(queue)]
      BY <1>1, <1>7, <1>8, <2>2
    <3> QED BY <1>1, <1>6, <3>1
  <2> QED BY <2>1, <2>2
<1> QED BY <1>1, <1>7, <1>9

LEMMA PollStamps ==
    ASSUME ScheduleTyped
    PROVE  /\ [k \in DOMAIN poll.stamps |-> poll.stamps[k] + forcedAhead] \in Seq(Nat)
           /\ poll.late \in BOOLEAN
<1>1. poll.stamps \in Seq(Nat) /\ poll.late \in BOOLEAN /\ forcedAhead \in Nat
  BY DEF ScheduleTyped
<1>2. Len(poll.stamps) \in Nat /\ DOMAIN poll.stamps = 1 .. Len(poll.stamps)
      /\ \A k \in DOMAIN poll.stamps : poll.stamps[k] \in Nat
  BY <1>1, LenProperties
<1>3. [k \in DOMAIN poll.stamps |-> poll.stamps[k] + forcedAhead]
         \in [1 .. Len(poll.stamps) -> Nat]
  BY <1>1, <1>2
<1> QED BY <1>1, <1>2, <1>3, SeqDef

LEMMA ForcedStamps ==
    ASSUME ScheduleTyped, NEW count \in 1 .. MaxForced
    PROVE  /\ [k \in 1 .. count |-> clock + forcedAhead + Interval * k] \in Seq(Nat)
           /\ forcedAhead + Interval * count \in Nat
           /\ \A k \in 1 .. count :
                 clock + forcedAhead + Interval * k <= clock + (forcedAhead + Interval * count)
<1>1. /\ count \in Nat /\ Interval \in Nat /\ clock \in Nat /\ forcedAhead \in Nat
  BY PlotAssumption DEF ScheduleTyped
<1>2. \A k \in 1 .. count : Interval * k \in Nat /\ Interval * k <= Interval * count
  <2> SUFFICES ASSUME NEW k \in 1 .. count
               PROVE  Interval * k \in Nat /\ Interval * k <= Interval * count
    OBVIOUS
  <2>1. k \in Nat /\ k <= count
    BY <1>1
  <2> QED BY <1>1, <2>1
<1>3. Interval * count \in Nat
  BY <1>1
<1>4. [k \in 1 .. count |-> clock + forcedAhead + Interval * k] \in [1 .. count -> Nat]
  BY <1>1, <1>2
<1> QED BY <1>1, <1>2, <1>3, <1>4, SeqDef

(* The queue's first job, and what is behind it.                           *)
LEMMA HeadAndTail ==
    ASSUME JobsTyped, queue # <<>>
    PROVE  /\ Head(queue) \in JobType /\ 1 \in DOMAIN queue /\ Head(queue) = queue[1]
           /\ Tail(queue) \in Seq(JobType) /\ Len(queue) \in Nat \ {0}
           /\ Len(Tail(queue)) = Len(queue) - 1
           /\ \A k \in DOMAIN Tail(queue) : \E j \in DOMAIN queue : Tail(queue)[k] = queue[j]
<1>1. /\ queue \in Seq(JobType) /\ Len(queue) \in Nat \ {0} /\ DOMAIN queue = 1 .. Len(queue)
  BY LenProperties, EmptySeq DEF JobsTyped
<1>2. /\ Head(queue) \in JobType /\ Tail(queue) \in Seq(JobType)
      /\ Len(Tail(queue)) = Len(queue) - 1
      /\ \A k \in 1 .. Len(Tail(queue)) : Tail(queue)[k] = queue[k + 1]
  BY <1>1, HeadTailProperties
<1>3. DOMAIN Tail(queue) = 1 .. Len(Tail(queue))
  BY <1>2, LenProperties
<1>4. \A k \in DOMAIN Tail(queue) : Tail(queue)[k] = queue[k + 1] /\ k + 1 \in DOMAIN queue
  BY <1>1, <1>2, <1>3
<1>5. 1 \in DOMAIN queue /\ Head(queue) = queue[1]
  BY <1>1
<1> QED BY <1>1, <1>2, <1>4, <1>5

(* A load tells every job there is.                                        *)
LEMMA AllCancelled ==
    ASSUME JobsTyped, CancelAll
    PROVE  /\ queue' \in Seq(JobType) /\ Len(queue') = Len(queue)
           /\ \A k \in DOMAIN queue' : ~OfThisWorld(queue'[k])
           /\ tick' \in TickType /\ tick'.pc = tick.pc /\ tick'.at = tick.at
           /\ tick'.cancelled = (tick.pc # "idle")
<1>1. /\ queue \in Seq(JobType) /\ Len(queue) \in Nat /\ DOMAIN queue = 1 .. Len(queue)
      /\ \A k \in DOMAIN queue : queue[k] \in JobType
  BY LenProperties DEF JobsTyped
<1>2. queue' = [k \in DOMAIN queue |-> [queue[k] EXCEPT !.cancelled = TRUE]]
  BY DEF CancelAll
<1>3. \A k \in DOMAIN queue : [queue[k] EXCEPT !.cancelled = TRUE] \in JobType
                              /\ [queue[k] EXCEPT !.cancelled = TRUE].cancelled
  BY <1>1 DEF JobType
<1>4. queue' \in [1 .. Len(queue) -> JobType]
  BY <1>1, <1>2, <1>3
<1>5. queue' \in Seq(JobType) /\ DOMAIN queue' = 1 .. Len(queue)
  BY <1>1, <1>4, SeqDef
<1>6. Len(queue') = Len(queue)
  BY <1>1, <1>5, LenProperties
<1>7. \A k \in DOMAIN queue' : ~OfThisWorld(queue'[k])
  BY <1>1, <1>2, <1>3, <1>5 DEF OfThisWorld
<1>8. tick' = [tick EXCEPT !.cancelled = (tick.pc # "idle")] /\ tick \in TickType
  BY DEF CancelAll, JobsTyped
<1>9. tick' \in TickType /\ tick'.pc = tick.pc /\ tick'.at = tick.at
      /\ tick'.cancelled = (tick.pc # "idle")
  BY <1>8 DEF TickType
<1> QED BY <1>5, <1>6, <1>7, <1>9

(* What the worker may do to the job it is running.                        *)
Moved ==
    /\ tick.pc \notin {"idle", "forget"} /\ tick'.pc # "idle" /\ tick' \in TickType
    /\ tick'.stamp = tick.stamp /\ tick'.cancelled = tick.cancelled /\ tick'.late = tick.late
    /\ tick'.pc \in Simulating => tick.pc \in Simulating \/ TakePendingState
    /\ tick'.pc = "publish" => ~tick.cancelled
    /\ tick'.pc = "advance" => tick'.at \in ActiveIn(live')
    /\ tick.pc = "retire" <=> tick'.pc = "forget"

LEMMA PlotTurnMoves ==
    ASSUME JobsTyped, IsState(live'), NEW at \in Nat, tick.pc \in {"birth", "advance"},
           tick' = NextTurn(live', at)
    PROVE  Moved
<1> DEFINE t == NextTurn(live', at)
<1>1. /\ t \in TickType /\ t.pc \in {"reap", "advance"}
      /\ t.pc = "advance" => t.at \in ActiveIn(live') /\ t.at > at
      /\ t.stamp = tick.stamp /\ t.cancelled = tick.cancelled /\ t.late = tick.late
  BY NextTurnTyped DEF JobsTyped
<1> HIDE DEF t
<1> QED BY <1>1 DEF Moved, Simulating, t

LEMMA TickSteps ==
    ASSUME JobsTyped, IsState(live'), [Next]_vars
    PROVE  \/ tick' = tick /\ (tick.pc = "advance" => live' = live)
           \/ tick' = Idle
           \/ PopJob
           \/ (PreLoadGame \/ OnRevert) /\ live' = live
           \/ Moved
<1>1. tick \in TickType /\ tick.at \in Nat
  BY DEF JobsTyped, TickType
<1>2. CASE AdvancePlot
  <2>1. tick.pc \in {"birth", "advance"}
    BY <1>2 DEF AdvancePlot, EndAtOnce, DispatchTo, DispatchWait, DispatchImpossible,
       ToDispatch, Working, StepWorks, LeaveAlone, StepSucceeds, FinishFails, CapHit, Concede,
       Substitute, AdaptThrows, Adapting, Advancing
  <2> QED BY <1>1, <1>2, <2>1, TurnFrame, PlotTurnMoves
<1>3. CASE BirthSkipped
  BY <1>3, PlotTurnMoves DEF BirthSkipped
<1>4. CASE \E m \in NPC, plan \in Plans : BirthPlot(m, plan)
  BY <1>4, PlotTurnMoves DEF BirthPlot
<1>5. CASE TakePendingState \/ BeginSimulation \/ Reap \/ CheckBeforePublish
           \/ PublishSnapshot \/ RetireTick
  <2>1. PICK pc \in {"begin", "birth", "check", "publish", "retire", "forget"} :
           /\ tick' = [tick EXCEPT !.pc = pc] /\ tick.pc \notin {"idle", "forget"}
           /\ pc \in Simulating => tick.pc \in Simulating \/ TakePendingState
           /\ pc = "publish" => ~tick.cancelled
           /\ tick.pc = "retire" <=> pc = "forget"
    BY <1>5 DEF TakePendingState, BeginSimulation, Reap, CheckBeforePublish, PublishSnapshot,
       RetireTick, At, Simulating
  <2> QED BY <1>1, <2>1 DEF Moved, TickType, Pcs
<1>6. CASE PreLoadGame \/ OnRevert
  BY <1>6 DEF PreLoadGame, OnRevert
<1>7. CASE Poll \/ PollEnqueue \/ (\E count \in 1 .. MaxForced : ForceTicks(count))
           \/ SetTicksEnabled \/ SkipCancelled \/ (\E hours \in 1 .. MaxJump : PassTime(hours))
           \/ (\E n \in NPC : Die(n)) \/ Save \/ OnLoad \/ UNCHANGED vars
  BY <1>7 DEF Poll, PollEnqueue, ForceTicks, SetTicksEnabled, SkipCancelled, PassTime, Die,
     Save, OnLoad, vars
<1>8. CASE Forget \/ JobThrows \/ PopJob
  BY <1>8 DEF Forget, JobThrows
<1> QED BY <1>2, <1>3, <1>4, <1>5, <1>6, <1>7, <1>8 DEF Next, Worker, Game

LEMMA TickTyped ==
    ASSUME JobsTyped, TurnIsActive, IsState(live'), [Next]_vars
    PROVE  tick' \in TickType /\ TurnIsActive'
<1>1. CASE tick' = tick /\ (tick.pc = "advance" => live' = live)
  BY <1>1 DEF JobsTyped, TurnIsActive
<1>2. CASE tick' = Idle
  BY <1>2 DEF Idle, TickType, Pcs, TurnIsActive
<1>3. CASE PopJob
  <2>1. Head(queue) \in JobType
    BY <1>3, HeadAndTail DEF PopJob
  <2> QED BY <1>3, <2>1 DEF PopJob, TickType, JobType, Pcs, TurnIsActive
<1>4. CASE (PreLoadGame \/ OnRevert) /\ live' = live
  <2>1. tick' \in TickType /\ tick'.pc = tick.pc /\ tick'.at = tick.at
    BY <1>4, AllCancelled DEF PreLoadGame, OnRevert
  <2> QED BY <1>4, <2>1 DEF TurnIsActive
<1>5. CASE Moved
  BY <1>5 DEF Moved, TurnIsActive
<1> QED BY <1>1, <1>2, <1>3, <1>4, <1>5, TickSteps

(* Where the jobs of a queue have come from.                               *)
LEMMA QueueSteps ==
    ASSUME [Next]_vars
    PROVE  \/ UNCHANGED queue
           \/ queue # <<>> /\ queue' = Tail(queue)
           \/ PollEnqueue
           \/ \E count \in 1 .. MaxForced : ForceTicks(count)
           \/ CancelAll
<1>1. CASE AdvancePlot
  BY <1>1, TurnFrame
<1>2. CASE SkipCancelled \/ PopJob
  BY <1>2 DEF SkipCancelled, PopJob
<1>3. CASE PreLoadGame \/ OnRevert
  BY <1>3 DEF PreLoadGame, OnRevert
<1>4. CASE Poll \/ SetTicksEnabled \/ TakePendingState \/ BeginSimulation \/ BirthSkipped
           \/ (\E m \in NPC, plan \in Plans : BirthPlot(m, plan)) \/ Reap
           \/ CheckBeforePublish \/ PublishSnapshot \/ RetireTick \/ Forget \/ JobThrows
           \/ (\E hours \in 1 .. MaxJump : PassTime(hours)) \/ (\E n \in NPC : Die(n))
           \/ Save \/ OnLoad \/ UNCHANGED vars
  BY <1>4 DEF Poll, SetTicksEnabled, TakePendingState, BeginSimulation, BirthSkipped, BirthPlot,
     Reap, CheckBeforePublish, PublishSnapshot, RetireTick, Forget, JobThrows, PassTime, Die,
     Save, OnLoad, vars
<1> QED BY <1>1, <1>2, <1>3, <1>4 DEF Next, Worker, Game

LEMMA QueueTyped ==
    ASSUME JobsTyped, ScheduleTyped, [Next]_vars
    PROVE  queue' \in Seq(JobType)
<1>1. CASE PollEnqueue
  BY <1>1, PollStamps, EnqueueTyped DEF PollEnqueue
<1>2. CASE \E count \in 1 .. MaxForced : ForceTicks(count)
  BY <1>2, ForcedStamps, EnqueueTyped DEF ForceTicks
<1>3. CASE UNCHANGED queue
  BY <1>3 DEF JobsTyped
<1> QED BY <1>1, <1>2, <1>3, HeadAndTail, AllCancelled, QueueSteps

LEMMA JobsFrom ==
    ASSUME JobsTyped, ScheduleTyped, [Next]_vars, NEW k \in DOMAIN queue',
           OfThisWorld(queue'[k])
    PROVE  \/ \E j \in DOMAIN queue : queue'[k] = queue[j]
           \/ /\ PollEnqueue /\ ~poll.late
              /\ \E j \in DOMAIN poll.stamps : queue'[k].stamp = poll.stamps[j] + forcedAhead
           \/ \E count \in 1 .. MaxForced :
                 /\ ForceTicks(count)
                 /\ \E j \in 1 .. count : queue'[k].stamp = clock + forcedAhead + Interval * j
<1>1. CASE PollEnqueue
  <2> DEFINE stamps == [j \in DOMAIN poll.stamps |-> poll.stamps[j] + forcedAhead]
  <2>1. stamps \in Seq(Nat) /\ poll.late \in BOOLEAN /\ Enqueue(stamps, poll.late)
    BY <1>1, PollStamps DEF PollEnqueue
  <2>2. DOMAIN stamps = DOMAIN poll.stamps
        /\ \A j \in DOMAIN stamps : stamps[j] = poll.stamps[j] + forcedAhead
    OBVIOUS
  <2> HIDE DEF stamps
  <2>3. \/ k \in DOMAIN queue /\ queue'[k] = queue[k]
        \/ \E j \in DOMAIN stamps :
              queue'[k] = [stamp |-> stamps[j], cancelled |-> FALSE, late |-> poll.late]
    BY <2>1, EnqueueTyped
  <2> QED BY <1>1, <2>2, <2>3 DEF OfThisWorld
<1>2. ASSUME NEW count \in 1 .. MaxForced, ForceTicks(count)
      PROVE  \/ \E j \in DOMAIN queue : queue'[k] = queue[j]
             \/ \E j \in 1 .. count : queue'[k].stamp = clock + forcedAhead + Interval * j
  <2> DEFINE stamps == [j \in 1 .. count |-> clock + forcedAhead + Interval * j]
  <2>1. stamps \in Seq(Nat) /\ Enqueue(stamps, FALSE)
    BY <1>2, ForcedStamps DEF ForceTicks
  <2>2. DOMAIN stamps = 1 .. count
        /\ \A j \in DOMAIN stamps : stamps[j] = clock + forcedAhead + Interval * j
    OBVIOUS
  <2> HIDE DEF stamps
  <2>3. \/ k \in DOMAIN queue /\ queue'[k] = queue[k]
        \/ \E j \in DOMAIN stamps :
              queue'[k] = [stamp |-> stamps[j], cancelled |-> FALSE, late |-> FALSE]
    BY <2>1, EnqueueTyped
  <2> QED BY <2>2, <2>3
<1>3. CASE UNCHANGED queue
  BY <1>3
<1>4. CASE queue # <<>> /\ queue' = Tail(queue)
  BY <1>4, HeadAndTail
<1>5. CASE CancelAll
  BY <1>5, AllCancelled
<1> QED BY <1>1, <1>2, <1>3, <1>4, <1>5, QueueSteps

(* And where the job being run has: it ran before, or was in the queue.    *)
LEMMA RunningFrom ==
    ASSUME JobsTyped, IsState(live'), [Next]_vars, tick'.pc # "idle", OfThisWorld(tick')
    PROVE  \/ tick.pc # "idle" /\ OfThisWorld(tick) /\ tick'.stamp = tick.stamp
           \/ \E j \in DOMAIN queue : OfThisWorld(queue[j]) /\ tick'.stamp = queue[j].stamp
<1>1. CASE tick' = tick \/ Moved
  BY <1>1 DEF Moved, OfThisWorld
<1>2. CASE tick' = Idle
  BY <1>2 DEF Idle
<1>3. CASE PopJob
  BY <1>3, HeadAndTail DEF PopJob, OfThisWorld
<1>4. CASE PreLoadGame \/ OnRevert
  BY <1>4, AllCancelled DEF PreLoadGame, OnRevert, OfThisWorld
<1> QED BY <1>1, <1>2, <1>3, <1>4, TickSteps

-----------------------------------------------------------------------------
(* The inductive step, a part of the invariant at a time.                  *)

LEMMA ScheduleStep ==
    ASSUME ScheduleTyped, JobsTyped, [Next]_vars
    PROVE  ScheduleTyped'
<1>1. CASE Poll
  <2>1. OutstandingCount \in Nat
    BY LenProperties DEF OutstandingCount, JobsTyped
  <2> DEFINE decision == Advance(lastFired, clock, OutstandingCount)
  <2>2. decision.newLast \in Nat /\ decision.stamps \in Seq(Nat)
    BY <2>1, AdvanceDecides DEF ScheduleTyped
  <2> HIDE DEF decision
  <2>3. /\ lastFired' \in {lastFired, clock, decision.newLast}
        /\ poll' \in {poll, [poll EXCEPT !.stamps = decision.stamps]}
        /\ needsRebase' \in BOOLEAN
    BY <1>1 DEF Poll, decision
  <2>4. UNCHANGED <<game, ticksEnabled, forcedAhead, saved, overtaken>>
    BY <1>1 DEF Poll, images
  <2> QED BY <2>2, <2>3, <2>4 DEF ScheduleTyped, game
<1>2. CASE PollEnqueue
  BY <1>2, EmptySeq DEF PollEnqueue, NoPoll, ScheduleTyped, game, images
<1>3. CASE \E count \in 1 .. MaxForced : ForceTicks(count)
  BY <1>3, ForcedStamps DEF ForceTicks, ScheduleTyped, game, images
<1>4. CASE \E hours \in 1 .. MaxJump : PassTime(hours)
  <2>1. PICK hours \in 1 .. MaxJump : PassTime(hours)
    BY <1>4
  <2>2. hours \in Nat
    BY PlotAssumption
  <2> QED BY <2>1, <2>2 DEF PassTime, ScheduleTyped, schedule, images
<1>5. CASE PreLoadGame \/ OnRevert \/ OnLoad
  <2>1. overtaken' \in BOOLEAN
    BY <1>5 DEF PreLoadGame, OnRevert, OnLoad, StageLoadedState
  <2>2. poll' \in [stamps: Seq(Nat), late: BOOLEAN]
    BY <1>5 DEF PreLoadGame, OnRevert, OnLoad, ScheduleTyped, schedule
  <2>3. /\ clock' \in {clock, saved.clock} /\ dead' \in {dead, saved.dead}
        /\ forcedAhead' \in {0, forcedAhead}
        /\ loading' \in {"no", "revert", "read"} /\ world' \in {world, world + 1}
        /\ UNCHANGED <<lastFired, ticksEnabled, saved>>
    BY <1>5 DEF PreLoadGame, OnRevert, OnLoad, schedule
  <2>4. needsRebase' \in BOOLEAN
    BY <1>5 DEF PreLoadGame, OnRevert, OnLoad, ScheduleTyped, schedule
  <2> QED BY <2>1, <2>2, <2>3, <2>4 DEF ScheduleTyped
<1>6. CASE PublishSnapshot
  <2>1. overtaken' \in BOOLEAN
    BY <1>6 DEF PublishSnapshot
  <2> QED BY <1>6, <2>1 DEF PublishSnapshot, ScheduleTyped, game, schedule
<1>7. CASE SetTicksEnabled
  <2>1. ticksEnabled' \in BOOLEAN
    BY <1>7 DEF SetTicksEnabled
  <2> QED BY <1>7, <2>1 DEF SetTicksEnabled, ScheduleTyped, game, images
<1>10. CASE Save
  BY <1>10 DEF Save, ScheduleTyped, game, schedule
<1>11. CASE \E n \in NPC : Die(n)
  BY <1>11 DEF Die, ScheduleTyped, schedule, images
<1>8. CASE AdvancePlot
  BY <1>8, TurnFrame DEF ScheduleTyped, game, schedule, images
<1>9. CASE SkipCancelled \/ PopJob \/ TakePendingState \/ BeginSimulation \/ BirthSkipped
           \/ (\E m \in NPC, plan \in Plans : BirthPlot(m, plan)) \/ Reap
           \/ CheckBeforePublish \/ RetireTick \/ Forget \/ JobThrows \/ UNCHANGED vars
  <2>1. UNCHANGED <<game, schedule, saved, overtaken>>
    BY <1>9 DEF SkipCancelled, PopJob, TakePendingState, BeginSimulation, BirthSkipped,
       BirthPlot, Reap, CheckBeforePublish, RetireTick, Forget, JobThrows, vars, game,
       schedule, images
  <2> QED BY <2>1 DEF ScheduleTyped, game, schedule
<1> QED BY <1>1, <1>2, <1>3, <1>4, <1>5, <1>6, <1>7, <1>8, <1>9, <1>10, <1>11
   DEF Next, Worker, Game

LEMMA CountStep ==
    ASSUME Counted, ScheduleTyped, JobsTyped, IsState(live'), [Next]_vars
    PROVE  Counted'
<1>1. /\ Len(queue) \in Nat /\ outstandingTicks \in Nat
      /\ outstandingTicks >= Len(queue) + (IF tick.pc \in {"idle", "forget"} THEN 0 ELSE 1)
  BY LenProperties DEF JobsTyped, Counted, PendingTicksCounted
<1>2. ASSUME NEW stamps \in Seq(Nat), NEW late \in BOOLEAN, Enqueue(stamps, late), tick' = tick
      PROVE  Counted'
  <2>1. Len(queue') = Len(queue) + Len(stamps) /\ Len(stamps) \in Nat
        /\ outstandingTicks' = outstandingTicks + Len(stamps)
    BY <1>2, EnqueueTyped DEF Enqueue
  <2> QED BY <1>1, <1>2, <2>1 DEF Counted, PendingTicksCounted
<1>3. CASE PollEnqueue
  BY <1>2, <1>3, PollStamps DEF PollEnqueue
<1>4. CASE \E count \in 1 .. MaxForced : ForceTicks(count)
  BY <1>2, <1>4, ForcedStamps DEF ForceTicks
<1>5. CASE SkipCancelled \/ PopJob
  <2>1. Len(queue') = Len(queue) - 1 /\ outstandingTicks' = outstandingTicks
        /\ tick'.pc \in {tick.pc, "start"} /\ tick.pc = "idle"
    BY <1>5, HeadAndTail DEF SkipCancelled, PopJob
  <2> QED BY <1>1, <1>5, <2>1 DEF Counted, PendingTicksCounted, SkipCancelled
<1>6. CASE PreLoadGame \/ OnRevert
  <2>1. Len(queue') = Len(queue) /\ tick'.pc = tick.pc /\ outstandingTicks' = outstandingTicks
    BY <1>6, AllCancelled DEF PreLoadGame, OnRevert
  <2> QED BY <1>1, <2>1 DEF Counted, PendingTicksCounted
<1>7. CASE RetireTick
  BY <1>1, <1>7 DEF RetireTick, At, Counted, PendingTicksCounted, JobsTyped, TickType
<1>8. CASE UNCHANGED <<queue, outstandingTicks>>
  <2>1. \/ tick' = tick \/ tick' = Idle \/ PopJob
        \/ PreLoadGame \/ OnRevert \/ Moved
    BY TickSteps
  <2>2. CASE tick' = tick \/ tick' = Idle \/ Moved
    BY <1>1, <1>8, <2>2 DEF Moved, Idle, Counted, PendingTicksCounted
  <2> QED BY <1>5, <1>6, <2>1, <2>2
<1>9. CASE AdvancePlot
  BY <1>8, <1>9, TurnFrame
<1>10. CASE Poll \/ SetTicksEnabled \/ TakePendingState \/ BeginSimulation \/ BirthSkipped
           \/ (\E m \in NPC, plan \in Plans : BirthPlot(m, plan)) \/ Reap
           \/ CheckBeforePublish \/ PublishSnapshot \/ Forget \/ JobThrows
           \/ (\E hours \in 1 .. MaxJump : PassTime(hours)) \/ (\E n \in NPC : Die(n))
           \/ Save \/ OnLoad \/ UNCHANGED vars
  <2>1. UNCHANGED <<queue, outstandingTicks>>
    BY <1>10 DEF Poll, SetTicksEnabled, TakePendingState, BeginSimulation, BirthSkipped,
       BirthPlot, Reap, CheckBeforePublish, PublishSnapshot, Forget, JobThrows, PassTime, Die,
       Save, OnLoad, vars
  <2> QED BY <1>8, <2>1
<1> QED BY <1>3, <1>4, <1>5, <1>6, <1>7, <1>9, <1>10 DEF Next, Worker, Game

(* Where a state's world may come from: a simulation never leaves its own. *)
LEMMA WorldSteps ==
    ASSUME ImagesGood, ScheduleTyped, [Next]_vars
    PROVE  \/ TakePendingState
           \/ PublishSnapshot
           \/ PreLoadGame \/ OnRevert \/ OnLoad
           \/ /\ live'.world = live.world
              /\ UNCHANGED <<pending, published, world, overtaken>>
<1>1. CASE AdvancePlot
  BY <1>1, TurnFrame DEF game, images
<1>2. CASE Reap
  <2>1. live'.world = live.world
    BY <1>2, ReapGood DEF ImagesGood
  <2> QED BY <1>2, <2>1 DEF Reap, game, images
<1>3. CASE BeginSimulation
  <2>1. [live EXCEPT !.simGameDay = tick.stamp].world = live.world
    OBVIOUS
  <2> QED BY <1>3, <2>1 DEF BeginSimulation, game, images
<1>5. CASE \E m \in NPC, plan \in Plans : BirthPlot(m, plan)
  <2>1. \A id, occ, plots :
           [live EXCEPT !.nextPlotId = id, !.occupancy = occ, !.plots = plots].world = live.world
    OBVIOUS
  <2> QED BY <1>5, <2>1 DEF BirthPlot, game, images
<1>4. CASE Poll \/ PollEnqueue \/ (\E count \in 1 .. MaxForced : ForceTicks(count))
           \/ SetTicksEnabled \/ SkipCancelled \/ PopJob \/ BirthSkipped
           \/ CheckBeforePublish \/ RetireTick \/ Forget \/ JobThrows
           \/ (\E hours \in 1 .. MaxJump : PassTime(hours)) \/ (\E n \in NPC : Die(n))
           \/ Save \/ UNCHANGED vars
  BY <1>4 DEF Poll, PollEnqueue, ForceTicks, SetTicksEnabled, SkipCancelled, PopJob,
     BirthSkipped, CheckBeforePublish, RetireTick, Forget, JobThrows, PassTime, Die, Save, vars,
     game, images
<1> QED BY <1>1, <1>2, <1>3, <1>4, <1>5 DEF Next, Worker, Game

(* What a load stages is of the world it makes.                            *)
LEMMA LoadWorlds ==
    ASSUME ImagesGood, ScheduleTyped, PreLoadGame \/ OnRevert \/ OnLoad
    PROVE  /\ pending' # <<>> /\ Head(pending').world = world' /\ published'.world = world'
           /\ overtaken' = (tick.pc = "publish")
<1>1. world \in Nat /\ world + 1 \in Nat
  BY DEF ScheduleTyped
<1>2. \A w \in Nat : EmptyState(w).world = w
  BY EmptyGood
<1>3. \A gone \in SUBSET DOMAIN saved.state.plots : Restored(saved.state, gone).world = world + 1
  BY <1>1, RestoredGood DEF ImagesGood
<1>4. PICK st : StageLoadedState(st) /\ st.world = world'
  BY <1>1, <1>2, <1>3 DEF PreLoadGame, OnRevert, OnLoad
<1> QED BY <1>4 DEF StageLoadedState

LEMMA WorldStep ==
    ASSUME WorldsKnown, LoadIsQuiet, ImagesGood, ScheduleTyped, JobsTyped, IsState(live'),
           [Next]_vars
    PROVE  WorldsKnown'
<1>0. tick \in TickType
  BY DEF JobsTyped
<1>1. CASE PreLoadGame \/ OnRevert \/ OnLoad
  <2>1. /\ pending' # <<>> /\ Head(pending').world = world' /\ published'.world = world'
        /\ overtaken' = (tick.pc = "publish")
    BY <1>1, LoadWorlds
  <2>2. tick'.pc = tick.pc /\ (tick.pc # "idle" => ~OfThisWorld(tick'))
    <3>1. CASE PreLoadGame \/ OnRevert
      BY <3>1, AllCancelled DEF PreLoadGame, OnRevert, OfThisWorld
    <3>2. CASE OnLoad
      BY <3>2 DEF OnLoad, LoadIsQuiet
    <3> QED BY <1>1, <3>1, <3>2
  <2> QED BY <2>1, <2>2 DEF WorldsKnown, Simulating
<1>2. CASE TakePendingState
  <2>1. tick'.pc \in {"retire", "begin"} /\ tick'.cancelled = tick.cancelled
        /\ tick'.late = tick.late /\ UNCHANGED <<world, published, overtaken>>
    BY <1>0, <1>2 DEF TakePendingState, At, TickType, game
  <2>2. CASE tick.cancelled
    BY <1>0, <1>2, <2>1, <2>2 DEF TakePendingState, WorldsKnown, At, Simulating, TickType
  <2>3. CASE ~tick.cancelled
    <3>1. pending' = <<>> /\ live'.world = world
      BY <1>2, <2>3 DEF TakePendingState, WorldsKnown
    <3> QED BY <2>1, <3>1 DEF WorldsKnown
  <2> QED BY <2>2, <2>3
<1>3. CASE PublishSnapshot
  <2>1. /\ tick.pc = "publish" /\ published' = live /\ tick'.pc = "retire"
        /\ overtaken' = (tick.late \/ (overtaken /\ tick.cancelled))
        /\ UNCHANGED <<live, pending, world>>
    BY <1>0, <1>3 DEF PublishSnapshot, At, TickType, game
  <2>2. CASE OfThisWorld(tick)
    BY <2>1, <2>2 DEF WorldsKnown, Simulating
  <2>3. CASE ~OfThisWorld(tick)
    BY <1>0, <2>1, <2>3 DEF WorldsKnown, Simulating, OfThisWorld, TickType
  <2> QED BY <2>2, <2>3
<1>4. CASE /\ live'.world = live.world /\ UNCHANGED <<pending, published, world, overtaken>>
           /\ ~(PreLoadGame \/ OnRevert \/ OnLoad \/ TakePendingState \/ PublishSnapshot)
  <2>1. /\ tick'.pc \in Simulating /\ OfThisWorld(tick') =>
              tick.pc \in Simulating /\ OfThisWorld(tick)
        /\ tick'.pc = "publish" /\ tick'.cancelled => tick.pc = "publish" /\ tick.cancelled
    <3>1. CASE tick' = tick
      BY <3>1
    <3>2. CASE tick' = Idle \/ PopJob
      BY <3>2 DEF Idle, PopJob, Simulating
    <3>3. CASE Moved
      BY <1>4, <3>3 DEF Moved, OfThisWorld
    <3> QED BY <1>4, <3>1, <3>2, <3>3, TickSteps
  <2> QED BY <1>4, <2>1 DEF WorldsKnown
<1> QED BY <1>1, <1>2, <1>3, <1>4, WorldSteps

(* While a load is under way nobody is asked for a tick of the session that *)
(* is over, and a poll that begins meanwhile finds no hour passed.         *)
LEMMA LoadFrame ==
    ASSUME [Next]_vars, loading' # "no"
    PROVE  \/ PreLoadGame \/ OnRevert
           \/ /\ loading # "no" /\ clock' = clock
              /\ Poll \/ PollEnqueue \/ UNCHANGED <<needsRebase, lastFired, poll>>
              /\ \A count \in 1 .. MaxForced : ~ForceTicks(count)
<1>1. CASE AdvancePlot
  BY <1>1, TurnFrame DEF game, schedule, ForceTicks
<1>2. CASE PreLoadGame \/ OnRevert
  BY <1>2
<1>3. CASE Poll \/ PollEnqueue \/ (\E count \in 1 .. MaxForced : ForceTicks(count))
  BY <1>3 DEF Poll, PollEnqueue, ForceTicks, game
<1>4. CASE SetTicksEnabled \/ SkipCancelled \/ PopJob \/ TakePendingState \/ BeginSimulation
           \/ BirthSkipped \/ (\E m \in NPC, plan \in Plans : BirthPlot(m, plan)) \/ Reap
           \/ CheckBeforePublish \/ PublishSnapshot \/ RetireTick \/ Forget \/ JobThrows
           \/ UNCHANGED vars
  BY <1>4 DEF SetTicksEnabled, SkipCancelled, PopJob, TakePendingState, BeginSimulation,
     BirthSkipped, BirthPlot, Reap, CheckBeforePublish, PublishSnapshot, RetireTick, Forget,
     JobThrows, vars, game, schedule, ForceTicks
<1>5. CASE (\E hours \in 1 .. MaxJump : PassTime(hours)) \/ (\E n \in NPC : Die(n)) \/ Save
           \/ OnLoad
  BY <1>5 DEF PassTime, Die, Save, OnLoad, game
<1> QED BY <1>1, <1>2, <1>3, <1>4, <1>5 DEF Next, Worker, Game

LEMMA LoadStep ==
    ASSUME LoadIsQuiet, ScheduleTyped, JobsTyped, IsState(live'), [Next]_vars
    PROVE  LoadIsQuiet'
<1> SUFFICES ASSUME loading' # "no"
             PROVE  /\ \A k \in DOMAIN queue' : ~OfThisWorld(queue'[k])
                    /\ tick'.pc # "idle" => ~OfThisWorld(tick')
                    /\ needsRebase' \/ lastFired' = clock'
                    /\ poll'.stamps # <<>> => poll'.late
  BY DEF LoadIsQuiet
<1>1. CASE PreLoadGame \/ OnRevert
  <2>1. /\ \A k \in DOMAIN queue' : ~OfThisWorld(queue'[k])
        /\ tick'.pc # "idle" => ~OfThisWorld(tick')
    BY <1>1, AllCancelled DEF PreLoadGame, OnRevert, OfThisWorld
  <2>2. CASE PreLoadGame
    <3>1. /\ needsRebase' /\ poll' = [poll EXCEPT !.late = (poll # NoPoll)]
          /\ poll \in [stamps: Seq(Nat), late: BOOLEAN]
      BY <2>2 DEF PreLoadGame, ScheduleTyped
    <3>2. poll'.stamps = poll.stamps /\ (poll # NoPoll => poll'.late)
      BY <3>1
    <3>3. poll.stamps # <<>> => poll # NoPoll
      BY DEF NoPoll
    <3> QED BY <2>1, <3>1, <3>2, <3>3
  <2>3. CASE OnRevert
    BY <2>1, <2>3 DEF OnRevert, LoadIsQuiet, schedule
  <2> QED BY <1>1, <2>2, <2>3
<1>2. CASE /\ loading # "no" /\ clock' = clock
           /\ Poll \/ PollEnqueue \/ UNCHANGED <<needsRebase, lastFired, poll>>
           /\ \A count \in 1 .. MaxForced : ~ForceTicks(count)
  <2>1. /\ \A k \in DOMAIN queue : ~OfThisWorld(queue[k])
        /\ tick.pc # "idle" => ~OfThisWorld(tick)
        /\ needsRebase \/ lastFired = clock
        /\ poll.stamps # <<>> => poll.late
    BY <1>2 DEF LoadIsQuiet
  <2>2. ASSUME NEW k \in DOMAIN queue', OfThisWorld(queue'[k]) PROVE FALSE
    BY <1>2, <2>1, <2>2, JobsFrom DEF PollEnqueue
  <2>3. tick'.pc # "idle" => ~OfThisWorld(tick')
    BY <2>1, RunningFrom
  <2>4. CASE Poll
    <3>1. CASE ~ticksEnabled
      BY <2>1, <2>2, <2>3, <2>4, <3>1 DEF Poll
    <3>2. CASE ticksEnabled /\ needsRebase
      BY <1>2, <2>1, <2>2, <2>3, <2>4, <3>2 DEF Poll
    <3>3. CASE ticksEnabled /\ ~needsRebase
      <4> DEFINE decision == Advance(lastFired, clock, OutstandingCount)
      <4>1. OutstandingCount \in Nat
        BY LenProperties DEF OutstandingCount, JobsTyped
      <4>2. decision.stamps = <<>> /\ decision.newLast = clock
        BY <2>1, <3>3, <4>1, AdvanceDecides DEF ScheduleTyped
      <4> HIDE DEF decision
      <4>3. /\ lastFired' = decision.newLast
            /\ poll' = [poll EXCEPT !.stamps = decision.stamps]
            /\ poll = [stamps |-> <<>>, late |-> FALSE]
        BY <2>4, <3>3 DEF Poll, NoPoll, decision
      <4>4. poll'.stamps = <<>>
        BY <4>2, <4>3
      <4> QED BY <1>2, <2>2, <2>3, <4>2, <4>3, <4>4
    <3> QED BY <3>1, <3>2, <3>3
  <2>5. CASE PollEnqueue
    BY <1>2, <2>1, <2>2, <2>3, <2>5 DEF PollEnqueue, NoPoll
  <2>6. CASE UNCHANGED <<needsRebase, lastFired, poll>>
    BY <1>2, <2>1, <2>2, <2>3, <2>6
  <2> QED BY <1>2, <2>4, <2>5, <2>6
<1> QED BY <1>1, <1>2, LoadFrame

(* While nothing is loaded the clock and the hours forced only go up.      *)
LEMMA PlayFrame ==
    ASSUME ScheduleTyped, [Next]_vars, loading' = "no"
    PROVE  \/ OnLoad
           \/ /\ loading = "no" /\ clock' \in Nat /\ clock' >= clock
              /\ \/ UNCHANGED forcedAhead
                 \/ \E count \in 1 .. MaxForced : ForceTicks(count)
              /\ poll' = poll \/ poll' = NoPoll \/ (Poll /\ clock' = clock)
<1>0. clock \in Nat /\ MaxJump \in Nat
  BY PlotAssumption DEF ScheduleTyped
<1>1. CASE AdvancePlot
  BY <1>0, <1>1, TurnFrame DEF game, schedule
<1>2. CASE \E hours \in 1 .. MaxJump : PassTime(hours)
  BY <1>0, <1>2 DEF PassTime, schedule
<1>3. CASE Poll \/ PollEnqueue \/ (\E count \in 1 .. MaxForced : ForceTicks(count))
  <2>1. UNCHANGED <<clock, loading>>
    BY <1>3 DEF Poll, PollEnqueue, ForceTicks, game
  <2>2. CASE Poll
    <3>1. UNCHANGED forcedAhead
      BY <2>2 DEF Poll
    <3> QED BY <1>0, <2>1, <2>2, <3>1
  <2>3. CASE PollEnqueue
    <3>1. UNCHANGED forcedAhead /\ poll' = NoPoll
      BY <2>3 DEF PollEnqueue
    <3> QED BY <1>0, <2>1, <3>1
  <2>4. CASE \E count \in 1 .. MaxForced : ForceTicks(count)
    <3>1. UNCHANGED poll
      BY <2>4 DEF ForceTicks
    <3> QED BY <1>0, <2>1, <2>4, <3>1
  <2> QED BY <1>3, <2>2, <2>3, <2>4
<1>4. CASE SetTicksEnabled \/ SkipCancelled \/ PopJob \/ TakePendingState \/ BeginSimulation
           \/ BirthSkipped \/ (\E m \in NPC, plan \in Plans : BirthPlot(m, plan)) \/ Reap
           \/ CheckBeforePublish \/ PublishSnapshot \/ RetireTick \/ Forget \/ JobThrows
           \/ (\E n \in NPC : Die(n)) \/ Save \/ UNCHANGED vars
  <2>1. UNCHANGED <<clock, loading, forcedAhead, poll>>
    BY <1>4 DEF SetTicksEnabled, SkipCancelled, PopJob, TakePendingState, BeginSimulation,
       BirthSkipped, BirthPlot, Reap, CheckBeforePublish, PublishSnapshot, RetireTick, Forget,
       JobThrows, Die, Save, vars, game, schedule
  <2> QED BY <1>0, <2>1
<1>5. CASE PreLoadGame \/ OnRevert
  BY <1>5 DEF PreLoadGame, OnRevert
<1> QED BY <1>1, <1>2, <1>3, <1>4, <1>5 DEF Next, Worker, Game

LEMMA HorizonStep ==
    ASSUME Horizons, LoadIsQuiet, ScheduleTyped, JobsTyped, IsState(live'), [Next]_vars
    PROVE  Horizons'
<1> SUFFICES ASSUME loading' = "no"
             PROVE  /\ \A k \in DOMAIN queue' : OfThisWorld(queue'[k]) =>
                          queue'[k].stamp <= clock' + forcedAhead'
                    /\ tick'.pc # "idle" /\ OfThisWorld(tick') =>
                          tick'.stamp <= clock' + forcedAhead'
                    /\ ~poll'.late => \A k \in DOMAIN poll'.stamps : poll'.stamps[k] <= clock'
  BY DEF Horizons, StampsWithinHorizon
<1>1. CASE OnLoad
  <2>1. loading # "no" /\ UNCHANGED <<queue, tick, poll>>
    BY <1>1 DEF OnLoad, schedule
  <2>2. poll.stamps # <<>> => poll.late
    BY <2>1 DEF LoadIsQuiet
  <2>3. poll.stamps = <<>> => DOMAIN poll.stamps = {}
    OBVIOUS
  <2> QED BY <2>1, <2>2, <2>3 DEF LoadIsQuiet
<1>2. CASE ~OnLoad
  <2>0. /\ loading = "no" /\ clock' \in Nat /\ clock' >= clock
        /\ UNCHANGED forcedAhead \/ \E count \in 1 .. MaxForced : ForceTicks(count)
        /\ poll' = poll \/ poll' = NoPoll \/ (Poll /\ clock' = clock)
    BY <1>2, PlayFrame
  <2>1. /\ \A k \in DOMAIN queue : OfThisWorld(queue[k]) => queue[k].stamp <= clock + forcedAhead
        /\ tick.pc # "idle" /\ OfThisWorld(tick) => tick.stamp <= clock + forcedAhead
        /\ ~poll.late => \A k \in DOMAIN poll.stamps : poll.stamps[k] <= clock
    BY <2>0 DEF Horizons, StampsWithinHorizon
  <2>2. /\ clock \in Nat /\ forcedAhead \in Nat
        /\ \A k \in DOMAIN queue : queue[k] \in JobType /\ queue[k].stamp \in Nat
        /\ tick.stamp \in Nat
        /\ \A k \in DOMAIN poll.stamps : poll.stamps[k] \in Nat
    <3>1. \A k \in DOMAIN queue : queue[k] \in JobType
      BY LenProperties DEF JobsTyped
    <3>2. \A k \in DOMAIN poll.stamps : poll.stamps[k] \in Nat
      BY LenProperties DEF ScheduleTyped
    <3> QED BY <3>1, <3>2 DEF JobsTyped, TickType, JobType, ScheduleTyped
  <2>3. forcedAhead' \in Nat /\ forcedAhead' >= forcedAhead
    <3>1. \A count \in 1 .. MaxForced : Interval * count \in Nat
      BY PlotAssumption
    <3>2. CASE UNCHANGED forcedAhead
      BY <2>2, <3>2
    <3>3. CASE \E count \in 1 .. MaxForced : forcedAhead' = forcedAhead + Interval * count
      <4>1. PICK count \in 1 .. MaxForced : forcedAhead' = forcedAhead + Interval * count
        BY <3>3
      <4> DEFINE hours == Interval * count
      <4>2. hours \in Nat /\ forcedAhead' = forcedAhead + hours
        BY <3>1, <4>1
      <4> HIDE DEF hours
      <4> QED BY <2>2, <4>2
    <3>4. UNCHANGED forcedAhead
          \/ \E count \in 1 .. MaxForced : forcedAhead' = forcedAhead + Interval * count
      BY <2>0 DEF ForceTicks
    <3> QED BY <3>2, <3>3, <3>4
  <2>4. ASSUME NEW k \in DOMAIN queue', OfThisWorld(queue'[k])
        PROVE  queue'[k].stamp <= clock' + forcedAhead'
    <3>1. CASE \E j \in DOMAIN queue : queue'[k] = queue[j]
      <4>1. PICK j \in DOMAIN queue : queue'[k] = queue[j]
        BY <3>1
      <4> QED BY <2>0, <2>1, <2>2, <2>3, <2>4, <4>1
    <3>2. CASE ~poll.late /\ \E j \in DOMAIN poll.stamps :
                                 queue'[k].stamp = poll.stamps[j] + forcedAhead
      <4>1. PICK j \in DOMAIN poll.stamps : queue'[k].stamp = poll.stamps[j] + forcedAhead
        BY <3>2
      <4>2. poll.stamps[j] \in Nat /\ poll.stamps[j] <= clock
        BY <2>1, <2>2, <3>2
      <4> QED BY <2>0, <2>2, <2>3, <4>1, <4>2
    <3>3. ASSUME NEW count \in 1 .. MaxForced, ForceTicks(count),
                 NEW j \in 1 .. count, queue'[k].stamp = clock + forcedAhead + Interval * j
          PROVE  queue'[k].stamp <= clock' + forcedAhead'
      <4>1. clock' = clock /\ forcedAhead' = forcedAhead + Interval * count
        BY <3>3 DEF ForceTicks, game
      <4>2. clock + forcedAhead + Interval * j <= clock + (forcedAhead + Interval * count)
        BY ForcedStamps
      <4> QED BY <3>3, <4>1, <4>2
    <3> QED BY <2>4, <3>1, <3>2, <3>3, JobsFrom
  <2>5. ASSUME tick'.pc # "idle", OfThisWorld(tick')
        PROVE  tick'.stamp <= clock' + forcedAhead'
    <3>1. tick'.stamp \in Nat /\ tick'.stamp <= clock + forcedAhead
      <4>1. CASE tick.pc # "idle" /\ OfThisWorld(tick) /\ tick'.stamp = tick.stamp
        BY <2>1, <2>2, <4>1
      <4>2. CASE \E j \in DOMAIN queue : OfThisWorld(queue[j]) /\ tick'.stamp = queue[j].stamp
        BY <2>1, <2>2, <4>2
      <4> QED BY <2>5, <4>1, <4>2, RunningFrom
    <3> QED BY <2>0, <2>2, <2>3, <3>1
  <2>6. ASSUME ~poll'.late, NEW k \in DOMAIN poll'.stamps
        PROVE  poll'.stamps[k] <= clock'
    <3>1. CASE poll' = poll
      <4>1. poll'.stamps[k] \in Nat /\ poll'.stamps[k] <= clock
        BY <2>1, <2>2, <2>6, <3>1
      <4> QED BY <2>0, <2>2, <4>1
    <3>2. CASE poll' = NoPoll
      BY <2>6, <3>2 DEF NoPoll
    <3>3. CASE Poll /\ clock' = clock /\ poll' # poll
      <4> DEFINE decision == Advance(lastFired, clock, OutstandingCount)
      <4>1. OutstandingCount \in Nat
        BY LenProperties DEF OutstandingCount, JobsTyped
      <4>2. \A j \in DOMAIN decision.stamps : decision.stamps[j] <= clock
        BY <4>1, AdvanceDecides DEF ScheduleTyped
      <4> HIDE DEF decision
      <4>3. poll' = [poll EXCEPT !.stamps = decision.stamps]
            /\ poll \in [stamps: Seq(Nat), late: BOOLEAN]
        BY <3>3 DEF Poll, decision, ScheduleTyped
      <4>4. poll'.stamps = decision.stamps
        BY <4>3
      <4> QED BY <2>6, <3>3, <4>2, <4>4
    <3> QED BY <2>0, <3>1, <3>2, <3>3
  <2> QED BY <2>4, <2>5, <2>6
<1> QED BY <1>1, <1>2

-----------------------------------------------------------------------------
(* The invariant and what follows from it.                                 *)

LEMMA InitIInv == Init => IInv
<1> SUFFICES ASSUME Init PROVE IInv
  OBVIOUS
<1>1. /\ clock = 0 /\ dead = {} /\ lastFired = 0 /\ needsRebase = TRUE
      /\ ticksEnabled \in BOOLEAN /\ forcedAhead = 0
      /\ poll = [stamps |-> <<>>, late |-> FALSE] /\ outstandingTicks = 0 /\ queue = <<>>
      /\ live = EmptyState(0) /\ published = EmptyState(0) /\ pending = <<>>
      /\ saved = [state |-> EmptyState(0), clock |-> 0, dead |-> {}]
      /\ loading = "no" /\ world = 0 /\ overtaken = FALSE
      /\ tick = [pc |-> "idle", stamp |-> 0, cancelled |-> FALSE, late |-> FALSE, at |-> 0]
  BY DEF Init, Idle, NoPoll
<1>2. GoodState(EmptyState(0)) /\ EmptyState(0).world = 0
  BY EmptyGood
<1>3. ScheduleTyped /\ JobsTyped
  BY <1>1, EmptySeq DEF ScheduleTyped, JobsTyped, TickType, Pcs
<1>4. TurnIsActive /\ ImagesGood
  BY <1>1, <1>2 DEF TurnIsActive, ImagesGood
<1>5. Counted
  <2>1. Len(queue) = 0
    BY <1>1, EmptySeq
  <2> QED BY <1>1, <2>1 DEF Counted, PendingTicksCounted
<1>6. WorldsKnown /\ LoadIsQuiet /\ Horizons
  BY <1>1, <1>2 DEF WorldsKnown, Simulating, LoadIsQuiet, Horizons, StampsWithinHorizon
<1> QED BY <1>3, <1>4, <1>5, <1>6 DEF IInv

LEMMA StepIInv == IInv /\ [Next]_vars => IInv'
<1> SUFFICES ASSUME IInv, [Next]_vars PROVE IInv'
  OBVIOUS
<1> USE DEF IInv
<1>1. ImagesGood' /\ IsState(live')
  BY ImagesStayGood, LiveGood DEF GoodState
<1>2. JobsTyped' /\ TurnIsActive'
  BY <1>1, TickTyped, QueueTyped DEF JobsTyped
<1> QED BY <1>1, <1>2, ScheduleStep, CountStep, WorldStep, LoadStep, HorizonStep

THEOREM InvariantHolds == Spec => []IInv
<1> QED BY InitIInv, StepIInv, PTL DEF Spec

(* PlotTick.cpp's globals, PlotDispatch.cpp's queue and every image of the *)
(* PlotState keep their types, and the worker's turn is always of a plot   *)
(* that is active: for any plans, graph, clock and number of loads.        *)
THEOREM TypeCorrect == Spec => []TypeOK
<1>1. IInv => TypeOK
  BY DEF IInv, ScheduleTyped, JobsTyped, JobType, TickType, Pcs, TurnIsActive, ImagesGood,
     GoodState, Counted, TypeOK
<1> QED BY <1>1, InvariantHolds, PTL

(* The plot list and the occupancy table, which PlotTick.cpp keeps in step *)
(* by hand in BirthPlot, DispatchStep, RetireStep, EndPlot, Reap and        *)
(* ReadState, agree in the live state, in what the dashboard reads, in what *)
(* is staged and on disk.                                                   *)
THEOREM OccupancyTableAgrees == Spec => []OccupancyAgrees
<1>1. IInv => OccupancyAgrees
  <2> SUFFICES ASSUME IInv, NEW st \in Images PROVE EngagementSound(st) /\ EngagementFounded(st)
    BY DEF OccupancyAgrees
  <2>1. st \in {live, published, saved.state} \/ st \in Range(pending)
    BY DEF Images
  <2>2. CASE st \in {live, published, saved.state}
    BY <2>2 DEF IInv, ImagesGood, GoodState
  <2>3. CASE st \in Range(pending)
    <3>1. PICK k \in DOMAIN pending : st = pending[k]
      BY <2>3 DEF Range
    <3>2. CASE pending = <<>>
      BY <3>1, <3>2
    <3>3. CASE pending # <<>>
      <4>1. pending = <<Head(pending)>> /\ GoodState(Head(pending))
        BY <3>3 DEF IInv, ImagesGood
      <4> DEFINE h == Head(pending)
      <4>2. pending = <<h>> /\ GoodState(h)
        BY <4>1
      <4> HIDE DEF h
      <4>3. st = h
        BY <3>1, <4>2
      <4> QED BY <4>2, <4>3 DEF GoodState
    <3> QED BY <3>2, <3>3
  <2> QED BY <2>1, <2>2, <2>3
<1> QED BY <1>1, InvariantHolds, PTL

(* CancelAll, StageLoadedState and the two checks of RunTick keep worlds   *)
(* apart, however often and whenever loads come: but for a load between a  *)
(* tick's last check and its publish, or between the halves of a poll.     *)
THEOREM WorldsApart == Spec => []WorldsKeptApart
<1>1. IInv => WorldsKeptApart
  <2> SUFFICES ASSUME IInv PROVE WorldsKeptApart
    OBVIOUS
  <2>1. SnapshotOfThisWorld
    BY DEF IInv, WorldsKnown, SnapshotOfThisWorld
  <2>2. SimulatesThisWorld
    BY DEF IInv, WorldsKnown, Simulating, SimulatesThisWorld
  <2> QED BY <2>1, <2>2 DEF WorldsKeptApart
<1> QED BY <1>1, InvariantHolds, PTL

(* g_outstandingTicks, which PlotTick.cpp counts up at every Enqueue and   *)
(* down in RetireTick, never falls below the ticks still to be retired.    *)
THEOREM PendingCounted == Spec => []PendingTicksCounted
<1>1. IInv => PendingTicksCounted
  BY DEF IInv, Counted
<1> QED BY <1>1, InvariantHolds, PTL

(* No tick of this session is stamped beyond what g_forcedAheadGameHours   *)
(* and the clock allow, whatever the interval, the backlog and the jumps.  *)
THEOREM StampsHorizon == Spec => []StampsWithinHorizon
<1>1. IInv => StampsWithinHorizon
  BY DEF IInv, Horizons
<1> QED BY <1>1, InvariantHolds, PTL

(* AdaptPlot's promise: while no job throws, every live plot has a step to *)
(* dispatch or to work on.                                                 *)
THEOREM NoPlotStalls ==
    ASSUME ~Throws
    PROVE  Spec => []NoStalledPlot
<1>1. IInv => NoStalledPlot
  <2> SUFFICES ASSUME IInv, NEW id \in ActiveIn(live)
               PROVE  /\ ~PastPlan(live.plots[id])
                      /\ Current(live.plots[id]).state \in {"Planned", "InProgress"}
    BY DEF NoStalledPlot
  <2>1. GoodPlot(live.plots[id]) /\ live.plots[id].status = "Active"
    BY PlotFacts DEF IInv, ImagesGood
  <2> QED BY <2>1 DEF GoodPlot
<1> QED BY <1>1, InvariantHolds, PTL

(* Only the worker's turn, or a throw, moves the tick off a plot.          *)
LEMMA TurnIsAdvance ==
    ASSUME [Next]_vars, tick.pc = "advance", ~Throws
    PROVE  AdvancePlot \/ (tick'.pc = tick.pc /\ tick'.at = tick.at)
<1>1. CASE PreLoadGame \/ OnRevert
  <2>1. tick' = [tick EXCEPT !.cancelled = tick.pc # "idle"]
    BY <1>1 DEF PreLoadGame, OnRevert, CancelAll
  <2> QED BY <2>1
<1>2. CASE ~(PreLoadGame \/ OnRevert)
  BY <1>2 DEF Next, Poll, PollEnqueue, ForceTicks, SetTicksEnabled, Worker, SkipCancelled, PopJob,
     TakePendingState, BeginSimulation, BirthSkipped, BirthPlot, Reap, CheckBeforePublish,
     PublishSnapshot, RetireTick, Forget, JobThrows, Game, PassTime, Die, Save, OnLoad, vars
<1> QED BY <1>1, <1>2

(* "Every plot ends": a turn of AdvancePlot ends the plot, uses up one of   *)
(* its adaptations, moves its cursor or spends a tick of its step's budget, *)
(* each of which is capped, or waits for a carrier who is busy; while no   *)
(* job throws.                                                             *)
THEOREM EveryTurnAdvances ==
    ASSUME ~Throws
    PROVE  Spec => TurnsAdvance
<1> DEFINE p == live.plots[tick.at]
           q == live'.plots[tick.at]
           Turn == TurnTaken =>
                       /\ q.adaptations <= MaxAdaptations /\ q.cursor <= Len(q.plan) + 1
                       /\ (InHand(q) => Current(q).elapsed < StepBudget)
                       /\ Advanced(p, q) \/ (q = p /\ MustWait(p))
<1>1. ASSUME IInv, [Next]_vars, TurnTaken
      PROVE  /\ q.adaptations <= MaxAdaptations /\ q.cursor <= Len(q.plan) + 1
             /\ (InHand(q) => Current(q).elapsed < StepBudget)
             /\ Advanced(p, q) \/ (q = p /\ MustWait(p))
  <2>1. AdvancePlot /\ GoodState(live) /\ tick.at \in ActiveIn(live)
    BY <1>1, TurnIsAdvance DEF TurnTaken, IInv, ImagesGood, TurnIsActive
  <2>2. GoodState(live') /\ tick.at \in DOMAIN live'.plots /\ Forward(p, q)
    BY <2>1, AdvanceGood DEF TurnForward
  <2>3. GoodPlot(q)
    BY <2>2 DEF GoodState
  <2> HIDE DEF p, q
  <2> QED BY <2>2, <2>3 DEF GoodPlot, Forward
<1>2. IInv /\ [Next]_vars => [Turn]_tick
  BY <1>1
<1> HIDE DEF Turn
<1>3. Spec => [][Turn]_tick
  BY <1>2, InvariantHolds, PTL DEF Spec
<1> QED BY <1>3 DEF TurnsAdvance, Turn

(* Whoever holds the item came by it in a step of the plot's history.      *)
LEMMA HolderWasAgent ==
    ASSUME NEW p, p.history \in Seq(Step), ItemHolder(p) # NoOne
    PROVE  ItemHolder(p) \in Agents(p)
<1> DEFINE got == {k \in DOMAIN p.history : /\ p.history[k].kind \in {"fetch", "craft"}
                                            /\ p.history[k].outcome = "Succeeded"}
           last == CHOOSE k \in got : \A j \in got : j <= k
           len == Len(p.history)
<1>1. got # {}
  BY DEF ItemHolder
<1>2. len \in Nat /\ DOMAIN p.history = 1 .. len
  BY LenProperties
<1> HIDE DEF len
<1>3. got \subseteq 1 .. len
  BY <1>2
<1>4. ItemHolder(p) = p.history[last].actor
  BY <1>1 DEF ItemHolder
<1> HIDE DEF got
<1>5. \E k \in got : \A j \in got : j <= k
  <2> DEFINE behind == {len - k : k \in got}
  <2>1. behind \in SUBSET Nat /\ behind # {}
    <3>1. \A k \in got : len - k \in Nat
      BY <1>2, <1>3
    <3>2. PICK k \in got : TRUE
      BY <1>1
    <3>3. len - k \in behind
      BY <3>2
    <3> QED BY <3>1, <3>3
  <2>2. PICK d \in behind : \A e \in behind : d <= e
    BY <2>1, LeastExists
  <2>3. PICK k \in got : d = len - k
    BY <2>2
  <2>4. \A j \in got : len - k <= len - j
    BY <2>2, <2>3
  <2>5. \A j \in got : j <= k
    BY <1>2, <1>3, <2>4
  <2> QED BY <2>5
<1>6. last \in got
  BY <1>5
<1> HIDE DEF last
<1>7. last \in DOMAIN p.history
  BY <1>2, <1>3, <1>6
<1> QED BY <1>4, <1>7 DEF Agents

(* DispatchStep's wait for a bound step has somebody to wait for: the       *)
(* holder acts in a live plot, or masterminds one born after this, or was   *)
(* left behind by a plot whose mastermind was lost.  So waits cannot go     *)
(* round, however many plots there are.                                    *)
THEOREM BoundWaitsHaveGround == Spec => []BoundWaitsFounded
<1>1. IInv => BoundWaitsFounded
  <2> SUFFICES ASSUME IInv, NEW id \in ActiveIn(live),
                      ItemHolder(live.plots[id]) \notin dead \cup {NoOne},
                      HolderBusy(live.plots[id])
               PROVE  \/ LeftBehind(live, ItemHolder(live.plots[id]))
                      \/ \E other \in ActiveIn(live) :
                            /\ live.occupancy[ItemHolder(live.plots[id])].plotId = other
                            /\ \/ ActsIn(live.plots[other], ItemHolder(live.plots[id]))
                               \/ /\ live.plots[other].mastermind = ItemHolder(live.plots[id])
                                  /\ other > id
    BY DEF BoundWaitsFounded
  <2> DEFINE p == live.plots[id]
             h == ItemHolder(p)
  <2>1. GoodState(live) /\ p \in Plot /\ id \in Nat
    BY PlotFacts DEF IInv, ImagesGood, GoodPlot
  <2>2. h \in Agents(p)
    BY <2>1, HolderWasAgent DEF Plot
  <2>3. h # p.mastermind /\ IsEngaged(live.occupancy, h) /\ h # NoOne
    BY DEF HolderBusy
  <2>4. h \in NPC
    <3>1. PICK k \in DOMAIN p.history : h = p.history[k].actor
      BY <2>2 DEF Agents
    <3>2. p.history[k] \in Step
      BY <2>1, <3>1, LenProperties, ElementOfSeq DEF Plot
    <3> QED BY <2>3, <3>1, <3>2 DEF Step
  <2> HIDE DEF h
  <2>5. CASE LeftBehind(live, h)
    BY <2>5 DEF h
  <2>6. ASSUME NEW other \in ActiveIn(live), live.occupancy[h].plotId = other,
               h = live.plots[other].mastermind
        PROVE  other > id
    <3>1. ~(other < id)
      BY <2>1, <2>2, <2>6 DEF GoodState, SeniorsApart
    <3>2. other # id
      BY <2>3, <2>6
    <3>3. other \in Nat
      BY <2>1, PlotFacts
    <3> QED BY <2>1, <3>1, <3>2, <3>3
  <2>7. LeftBehind(live, h)
        \/ \E other \in ActiveIn(live) :
              /\ live.occupancy[h].plotId = other
              /\ h = live.plots[other].mastermind \/ ActsIn(live.plots[other], h)
    BY <2>1, <2>3, <2>4 DEF GoodState, EngagementFounded
  <2> QED BY <2>5, <2>6, <2>7 DEF h
<1> QED BY <1>1, InvariantHolds, PTL
=============================================================================
