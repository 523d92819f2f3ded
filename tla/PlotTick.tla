------------------------------ MODULE PlotTick ------------------------------
(***************************************************************************)
(* The faction-plot simulation: the plugin thread that fires ticks by the  *)
(* game clock, the dashboard that forces them, the plot worker that runs   *)
(* one tick at a time, and the game thread that saves and loads under all  *)
(* of them (PlotTick.cpp, PlotDispatch.cpp, PlotState.cpp, PlotCoSave.cpp, *)
(* and the operators of PlotCasting, PlotPlanning and PlotResolution a     *)
(* tick is made of).                                                       *)
(*                                                                         *)
(* A step's dice and a plan's wording are nondeterministic choices; whom a *)
(* step may be given to, who is engaged in what and when it ends are kept. *)
(***************************************************************************)
EXTENDS PlotCasting, Integers, Sequences, Functions

CONSTANTS
    Plans,             \* what the planner may answer: sequences of steps
    StepBudget,        \* ticks a step may take
    MaxConcurrent,     \* iPlotMaxConcurrent
    MaxAdaptations,    \* iPlotMaxAdaptations
    HistoryCap,        \* iPlotStepHistoryCap
    RetentionDays,     \* fPlotTerminalRetentionDays
    Interval,          \* fPlotTickIntervalGameHours
    MaxOutstanding,    \* iPlotMaxOutstandingTicks
    MaxClock, MaxJump, \* bounds: the game clock, and one jump of it
    MaxPlots,          \* bound: plots ever born in one world
    MaxForced,         \* bound: ticks forced in one session
    MaxDeaths,         \* bound: NPCs dead at once
    MaxLoads,          \* bound: loads
    Throws             \* BOOLEAN: whether a job may throw

ASSUME PlotAssumption ==
    /\ MaxConcurrent \in Nat \ {0} /\ MaxAdaptations \in Nat /\ HistoryCap \in Nat \ {0}
    /\ StepBudget \in Nat \ {0} /\ Interval \in Nat \ {0}
    /\ RetentionDays \in Nat /\ MaxOutstanding \in Nat \ {0}
    /\ {MaxClock, MaxJump, MaxPlots, MaxForced, MaxDeaths, MaxLoads} \subseteq Nat
    /\ Throws \in BOOLEAN

-----------------------------------------------------------------------------
(* Steps and plots.  Kinds: a fetched or crafted step obtains the item, a  *)
(* handed one is bound to whoever has it, a plain one does neither.        *)

Kinds == {"plain", "fetch", "craft", "hand"}

(* A step as the planner makes it. *)
Planned(kind, mark) ==
    [kind |-> kind, mark |-> mark, state |-> "Planned", outcome |-> "None",
     actor |-> NoOne, elapsed |-> 0]

Step == [kind: Kinds, mark: NPC \cup {NoOne},
         state: {"Planned", "InProgress", "Succeeded", "Failed"},
         outcome: {"None", "Succeeded", "FailedTimeout", "FailedCaught"},
         actor: NPC \cup {NoOne}, elapsed: Nat]

(* A plan it answers with has a step at least, and no step has begun.      *)
ASSUME PlansAssumption ==
    Plans \subseteq Seq({Planned(kind, mark) : kind \in Kinds, mark \in NPC \cup {NoOne}}) \ {<<>>}

Outcomes == {"None", "ObjectiveAchieved", "Conceded", "AdaptationCapHit",
             "MastermindLost", "FinishFailed"}

IsTerminal(p) == p.status # "Active"
Current(p) == p.plan[p.cursor]
PastPlan(p) == p.cursor > Len(p.plan)

(* The agents a plot sent before (EarlierAgents). *)
EarlierAgents(p) == {p.history[k].actor : k \in DOMAIN p.history} \ {NoOne, p.mastermind}

(* Whoever came away with the item last, as far as the history remembers. *)
ItemHolder(p) ==
    LET got == {k \in DOMAIN p.history : /\ p.history[k].kind \in {"fetch", "craft"}
                                         /\ p.history[k].outcome = "Succeeded"}
    IN  IF got = {} THEN NoOne
        ELSE p.history[CHOOSE k \in got : \A j \in got : j <= k].actor

(* A plot with no step after the one at the cursor has lost its end. *)
FinishFailed(p) == p.cursor + 1 > Len(p.plan)

(* PlotState: every mutable field of the simulation in one copyable value. *)
(* The vector of plots is in the order of their ids, births being appended *)
(* and reaping keeping the order, so it is a function from ids to plots.   *)
(* "world" is history: which world the state is of.                        *)
EmptyState(w) ==
    [plots |-> <<>>, occupancy |-> [n \in NPC |-> NoRow],
     nextPlotId |-> 1, simGameDay |-> 0, world |-> w]

ActiveIn(st) == {id \in DOMAIN st.plots : ~IsTerminal(st.plots[id])}

-----------------------------------------------------------------------------
VARIABLES
    clock,              \* the game clock, in hours
    dead,               \* NPCs dead in the game
    lastFired,          \* g_lastFiredGameHours
    needsRebase,        \* g_needsRebase
    ticksEnabled,       \* g_ticksEnabled
    forcedAhead,        \* g_forcedAheadGameHours
    poll,               \* what a poll decided on and has still to enqueue
    outstandingTicks,   \* g_outstandingTicks
    queue,              \* PlotDispatch's g_queue: stamp and cancelled flag
                        \* (late is history: stamped by the clock of a world left since)
    tick,               \* the job being run, and how far it is
    live,               \* g_live
    published,          \* g_published
    pending,            \* g_pending: <<>>, or the state staged
    saved,              \* the co-save on disk
    loading,            \* how far a load is
    world,              \* history: the worlds there have been
    overtaken           \* history: a tick published that a load had overtaken

schedule == <<lastFired, needsRebase, ticksEnabled, forcedAhead, poll>>
images == <<published, pending, saved>>
game == <<clock, dead, loading, world>>
vars == <<clock, dead, lastFired, needsRebase, ticksEnabled, forcedAhead, poll,
          outstandingTicks, queue, tick, live, published, pending, saved,
          loading, world, overtaken>>

Idle == [pc |-> "idle", stamp |-> 0, cancelled |-> FALSE, late |-> FALSE, at |-> 0]
NoPoll == [stamps |-> <<>>, late |-> FALSE]

Init ==
    /\ clock = 0 /\ dead = {}
    /\ lastFired = 0 /\ needsRebase = TRUE /\ ticksEnabled \in BOOLEAN
    /\ forcedAhead = 0 /\ poll = NoPoll /\ outstandingTicks = 0
    /\ queue = <<>> /\ tick = Idle
    /\ live = EmptyState(0) /\ published = EmptyState(0) /\ pending = <<>>
    /\ saved = [state |-> EmptyState(0), clock |-> 0, dead |-> {}]
    /\ loading = "no" /\ world = 0 /\ overtaken = FALSE

-----------------------------------------------------------------------------
(* The schedule. *)

(* PlotDispatch::OutstandingCount: handles queued or running. *)
OutstandingCount == Len(queue) + (IF tick.pc = "idle" THEN 0 ELSE 1)

(* PlotTick's Enqueue, once per stamp. *)
Enqueue(stamps, late) ==
    /\ queue' = queue \o [k \in DOMAIN stamps |->
                             [stamp |-> stamps[k], cancelled |-> FALSE, late |-> late]]
    /\ outstandingTicks' = outstandingTicks + Len(stamps)

(* PlotSchedule::Advance: a clock gone backwards re-bases; otherwise every *)
(* boundary crossed is passed, and only what there is room for is stamped. *)
Advance(last, now, outstanding) ==
    LET boundaries == (now - last) \div Interval
        room       == IF outstanding >= MaxOutstanding THEN 0 ELSE MaxOutstanding - outstanding
        fired      == IF boundaries < room THEN boundaries ELSE room
    IN  IF now < last
        THEN [newLast |-> now, stamps |-> <<>>]
        ELSE [newLast |-> last + Interval * boundaries,
              stamps  |-> [k \in 1..fired |-> last + Interval * k]]

(* The plugin thread looks at the clock.  Stopping the driver for a load    *)
(* does not take back a poll it has queued already.                         *)
Poll ==
    /\ poll = NoPoll
    /\ IF ~ticksEnabled
       THEN /\ needsRebase' = TRUE
            /\ UNCHANGED <<lastFired, poll>>
       ELSE /\ clock > 0
            /\ needsRebase' = FALSE
            /\ IF needsRebase
               THEN lastFired' = clock /\ UNCHANGED poll
               ELSE LET decision == Advance(lastFired, clock, OutstandingCount)
                    IN  /\ lastFired' = decision.newLast
                        /\ poll' = [poll EXCEPT !.stamps = decision.stamps]
    /\ UNCHANGED <<game, ticksEnabled, forcedAhead, outstandingTicks, queue, tick, live,
                   images, overtaken>>

(* Before it enqueues them it has the game thread count the dead, and waits. *)
PollEnqueue ==
    /\ poll.stamps # <<>>
    /\ Enqueue([k \in DOMAIN poll.stamps |-> poll.stamps[k] + forcedAhead], poll.late)
    /\ poll' = NoPoll
    /\ UNCHANGED <<game, lastFired, needsRebase, ticksEnabled, forcedAhead, tick, live,
                   images, overtaken>>

(* The dashboard forces a burst, on top of the hours earlier bursts made up. *)
ForceTicks(count) ==
    /\ loading = "no"
    /\ forcedAhead + Interval * count <= Interval * MaxForced
    /\ Enqueue([k \in 1..count |-> clock + forcedAhead + Interval * k], FALSE)
    /\ forcedAhead' = forcedAhead + Interval * count
    /\ UNCHANGED <<game, lastFired, needsRebase, ticksEnabled, poll, tick, live, images, overtaken>>

SetTicksEnabled ==
    /\ ticksEnabled' = ~ticksEnabled
    /\ UNCHANGED <<game, lastFired, needsRebase, forcedAhead, poll, outstandingTicks,
                   queue, tick, live, images, overtaken>>

-----------------------------------------------------------------------------
(* The worker: PlotDispatch's loop and RunTick. *)

At(pc) == [tick EXCEPT !.pc = pc]

(* A job cancelled while it sat in the queue does nothing at all. *)
SkipCancelled ==
    /\ tick.pc = "idle" /\ queue # <<>> /\ Head(queue).cancelled
    /\ queue' = Tail(queue)
    /\ UNCHANGED <<game, schedule, outstandingTicks, tick, live, images, overtaken>>

PopJob ==
    /\ tick.pc = "idle" /\ queue # <<>> /\ ~Head(queue).cancelled
    /\ queue' = Tail(queue)
    /\ tick' = [pc |-> "start", stamp |-> Head(queue).stamp, cancelled |-> FALSE,
                late |-> Head(queue).late, at |-> 0]
    /\ UNCHANGED <<game, schedule, outstandingTicks, live, images, overtaken>>

(* A load that landed while the job was queued takes effect here. *)
TakePendingState ==
    /\ tick.pc = "start"
    /\ IF tick.cancelled
       THEN tick' = At("retire") /\ UNCHANGED <<live, pending>>
       ELSE /\ tick' = At("begin")
            /\ pending' = <<>>
            /\ live' = IF pending = <<>> THEN live ELSE Head(pending)
    /\ UNCHANGED <<game, schedule, outstandingTicks, queue, published, saved, overtaken>>

BeginSimulation ==
    /\ tick.pc = "begin"
    /\ IF tick.cancelled
       THEN tick' = At("retire") /\ live' = live
       ELSE tick' = At("birth") /\ live' = [live EXCEPT !.simGameDay = tick.stamp]
    /\ UNCHANGED <<game, schedule, outstandingTicks, queue, images, overtaken>>

NextTurnOfAny(st, at) == \* mutant: plots that have ended get a turn too
    LET ahead == {id \in DOMAIN st.plots : id > at}
    IN  IF ahead = {} THEN At("reap")
        ELSE [tick EXCEPT !.pc = "advance",
                          !.at = CHOOSE id \in ahead : \A other \in ahead : id <= other]

(* The worker's turn passes to the next plot still active, or to the reaper. *)
NextTurn(st, at) ==
    LET ahead == {id \in ActiveIn(st) : id > at}
    IN  IF ahead = {} THEN At("reap")
        ELSE [tick EXCEPT !.pc = "advance",
                          !.at = CHOOSE id \in ahead : \A other \in ahead : id <= other]

(* BirthPlot.  Nobody eligible, no decision to be had or a rejected answer *)
(* leaves everything as it was.                                            *)
BirthSkipped ==
    /\ tick.pc = "birth"
    /\ tick' = NextTurn(live, 0)
    /\ UNCHANGED <<game, schedule, outstandingTicks, queue, live, images, overtaken>>

BirthPlot(m, plan) ==
    LET id   == live.nextPlotId
        plot == [mastermind |-> m, plan |-> plan, cursor |-> 1, history |-> <<>>,
                 adaptations |-> 0, status |-> "Active", outcome |-> "None", endedOn |-> 0]
    IN  /\ tick.pc = "birth"
        /\ Cardinality(ActiveIn(live)) < MaxConcurrent
        /\ m \in MastermindShortlist(live.occupancy, live.simGameDay, dead)
        /\ id <= MaxPlots
        /\ live' = [live EXCEPT !.nextPlotId = id + 1,
                                !.occupancy = Engage(live.occupancy, m, "Mastermind", id),
                                !.plots = [k \in DOMAIN live.plots \cup {id} |->
                                             IF k = id THEN plot ELSE live.plots[k]]]
        /\ tick' = NextTurn(live', 0)
        /\ UNCHANGED <<game, schedule, outstandingTicks, queue, images, overtaken>>

(* What ending a plot does: the mastermind's engagement is released. *)
Ended(p, status, outcome) ==
    [p EXCEPT !.status = status, !.outcome = outcome, !.endedOn = live.simGameDay]

ReleaseMastermindNot(occ, p) == occ \* mutant: a plot that ends keeps its mastermind

ReleaseMastermind(occ, p) == Release(occ, p.mastermind, live.simGameDay)

(* AdvancePlot settles the plot at tick.at as p, the table as occ. *)
Settle(p, occ) ==
    /\ live' = [live EXCEPT !.plots[tick.at] = p, !.occupancy = occ]
    /\ tick' = NextTurn(live', tick.at)
    /\ UNCHANGED <<game, schedule, outstandingTicks, queue, images, overtaken>>

SettleEnded(p, occ, status, outcome) ==
    Settle(Ended(p, status, outcome), ReleaseMastermind(occ, p))

Advancing(p) == tick.pc = "advance" /\ p = live.plots[tick.at]

(* The mastermind is gone, or the plan is done already. *)
EndAtOnce(p) ==
    /\ Advancing(p)
    /\ p.mastermind \in dead \/ PastPlan(p)
    /\ IF p.mastermind \in dead
       THEN SettleEnded(p, live.occupancy, "Failed", "MastermindLost")
       ELSE SettleEnded(p, live.occupancy, "Succeeded", "ObjectiveAchieved")

(* The step at the cursor has to be given to somebody first. *)
ToDispatch(p) ==
    Advancing(p) /\ p.mastermind \notin dead /\ ~PastPlan(p) /\ Current(p).state = "Planned"

Admitted(s) == IF s.kind = "craft" THEN Makers ELSE NPC

Eligible(p) ==
    EligibleAgents(p.mastermind, Current(p).mark, live.occupancy, live.simGameDay, dead,
                   EarlierAgents(p), Admitted(Current(p)))

(* A bound step is carried out by whoever has the item, and waits while    *)
(* they are engaged elsewhere; an open one is given to one of the eligible.*)
HolderBusyNever(p) == FALSE \* mutant: the holder's other work is not looked at

HolderBusy(p) ==
    ItemHolder(p) # p.mastermind /\ IsEngaged(live.occupancy, ItemHolder(p))

HolderLost(p) == ItemHolder(p) \in dead \cup {NoOne}

MayCarryOut(p) ==
    IF Current(p).kind = "hand"
    THEN IF HolderLost(p) \/ HolderBusy(p) THEN {} ELSE {ItemHolder(p)}
    ELSE Eligible(p)

MustWait(p) ==
    IF Current(p).kind = "hand"
    THEN ~HolderLost(p) /\ HolderBusy(p)
    ELSE /\ Eligible(p) = {} /\ Current(p).kind = "craft"
         /\ BusyToday(p.mastermind, Current(p).mark, live.occupancy, live.simGameDay, dead, Makers)

DispatchTo(p, n) ==
    /\ ToDispatch(p)
    /\ n \in MayCarryOut(p)
    /\ Settle([p EXCEPT !.plan[p.cursor].actor = n, !.plan[p.cursor].state = "InProgress"],
              IF n = p.mastermind THEN live.occupancy
              ELSE Engage(live.occupancy, n, "Actor", tick.at))

DispatchWait(p) ==
    /\ ToDispatch(p) /\ MustWait(p)
    /\ Settle(p, live.occupancy)

DispatchImpossible(p) ==
    /\ ToDispatch(p) /\ MayCarryOut(p) = {} /\ ~MustWait(p)
    /\ SettleEnded(p, live.occupancy, "Failed", "Conceded")

(* One tick of the race: PlotResolution::AdvanceStep. *)
Working(p) ==
    Advancing(p) /\ p.mastermind \notin dead /\ ~PastPlan(p) /\ Current(p).state = "InProgress"

StepWorks(p) ==
    /\ Working(p) /\ Current(p).elapsed + 1 < StepBudget
    /\ Settle([p EXCEPT !.plan[p.cursor].elapsed = @ + 1], live.occupancy)

(* A step that is over already is left alone. *)
LeaveAlone(p) ==
    /\ Advancing(p) /\ p.mastermind \notin dead /\ ~PastPlan(p)
    /\ Current(p).state \in {"Succeeded", "Failed"}
    /\ Settle(p, live.occupancy)

(* The step as it resolved, put into the history; its agent released. *)
Resolved(p, state, outcome) ==
    [Current(p) EXCEPT !.state = state, !.outcome = outcome, !.elapsed = @ + 1]

RetireStep(p, step) ==
    LET longer == Append(p.history, step)
    IN  [p EXCEPT !.plan[p.cursor] = step,
                  !.history = IF Len(longer) > HistoryCap THEN Tail(longer) ELSE longer]

ReleaseActor(p) ==
    IF Current(p).actor \in {NoOne, p.mastermind} THEN live.occupancy
    ELSE Release(live.occupancy, Current(p).actor, live.simGameDay)

StepSucceeds(p) ==
    LET q == [RetireStep(p, Resolved(p, "Succeeded", "Succeeded")) EXCEPT !.cursor = @ + 1]
    IN  /\ Working(p)
        /\ IF PastPlan(q)
           THEN SettleEnded(q, ReleaseActor(p), "Succeeded", "ObjectiveAchieved")
           ELSE Settle(q, ReleaseActor(p))

(* Caught by a mishap, or out of time. *)
Failures(p) ==
    {"FailedCaught"} \cup (IF Current(p).elapsed + 1 >= StepBudget THEN {"FailedTimeout"} ELSE {})

Failed(p, outcome) == RetireStep(p, Resolved(p, "Failed", outcome))

(* The last step failing is the scheme failing. *)
FinishFails(p, outcome) ==
    /\ Working(p) /\ outcome \in Failures(p) /\ FinishFailed(p)
    /\ SettleEnded(Failed(p, outcome), ReleaseActor(p), "Failed", "FinishFailed")

(* AdaptPlot: the cap ends it, the model concedes, or the model substitutes *)
(* another way from the failed step on.                                     *)
CapHit(p, outcome) ==
    /\ Working(p) /\ outcome \in Failures(p) /\ ~FinishFailed(p)
    /\ p.adaptations >= MaxAdaptations
    /\ SettleEnded(Failed(p, outcome), ReleaseActor(p), "Failed", "AdaptationCapHit")

Adapting(p, outcome) ==
    /\ Working(p) /\ outcome \in Failures(p) /\ ~FinishFailed(p)
    /\ p.adaptations < MaxAdaptations

Concede(p, outcome) ==
    /\ Adapting(p, outcome)
    /\ SettleEnded([Failed(p, outcome) EXCEPT !.adaptations = @ + 1],
                   ReleaseActor(p), "Failed", "Conceded")

SubstituteAfter(p, outcome, tail) == \* mutant: the failed step is left in the plan
    /\ Adapting(p, outcome)
    /\ Settle([Failed(p, outcome) EXCEPT !.adaptations = @ + 1,
                                         !.plan = SubSeq(@, 1, p.cursor) \o tail],
              ReleaseActor(p))

SubstituteUncounted(p, outcome, tail) == \* mutant: the adaptation is not counted
    /\ Adapting(p, outcome)
    /\ Settle([Failed(p, outcome) EXCEPT !.plan = SubSeq(p.plan, 1, p.cursor - 1) \o tail],
              ReleaseActor(p))

Substitute(p, outcome, tail) ==
    /\ Adapting(p, outcome)
    /\ Settle([Failed(p, outcome) EXCEPT !.adaptations = @ + 1,
                                         !.plan = SubSeq(p.plan, 1, p.cursor - 1) \o tail],
              ReleaseActor(p))

(* Terminal plots past their retention go, and rows that are spent. *)
Reap ==
    LET stay == {id \in DOMAIN live.plots :
                    ~(/\ IsTerminal(live.plots[id])
                      /\ live.simGameDay - live.plots[id].endedOn > RetentionDays)}
    IN  /\ tick.pc = "reap"
        /\ live' = [live EXCEPT !.plots = Restrict(live.plots, stay),
                                !.occupancy = PruneExpired(live.occupancy, live.simGameDay)]
        /\ tick' = At("check")
        /\ UNCHANGED <<game, schedule, outstandingTicks, queue, images, overtaken>>

CheckBeforePublishNot == \* mutant: a cancelled tick publishes
    /\ tick.pc = "check"
    /\ tick' = At("publish")
    /\ UNCHANGED <<game, schedule, outstandingTicks, queue, live, images, overtaken>>

CheckBeforePublish ==
    /\ tick.pc = "check"
    /\ tick' = At(IF tick.cancelled THEN "retire" ELSE "publish")
    /\ UNCHANGED <<game, schedule, outstandingTicks, queue, live, images, overtaken>>

PublishSnapshot ==
    /\ tick.pc = "publish"
    /\ published' = live
    /\ tick' = At("retire")
    /\ overtaken' = (tick.late \/ (overtaken /\ tick.cancelled))
    /\ UNCHANGED <<game, schedule, outstandingTicks, queue, live, pending, saved>>

RetireTick ==
    /\ tick.pc = "retire"
    /\ outstandingTicks' = outstandingTicks - 1
    /\ tick' = At("forget")
    /\ UNCHANGED <<game, schedule, queue, live, images, overtaken>>

(* The dispatcher lets go of the job once its body has returned. *)
Forget ==
    /\ tick.pc = "forget"
    /\ tick' = Idle
    /\ UNCHANGED <<game, schedule, outstandingTicks, queue, live, images, overtaken>>

(* A job that throws is caught by the worker loop, wherever it is up to    *)
(* RetireTick, which it then never gets to.  Whoever throws inside         *)
(* AdaptPlot leaves the failed step retired and nothing in its place.      *)
JobThrows ==
    /\ Throws
    /\ tick.pc \in {"start", "begin", "birth", "advance", "reap", "check", "publish"}
    /\ tick' = Idle
    /\ UNCHANGED <<game, schedule, outstandingTicks, queue, live, images, overtaken>>

AdaptThrows(p, outcome) ==
    /\ Throws /\ Adapting(p, outcome)
    /\ live' = [live EXCEPT !.plots[tick.at] = [Failed(p, outcome) EXCEPT !.adaptations = @ + 1],
                            !.occupancy = ReleaseActor(p)]
    /\ tick' = Idle
    /\ UNCHANGED <<game, schedule, outstandingTicks, queue, images, overtaken>>

AdvancePlot ==
    \E p \in Range(live.plots) :
        \/ EndAtOnce(p)
        \/ \E n \in NPC : DispatchTo(p, n)
        \/ DispatchWait(p)
        \/ DispatchImpossible(p)
        \/ StepWorks(p) \/ LeaveAlone(p)
        \/ StepSucceeds(p)
        \/ \E outcome \in {"FailedCaught", "FailedTimeout"} :
              \/ FinishFails(p, outcome)
              \/ CapHit(p, outcome)
              \/ Concede(p, outcome)
              \/ \E tail \in Plans : Substitute(p, outcome, tail)
              \/ AdaptThrows(p, outcome)

Worker ==
    \/ SkipCancelled \/ PopJob \/ TakePendingState \/ BeginSimulation
    \/ BirthSkipped
    \/ \E m \in NPC, plan \in Plans : BirthPlot(m, plan)
    \/ AdvancePlot
    \/ Reap \/ CheckBeforePublish \/ PublishSnapshot \/ RetireTick \/ Forget
    \/ JobThrows

-----------------------------------------------------------------------------
(* The game thread. *)

PassTime(hours) ==
    /\ loading = "no" /\ clock + hours <= MaxClock
    /\ clock' = clock + hours
    /\ UNCHANGED <<dead, loading, world, schedule, outstandingTicks, queue, tick, live,
                   images, overtaken>>

Die(n) ==
    /\ loading = "no" /\ n \notin dead /\ Cardinality(dead) < MaxDeaths
    /\ dead' = dead \cup {n}
    /\ UNCHANGED <<clock, loading, world, schedule, outstandingTicks, queue, tick, live,
                   images, overtaken>>

(* The co-save is written from the snapshot. *)
Save ==
    /\ loading = "no" /\ world < 2 * MaxLoads
    /\ saved' = [state |-> published, clock |-> clock, dead |-> dead]
    /\ UNCHANGED <<game, schedule, outstandingTicks, queue, tick, live, published,
                   pending, overtaken>>

CancelAllQueued == \* mutant: the job being run is not told
    /\ queue' = [k \in DOMAIN queue |-> [queue[k] EXCEPT !.cancelled = TRUE]]
    /\ tick' = tick

(* CancelAll, then a state staged and published at once. *)
CancelAll ==
    /\ queue' = [k \in DOMAIN queue |-> [queue[k] EXCEPT !.cancelled = TRUE]]
    /\ tick' = [tick EXCEPT !.cancelled = tick.pc # "idle"]

StageLoadedState(st) ==
    /\ pending' = <<st>> /\ published' = st
    /\ overtaken' = (tick.pc = "publish")

(* kPreLoadGame, and a session start for the schedule. *)
PreLoadGame ==
    /\ loading = "no" /\ world < 2 * MaxLoads
    /\ loading' = "revert" /\ world' = world + 1
    /\ CancelAll
    /\ StageLoadedState(EmptyState(world + 1))
    /\ needsRebase' = TRUE /\ forcedAhead' = 0
    /\ poll' = [poll EXCEPT !.late = poll # NoPoll]
    /\ UNCHANGED <<clock, dead, lastFired, ticksEnabled, outstandingTicks, live, saved>>

(* The serialization interface's own revert. *)
OnRevert ==
    /\ loading = "revert"
    /\ loading' = "read"
    /\ CancelAll
    /\ StageLoadedState(EmptyState(world))
    /\ UNCHANGED <<clock, dead, world, schedule, outstandingTicks, live, saved>>

RestoredAsWritten(st, gone) == \* mutant: the table is taken as it was written
    [st EXCEPT !.plots = Restrict(st.plots, DOMAIN st.plots \ gone), !.world = world + 1]

(* ReadState: plots whose forms are gone are dropped, and whoever was      *)
(* engaged in a plot that is not there is free.                            *)
Restored(st, gone) ==
    LET kept == DOMAIN st.plots \ gone
    IN  [st EXCEPT !.plots = Restrict(st.plots, kept),
                   !.occupancy = [n \in NPC |->
                       IF st.occupancy[n].plotId \in kept THEN st.occupancy[n]
                       ELSE [st.occupancy[n] EXCEPT !.plotId = 0]],
                   !.world = world + 1]

(* A record the plugin cannot read is discarded for an empty state. *)
OnLoad ==
    /\ loading = "read"
    /\ loading' = "no" /\ world' = world + 1
    /\ \/ \E gone \in SUBSET DOMAIN saved.state.plots :
              StageLoadedState(Restored(saved.state, gone))
       \/ StageLoadedState(EmptyState(world + 1))
    /\ clock' = saved.clock /\ dead' = saved.dead
    /\ UNCHANGED <<schedule, outstandingTicks, queue, tick, live, saved>>

Game ==
    \/ \E hours \in 1..MaxJump : PassTime(hours)
    \/ \E n \in NPC : Die(n)
    \/ Save \/ PreLoadGame \/ OnRevert \/ OnLoad

Next ==
    \/ Poll \/ PollEnqueue
    \/ \E count \in 1..MaxForced : ForceTicks(count)
    \/ SetTicksEnabled
    \/ Worker
    \/ Game

Spec == Init /\ [][Next]_vars

-----------------------------------------------------------------------------
(* Properties. *)

Plot == [mastermind: NPC, plan: Seq(Step), cursor: Nat \ {0}, history: Seq(Step),
         adaptations: Nat, status: {"Active", "Succeeded", "Failed"},
         outcome: Outcomes, endedOn: Nat]

(* A PlotState: its plots have been numbered, and nobody holds a number    *)
(* that has not been given out.                                            *)
IsState(st) ==
    /\ st.nextPlotId \in Nat \ {0}
    /\ st.simGameDay \in Nat
    /\ st.occupancy \in [NPC -> Occupancy]
    /\ DOMAIN st.plots \subseteq 1..(st.nextPlotId - 1)
    /\ st.plots \in [DOMAIN st.plots -> Plot]
    /\ st.world \in Nat

(* Types, of PlotTick.cpp's globals, the queue and every image of the state. *)
TypeOK ==
    /\ clock \in Nat /\ dead \subseteq NPC
    /\ lastFired \in Nat /\ needsRebase \in BOOLEAN /\ ticksEnabled \in BOOLEAN
    /\ forcedAhead \in Nat /\ outstandingTicks \in Nat
    /\ poll \in [stamps: Seq(Nat), late: BOOLEAN]
    /\ queue \in Seq([stamp: Nat, cancelled: BOOLEAN, late: BOOLEAN])
    /\ tick \in [pc: {"idle", "start", "begin", "birth", "advance", "reap", "check",
                      "publish", "retire", "forget"},
                 stamp: Nat, cancelled: BOOLEAN, late: BOOLEAN, at: Nat]
    /\ tick.pc = "advance" => tick.at \in ActiveIn(live)
    /\ IsState(live) /\ IsState(published) /\ IsState(saved.state)
    /\ pending # <<>> => pending = <<Head(pending)>> /\ IsState(Head(pending))
    /\ saved.clock \in Nat /\ saved.dead \subseteq NPC
    /\ loading \in {"no", "revert", "read"} /\ world \in Nat /\ overtaken \in BOOLEAN

(* The step at the cursor of p is in its agent's hands. *)
InHand(p) == ~PastPlan(p) /\ Current(p).state = "InProgress"

(* What a plot says n is doing in it. *)
ActsIn(p, n) == InHand(p) /\ n = Current(p).actor /\ n # p.mastermind

(* Everybody a live plot counts on is on the table as engaged in that plot, *)
(* in the role they have in it: the plot list and the occupancy table,      *)
(* which PlotTick.cpp keeps by hand at a dozen places, agree.  Since a row  *)
(* names one plot, no two live plots ever share a person.                   *)
EngagementSound(st) ==
    \A id \in ActiveIn(st) :
        LET p == st.plots[id]
        IN  /\ st.occupancy[p.mastermind].plotId = id
            /\ st.occupancy[p.mastermind].role = "Mastermind"
            /\ \A n \in NPC : ActsIn(p, n) =>
                   st.occupancy[n].plotId = id /\ st.occupancy[n].role = "Actor"

(* The agent of a plot whose mastermind was lost, whom EndPlot leaves       *)
(* engaged: in the plot while it is on the list, in nothing once it is     *)
(* reaped.                                                                 *)
LeftBehind(st, n) ==
    LET id == st.occupancy[n].plotId
    IN  /\ st.occupancy[n].role = "Actor"
        /\ id < st.nextPlotId
        /\ id \in DOMAIN st.plots =>
              st.plots[id].outcome = "MastermindLost" /\ ActsIn(st.plots[id], n)

(* The other way round: whoever is engaged has something to do in a plot   *)
(* that lives, but for those left behind.  An engagement nobody ends would *)
(* keep its NPC out of every later casting.                                *)
EngagementFounded(st) ==
    \A n \in NPC : IsEngaged(st.occupancy, n) =>
        \/ LeftBehind(st, n)
        \/ \E id \in ActiveIn(st) :
              /\ st.occupancy[n].plotId = id
              /\ n = st.plots[id].mastermind \/ ActsIn(st.plots[id], n)

(* The live state, what the dashboard and the co-save read, what is staged *)
(* and what is on disk.                                                    *)
Images == {live, published, saved.state} \cup Range(pending)

(* The plot list and the table tell the same story, in every image.        *)
OccupancyAgrees == \A st \in Images : EngagementSound(st) /\ EngagementFounded(st)

(* The wait of a bound step has somebody to wait for: its holder is at work *)
(* on a step of a live plot, or masterminds a younger one, or was left      *)
(* behind.  Such waits can therefore not go round in a circle.              *)
BoundWaitsFounded ==
    \A id \in ActiveIn(live) :
        LET p == live.plots[id]
            h == ItemHolder(p)
        IN  (/\ ~PastPlan(p) /\ Current(p).kind = "hand" /\ Current(p).state = "Planned"
             /\ h \notin dead \cup {NoOne} /\ HolderBusy(p))
            => \/ LeftBehind(live, h)
               \/ \E other \in ActiveIn(live) :
                     /\ live.occupancy[h].plotId = other
                     /\ \/ ActsIn(live.plots[other], h)
                        \/ live.plots[other].mastermind = h /\ other > id

(* "A plot that stalls with a failed step and no next one is the outcome    *)
(* none of these may produce" (AdaptPlot): while no job throws, a live plot *)
(* always has a step to dispatch or to work on.                             *)
NoStalledPlot ==
    \A id \in ActiveIn(live) :
        /\ ~PastPlan(live.plots[id])
        /\ Current(live.plots[id]).state \in {"Planned", "InProgress"}

(* What the turn of a plot does to it: the plot ends, is re-planned for one *)
(* more adaptation, moves to its next step, starts one or works on one.     *)
Advanced(p, q) ==
    \/ IsTerminal(q)
    \/ q.adaptations > p.adaptations
    \/ q.adaptations = p.adaptations /\ q.cursor > p.cursor
    \/ /\ q.adaptations = p.adaptations /\ q.cursor = p.cursor
       /\ \/ Current(p).state = "Planned" /\ Current(q).state = "InProgress"
          \/ InHand(p) /\ InHand(q) /\ Current(q).elapsed > Current(p).elapsed

(* Every turn brings a plot nearer its end, or leaves it as it is because   *)
(* the one person who can carry its step out is busy.  Adaptations, steps   *)
(* and ticks being capped, a plot that does not wait for ever ends.         *)
TurnTaken == tick.pc = "advance" /\ <<tick'.pc, tick'.at>> # <<tick.pc, tick.at>>

TurnsAdvance ==
    [][TurnTaken =>
        LET p == live.plots[tick.at]
            q == live'.plots[tick.at]
        IN  /\ q.adaptations <= MaxAdaptations /\ q.cursor <= Len(q.plan) + 1
            /\ (InHand(q) => Current(q).elapsed < StepBudget)
            /\ Advanced(p, q) \/ (q = p /\ MustWait(p))]_tick

(* No tick still to be run is stamped later than the furthest hour the      *)
(* session has been told of: forcing time does not move the schedule, and   *)
(* a load takes the hours it made up with the ticks that carried them.      *)
(* Ticks that a poll decided on before a load and enqueued after it are not *)
(* counted: they carry the old world's hours into the new one.              *)
OfThisWorld(job) == ~job.cancelled /\ ~job.late

StampsWithinHorizon ==
    loading = "no" =>
        /\ \A k \in DOMAIN queue : OfThisWorld(queue[k]) => queue[k].stamp <= clock + forcedAhead
        /\ tick.pc # "idle" /\ OfThisWorld(tick) => tick.stamp <= clock + forcedAhead

(* A load keeps the worlds apart.  What the dashboard shows and a save      *)
(* writes is of the world being played from the moment a load begins,       *)
(* unless a load came between the last check of a tick and its publish, or  *)
(* between the two halves of a poll; and a tick that is not cancelled, nor  *)
(* such a poll's, simulates the world being played, with nothing staged     *)
(* that it missed.                                                          *)
SnapshotOfThisWorld == published.world = world \/ overtaken

SimulatesThisWorld ==
    tick.pc \in {"birth", "advance", "reap", "check", "publish"} /\ OfThisWorld(tick) =>
        live.world = world /\ pending = <<>>

WorldsKeptApart == SnapshotOfThisWorld /\ SimulatesThisWorld

(* The pending ticks the tab shows, and locks its buttons by, are never     *)
(* fewer than the ticks that have still to be retired.                      *)
PendingTicksCounted ==
    outstandingTicks >= Len(queue) + (IF tick.pc \in {"idle", "forget"} THEN 0 ELSE 1)

-----------------------------------------------------------------------------
(* What the repository says of the program and the program does not do.     *)

(* "Slot released on any terminal state" (PHASE_17_FACTION_PLOTS.md): the   *)
(* people of a plot that is over are free.                                  *)
SlotsReleased ==
    \A n \in NPC : IsEngaged(live.occupancy, n) =>
        live.occupancy[n].plotId \in ActiveIn(live)
=============================================================================
