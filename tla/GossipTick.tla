----------------------------- MODULE GossipTick -----------------------------
(***************************************************************************)
(* The gossip subsystem between its threads: the schedule and its poll     *)
(* (src/GossipTick.cpp), the cancellable worker (src/GossipDispatch.cpp),  *)
(* the tick it runs (GossipHarvest.cpp, GossipContent.cpp, GossipSim.cpp)  *)
(* and the load sequence that replaces the world under all of them         *)
(* (Plugin.cpp).                                                           *)
(*                                                                         *)
(*   poll   AsyncDispatch's worker: collects what is due, enqueues it      *)
(*   tick   GossipDispatch's worker: owns the live world, publishes images *)
(*   main   the game thread: cancels, stages a loaded world, saves         *)
(*                                                                         *)
(* A step of the worker ends where it reads or writes what another thread  *)
(* may touch (the handles, the staging area, the image) and at LLM calls.  *)
(***************************************************************************)
EXTENDS GossipClaims, Sequences

CONSTANTS
  Interval,             \* fGossipHarvestIntervalGameHours, in units of the clock
  MaxOutstandingTicks,  \* kMaxOutstandingTicks
  Handles,              \* the cancellation tokens
  NoHandle,
  NoWorld,
  EvalAttempts,         \* iGossipEvalAttemptsPerHarvest
  MaxSeeds,             \* iGossipMaxSeedsPerHarvest
  MaxLiveRumors,        \* iGossipMaxLiveRumors
  MaxDay,               \* bound: the last game day
  MaxSetBacks,          \* bound: how often the player sets the clock back,
  SetBackSessions,      \* bound: and after how many loads they may
  MaxLoads,             \* bound: loads of a game
  Races                 \* whether a load may overtake the poll and the worker
                        \* at the instants MayOvertake names

ASSUME TickConstants ==
  /\ Interval \in Nat \ {0}
  /\ MaxOutstandingTicks \in Nat \ {0}
  /\ NoHandle \notin Handles
  /\ NoWorld \notin Worlds
  /\ EvalAttempts \in Nat \ {0}
  /\ MaxSeeds \in Nat \ {0}
  /\ MaxLiveRumors \in Nat
  /\ MaxDay \in Nat
  /\ MaxSetBacks \in Nat
  /\ SetBackSessions \subseteq Nat
  /\ MaxLoads \in Nat
  /\ Races \in BOOLEAN

VARIABLES
  clock,        \* the game day the engine reports
  era,          \* history: how often it was set back on the way here
  sched,        \* g_nextDueGameDay and g_sessionAnchorGameDay, with the era
                \* of the last poll
  poll,         \* one GossipTick::Poll
  queue,        \* GossipDispatch's queue of handles
  asOf,         \* the game day each job is stamped with
  eraOf,        \* history: the era it was scheduled in
  outstanding,  \* g_outstanding
  cancelled,    \* the tokens that are flagged
  tick,         \* the worker
  live,         \* State()
  pending,      \* g_pending: the staged world, or none
  snapshot,     \* g_snapshot
  main,         \* the game thread
  saved         \* the co-save a load will read: an image and its game day

timeVars  == <<clock, era>>
jobVars   == <<queue, asOf, eraOf, outstanding, cancelled>>
worldVars == <<live, pending, snapshot>>
vars == <<timeVars, sched, poll, jobVars, tick, worldVars, main, saved>>

-----------------------------------------------------------------------------
NotDerived == -1

IdlePoll == [pc |-> "idle", now |-> 0, due |-> <<>>]
IdleTick == [pc |-> "idle", handle |-> NoHandle, pool |-> {}, memory |-> NoMemory,
             seeds |-> 0]
InPlay   == [pc |-> "play", round |-> 0, cancelling |-> {}, read |-> {},
             incoming |-> NoWorld, loads |-> 0]

TickSteps == {"idle", "popped", "adopt", "adopted", "check", "sweep", "walk", "evaluate",
              "compose", "swept", "drain", "drained", "publish", "forget"}
LoadSteps == {"cancel", "flag", "revert", "touch", "clear", "engine", "simRecord",
              "touchClaims", "claimsRecord", "session", "image", "schedule"}

IsCancelled == tick.handle \in cancelled

\* The worker stands between a check of its handle and the adoption or the
\* publication the check was for.
Unguarded == tick.pc \in {"adopt", "adopted", "publish"}

\* Without races a load waits for a poll on its way and for a worker at an
\* unguarded instant; with them it does not, as nothing in the code makes it.
MayOvertake == Races \/ (poll.pc = "idle" /\ ~Unguarded)

\* PendingState(): the staging area, created empty on first touch.
Staged == IF pending = NoWorld THEN FreshWorld(main.loads) ELSE pending

-----------------------------------------------------------------------------
\* AsyncDispatch's worker.  Tick::Stop joins the driver thread and not this
\* one, so a poll may still come in the middle of a load.

PollMayRun == main.pc = "play" \/ Races

\* Mutants: the boundary is never derived; the anchor itself is due again.
PollDeriveUnseeded ==
  /\ poll.pc = "idle" /\ PollMayRun
  /\ poll' = [poll EXCEPT !.pc = "collect", !.now = clock]
  /\ UNCHANGED <<timeVars, sched, jobVars, tick, worldVars, main, saved>>

PollDeriveAtAnchor ==
  LET first == sched.nextDue = NotDerived
      next  == IF ~first THEN sched.nextDue
               ELSE IF sched.anchor > clock THEN sched.anchor ELSE clock
  IN  /\ poll.pc = "idle" /\ PollMayRun
      /\ sched' = [sched EXCEPT !.nextDue = next, !.era = era]
      /\ poll' = [poll EXCEPT !.pc = "collect", !.now = clock]
      /\ UNCHANGED <<timeVars, jobVars, tick, worldVars, main, saved>>

PollDerive ==
  LET first == sched.nextDue = NotDerived
      owed  == sched.anchor + Interval
      next  == IF ~first THEN sched.nextDue ELSE IF owed > clock THEN owed ELSE clock
      again == \/ first /\ (sched.anchor = NotDerived \/ clock < sched.anchor)
               \/ clock < next - Interval
  IN  /\ poll.pc = "idle" /\ PollMayRun
      /\ sched' = [sched EXCEPT !.nextDue = IF again THEN clock + Interval ELSE next, !.era = era]
      /\ poll' = IF again THEN poll ELSE [poll EXCEPT !.pc = "collect", !.now = clock]
      /\ UNCHANGED <<timeVars, jobVars, tick, worldVars, main, saved>>

\* The loop under g_mutex, one boundary at a time.
PollCollect ==
  /\ poll.pc = "collect"
  /\ IF sched.nextDue <= poll.now
       THEN /\ poll' = [poll EXCEPT !.due = Append(@, sched.nextDue)]
            /\ sched' = [sched EXCEPT !.nextDue = @ + Interval]
       ELSE /\ poll' = IF poll.due = <<>> THEN IdlePoll ELSE [poll EXCEPT !.pc = "enqueue"]
            /\ UNCHANGED sched
  /\ UNCHANGED <<timeVars, jobVars, tick, worldVars, main, saved>>

PollTail == IF Len(poll.due) = 1 THEN IdlePoll ELSE [poll EXCEPT !.due = Tail(@)]

PollDrop ==
  /\ poll.pc = "enqueue"
  /\ Cardinality(outstanding) >= MaxOutstandingTicks
  /\ poll' = PollTail
  /\ UNCHANGED <<timeVars, sched, jobVars, tick, worldVars, main, saved>>

\* EnqueueCancellableWork, with a handle nobody holds.
PollEnqueue ==
  /\ poll.pc = "enqueue"
  /\ Cardinality(outstanding) < MaxOutstandingTicks
  /\ LET fresh == Handles \ (outstanding \cup main.cancelling)
         h == CHOOSE h \in fresh : TRUE
     IN  /\ fresh # {}
         /\ outstanding' = outstanding \cup {h}
         /\ queue' = Append(queue, h)
         /\ asOf' = [asOf EXCEPT ![h] = Head(poll.due)]
         /\ eraOf' = [eraOf EXCEPT ![h] = sched.era]
         /\ cancelled' = cancelled \ {h}
  /\ poll' = PollTail
  /\ UNCHANGED <<timeVars, sched, tick, worldVars, main, saved>>

-----------------------------------------------------------------------------
\* GossipDispatch's worker and the tick it runs.

TickGoes(pc) == tick' = [tick EXCEPT !.pc = pc]
TickAlone == UNCHANGED <<timeVars, sched, poll, jobVars, pending, snapshot, main, saved>>

\* Mutant: a cancelled job is left at the head of the queue.
TickPopUncancelled ==
  /\ tick.pc = "idle" /\ queue # <<>> /\ Head(queue) \notin cancelled
  /\ tick' = [IdleTick EXCEPT !.pc = "popped", !.handle = Head(queue)]
  /\ queue' = Tail(queue)
  /\ UNCHANGED <<timeVars, sched, poll, asOf, eraOf, outstanding, cancelled, worldVars, main, saved>>

TickPop ==
  /\ tick.pc = "idle" /\ queue # <<>>
  /\ tick' = [IdleTick EXCEPT !.pc = "popped", !.handle = Head(queue)]
  /\ queue' = Tail(queue)
  /\ UNCHANGED <<timeVars, sched, poll, asOf, eraOf, outstanding, cancelled, worldVars, main, saved>>

\* A job cancelled while it was queued does nothing at all.
TickSkip ==
  /\ tick.pc = "popped" /\ IsCancelled
  /\ TickGoes("forget")
  /\ TickAlone /\ UNCHANGED live

TickEnter ==
  /\ tick.pc = "popped" /\ ~IsCancelled
  /\ TickGoes("adopt")
  /\ TickAlone /\ UNCHANGED live

AdoptPendingState ==
  /\ tick.pc = "adopt"
  /\ IF pending = NoWorld
       THEN TickGoes("check") /\ UNCHANGED live
       ELSE TickGoes("adopted") /\ live' = Staged
  /\ pending' = NoWorld
  /\ UNCHANGED <<timeVars, sched, poll, jobVars, snapshot, main, saved>>

AdoptPublish ==
  /\ tick.pc = "adopted"
  /\ snapshot' = live
  /\ TickGoes("check")
  /\ UNCHANGED <<timeVars, sched, poll, jobVars, live, pending, main, saved>>

\* The checkpoint before the sweep, and SetHorizon after it.
SetHorizon ==
  /\ tick.pc = "check" /\ ~IsCancelled
  /\ live' = SetClock(live, eraOf[tick.handle], asOf[tick.handle])
  /\ TickGoes("sweep")
  /\ TickAlone

TickAbandoned ==
  /\ tick.pc \in {"check", "swept", "drained"} /\ IsCancelled
  /\ TickGoes("forget")
  /\ TickAlone /\ UNCHANGED live

\* The graph or the memory system is not ready: RunSweep returns false.
SweepDeferred ==
  /\ tick.pc = "sweep"
  /\ TickGoes("swept")
  /\ TickAlone /\ UNCHANGED live

\* The worker catches what any part of the job throws, and lets go of it: a
\* row of the memory query that is not shaped as expected, a carrier-step.
JobThrows ==
  /\ tick.pc \in {"sweep", "walk", "drain"}
  /\ TickGoes("forget")
  /\ TickAlone /\ UNCHANGED live

\* Mutant: two accounts of one happening may take pool slots.
SweepPoolOverlapping ==
  /\ tick.pc = "sweep"
  /\ \E pool \in SUBSET {m \in Memories : Qualifies(live, m, asOf[tick.handle])} :
       /\ Cardinality(pool) <= EvalAttempts
       /\ tick' = [tick EXCEPT !.pc = "walk", !.pool = pool, !.seeds = MaxSeeds]
  /\ TickAlone /\ UNCHANGED live

\* The drawn bucket and the owners' reach decide which of the qualifying
\* memories are pooled; no two of the pool share a happening.
SweepPool ==
  /\ tick.pc = "sweep"
  /\ \E pool \in SUBSET {m \in Memories : Qualifies(live, m, asOf[tick.handle])} :
       /\ Cardinality(pool) <= EvalAttempts
       /\ \A m, n \in pool : m # n => ~Overlap(m, n)
       /\ tick' = [tick EXCEPT !.pc = "walk", !.pool = pool, !.seeds = MaxSeeds]
  /\ TickAlone /\ UNCHANGED live

\* RequestRumors takes the pool in a shuffled order.  A memory found claimed
\* is passed over; any other is claimed and the evaluator is asked.
WalkCandidate ==
  /\ tick.pc = "walk" /\ tick.seeds > 0 /\ ~IsCancelled
  /\ \E m \in tick.pool :
       IF IsClaimed(live, m) \/ AreEventsClaimed(live, m)
         THEN tick' = [tick EXCEPT !.pool = @ \ {m}] /\ UNCHANGED live
         ELSE /\ live' = Claim(live, m, asOf[tick.handle])
              /\ tick' = [tick EXCEPT !.pc = "evaluate", !.pool = @ \ {m}, !.memory = m]
  /\ TickAlone

WalkEnds ==
  /\ tick.pc = "walk" /\ (tick.pool = {} \/ tick.seeds = 0 \/ IsCancelled)
  /\ tick' = [tick EXCEPT !.pc = "swept", !.pool = {}]
  /\ TickAlone /\ UNCHANGED live

Settle(pc, seeds) ==
  tick' = [tick EXCEPT !.pc = pc, !.memory = NoMemory, !.seeds = seeds,
                       !.pool = IF pc = "walk" THEN @ ELSE {}]

\* The evaluation's answer: abandoned when the tick was cancelled meanwhile.
EvalCancelled ==
  /\ tick.pc = "evaluate" /\ IsCancelled
  /\ live' = Release(live, tick.memory)
  /\ Settle("swept", tick.seeds)
  /\ TickAlone

\* "private", "not_worthy": this owner is done with it, the happening is not.
EvalKeepsMemoryOnly ==
  /\ tick.pc = "evaluate" /\ ~IsCancelled
  /\ live' = [ReleaseEvents(live, tick.memory) EXCEPT !.kept = @ \cup {tick.memory}]
  /\ Settle("walk", tick.seeds)
  /\ TickAlone

\* "duplicate": memory and happening stay claimed.
EvalDuplicate ==
  /\ tick.pc = "evaluate" /\ ~IsCancelled
  /\ live' = [live EXCEPT !.kept = @ \cup {tick.memory}]
  /\ Settle("walk", tick.seeds)
  /\ TickAlone

\* Mutant: a failed evaluation keeps its claim.
EvalUnusableKeepsClaim ==
  /\ tick.pc = "evaluate" /\ ~IsCancelled
  /\ Settle("walk", tick.seeds)
  /\ TickAlone /\ UNCHANGED live

EvalUnusable ==
  /\ tick.pc = "evaluate" /\ ~IsCancelled
  /\ live' = Release(live, tick.memory)
  /\ Settle("walk", tick.seeds)
  /\ TickAlone

\* Evaluate contains the reading of the answer and nothing before it: what
\* throws while the question is put together, or in the call, leaves the claim.
EvalThrows ==
  /\ tick.pc = "evaluate"
  /\ live' = Leave(live, tick.memory)
  /\ TickGoes("forget")
  /\ TickAlone

EvalSeeds ==
  /\ tick.pc = "evaluate" /\ ~IsCancelled
  /\ TickGoes("compose")
  /\ TickAlone /\ UNCHANGED live

\* RequestBands.  No check of the handle after this call.
ComposeSeeds ==
  /\ tick.pc = "compose" /\ Cardinality(live.rumors) < MaxLiveRumors
  /\ live' = Tell(live, tick.memory)
  /\ Settle("walk", tick.seeds - 1)
  /\ TickAlone

\* A failed or unusable composition, or a seed the simulation refuses.
ComposeFails ==
  /\ tick.pc = "compose"
  /\ live' = Release(live, tick.memory)
  /\ Settle("walk", tick.seeds - 1)
  /\ TickAlone

\* The same of RequestBands, and of SeedRumor before or after the rumor is
\* among the live ones.
ComposeThrows ==
  /\ tick.pc = "compose"
  /\ \/ live' = Leave(live, tick.memory)
     \/ Cardinality(live.rumors) < MaxLiveRumors /\ live' = Tell(live, tick.memory)
  /\ TickGoes("forget")
  /\ TickAlone

AdvanceBegins ==
  /\ tick.pc = "swept" /\ ~IsCancelled
  /\ TickGoes("drain")
  /\ TickAlone /\ UNCHANGED live

\* One carrier-step, of those that change what is kept of a rumor here: its
\* last carrier recovers.
DrainBurnout ==
  /\ tick.pc = "drain" /\ ~IsCancelled
  /\ \E m \in live.rumors : live' = [live EXCEPT !.rumors = @ \ {m}]
  /\ TickGoes("drain")
  /\ TickAlone

DrainAbandoned ==
  /\ tick.pc = "drain" /\ IsCancelled
  /\ TickGoes("drained")
  /\ TickAlone /\ UNCHANGED live

\* Nothing due is left: SweepAndReap.  The loop's exit checks no handle.
SweepAndReap ==
  /\ tick.pc = "drain"
  /\ live' = SweepClaims(live, live.simGameDay)
  /\ TickGoes("drained")
  /\ TickAlone

TickCompletes ==
  /\ tick.pc = "drained" /\ ~IsCancelled
  /\ TickGoes("publish")
  /\ TickAlone /\ UNCHANGED live

PublishSnapshot ==
  /\ tick.pc = "publish"
  /\ snapshot' = live
  /\ TickGoes("forget")
  /\ UNCHANGED <<timeVars, sched, poll, jobVars, live, pending, main, saved>>

Forget ==
  /\ tick.pc = "forget"
  /\ outstanding' = outstanding \ {tick.handle}
  /\ cancelled' = cancelled \ {tick.handle}
  /\ asOf' = [asOf EXCEPT ![tick.handle] = 0]
  /\ eraOf' = [eraOf EXCEPT ![tick.handle] = 0]
  /\ tick' = IdleTick
  /\ UNCHANGED <<timeVars, sched, poll, queue, worldVars, main, saved>>

-----------------------------------------------------------------------------
\* The game thread.

MainGoes(pc) == main' = [main EXCEPT !.pc = pc]
MainAlone == UNCHANGED <<timeVars, sched, poll, jobVars, tick, live, saved>>

\* A save takes one image for both records.  (Bound: only saves that a load
\* may still read.)
OnSave ==
  /\ main.pc = "play" /\ main.loads < MaxLoads
  /\ saved' = [world |-> snapshot, day |-> clock, era |-> era]
  /\ UNCHANGED <<timeVars, sched, poll, jobVars, tick, worldVars, main>>

\* kPreLoadGame; the whole sequence of CancelAll, GossipSim::OnRevert and
\* GossipClaims::OnRevert runs here and again in SKSE's revert callback.
LoadBegin ==
  /\ main.pc = "play" /\ main.loads < MaxLoads
  /\ Races \/ poll.pc = "idle"
  /\ main' = [InPlay EXCEPT !.pc = "cancel", !.round = 1, !.loads = main.loads + 1]
  /\ MainAlone /\ UNCHANGED <<pending, snapshot>>

CancelAll ==
  /\ main.pc = "cancel"
  /\ main' = [main EXCEPT !.pc = "flag", !.cancelling = outstanding]
  /\ MainAlone /\ UNCHANGED <<pending, snapshot>>

\* Mutant: the snapshot of the handles is taken and nothing is flagged.
CancelFlagsNobody ==
  /\ main.pc = "flag"
  /\ main' = [main EXCEPT !.pc = "revert", !.cancelling = {}]
  /\ MainAlone /\ UNCHANGED <<pending, snapshot>>

\* Outside the lock.  A handle whose job has ended meanwhile is nobody's.
CancelFlags ==
  /\ main.pc = "flag"
  /\ cancelled' = cancelled \cup main.cancelling
  /\ main' = [main EXCEPT !.pc = "revert", !.cancelling = {}]
  /\ UNCHANGED <<timeVars, sched, poll, queue, asOf, eraOf, outstanding, tick, worldVars, saved>>

RevertSim ==
  /\ main.pc = "revert" /\ MayOvertake
  /\ pending' = [Staged EXCEPT !.rumors = {}, !.simGameDay = -1, !.era = 0,
                                !.session = main.loads]
  /\ MainGoes("touch")
  /\ MainAlone /\ UNCHANGED snapshot

\* GossipClaims::OnRevert takes a reference to the staging area ...
RevertTouch ==
  /\ main.pc = "touch" /\ MayOvertake
  /\ pending' = Staged
  /\ MainGoes("clear")
  /\ MainAlone /\ UNCHANGED snapshot

NoLedger(w) == [w EXCEPT !.claims = NoClaims, !.eventClaims = NoEventClaims,
                         !.told = {}, !.kept = {}, !.left = {}]

\* ... and writes through it after g_pendingMutex is released.  Should the
\* worker have taken the staging area by then, the write is lost on it.
WriteStaged(w) == pending' = IF pending = NoWorld THEN NoWorld ELSE w

RevertClaims ==
  /\ main.pc = "clear" /\ MayOvertake
  /\ WriteStaged(NoLedger(Staged))
  /\ main' = [main EXCEPT !.pc = IF main.round = 1 THEN "cancel" ELSE "engine", !.round = 2]
  /\ MainAlone /\ UNCHANGED snapshot

EngineLoads ==
  /\ main.pc = "engine"
  /\ clock' = saved.day /\ era' = saved.era
  /\ MainGoes("simRecord")
  /\ UNCHANGED <<sched, poll, jobVars, tick, worldVars, saved>>

\* GossipSim::OnLoad holds g_pendingMutex throughout.
LoadSim ==
  /\ main.pc = "simRecord" /\ MayOvertake
  /\ pending' = [Staged EXCEPT !.rumors = saved.world.rumors,
                                !.simGameDay = saved.world.simGameDay,
                                !.era = saved.world.era]
  /\ main' = [main EXCEPT !.pc = "touchClaims", !.read = {"sim"}]
  /\ MainAlone /\ UNCHANGED snapshot

\* A record cut short: the rumors are dropped, the clock was read before them.
LoadSimShort ==
  /\ main.pc = "simRecord" /\ MayOvertake
  /\ pending' = [Staged EXCEPT !.rumors = {}, !.simGameDay = saved.world.simGameDay,
                                !.era = saved.world.era]
  /\ MainGoes("touchClaims")
  /\ MainAlone /\ UNCHANGED snapshot

LoadClaimsTouch ==
  /\ main.pc = "touchClaims" /\ MayOvertake
  /\ pending' = Staged
  /\ MainGoes("claimsRecord")
  /\ MainAlone /\ UNCHANGED snapshot

\* Mutants: the ledger is not read back; its events are not.
LoadClaimsLost ==
  /\ main.pc = "claimsRecord" /\ MayOvertake
  /\ WriteStaged([Staged EXCEPT !.told = saved.world.told, !.kept = saved.world.kept,
                                !.left = saved.world.left])
  /\ main' = [main EXCEPT !.pc = "session"]
  /\ MainAlone /\ UNCHANGED snapshot

LoadClaims ==
  /\ main.pc = "claimsRecord" /\ MayOvertake
  /\ WriteStaged([Staged EXCEPT !.claims = saved.world.claims,
                                !.eventClaims = saved.world.eventClaims,
                                !.told = saved.world.told, !.kept = saved.world.kept,
                                !.left = saved.world.left])
  /\ main' = [main EXCEPT !.pc = "session", !.read = @ \cup {"claims"}]
  /\ MainAlone /\ UNCHANGED snapshot

\* A record cut short: what was read of the ledger is dropped again.
LoadClaimsShort ==
  /\ main.pc = "claimsRecord" /\ MayOvertake
  /\ WriteStaged(NoLedger(Staged))
  /\ MainGoes("session")
  /\ MainAlone /\ UNCHANGED snapshot

\* A save from before gossip: neither record is dispatched.
LoadNothing ==
  /\ main.pc = "simRecord" /\ MayOvertake
  /\ MainGoes("session")
  /\ MainAlone /\ UNCHANGED <<pending, snapshot>>

\* Mutant: the clock is re-based at every session start.
SessionStartRebases ==
  /\ main.pc = "session" /\ MayOvertake
  /\ pending' = [Staged EXCEPT !.simGameDay = clock]
  /\ main' = [main EXCEPT !.pc = "image", !.incoming = pending']
  /\ MainAlone /\ UNCHANGED snapshot

\* GossipSim::OnSessionStart, up to the image it takes of the staging area ...
SessionStart ==
  /\ main.pc = "session" /\ MayOvertake
  /\ pending' = IF Staged.simGameDay = -1
                   THEN [Staged EXCEPT !.simGameDay = clock, !.era = era]
                   ELSE Staged
  /\ main' = [main EXCEPT !.pc = "image", !.incoming = pending']
  /\ MainAlone /\ UNCHANGED snapshot

\* ... and publishing it, under the other lock.
SessionPublish ==
  /\ main.pc = "image" /\ MayOvertake
  /\ snapshot' = main.incoming
  /\ MainGoes("schedule")
  /\ MainAlone /\ UNCHANGED pending

\* GossipTick::OnSessionStart, with LastSimulatedGameDay, and Tick::Start.
SessionSchedule ==
  /\ main.pc = "schedule" /\ MayOvertake /\ poll.pc # "collect"
  /\ LET world == IF pending = NoWorld THEN snapshot ELSE Staged
     IN  sched' = [nextDue |-> NotDerived, anchor |-> world.simGameDay, era |-> world.era]
  /\ main' = [InPlay EXCEPT !.loads = main.loads]
  /\ UNCHANGED <<timeVars, poll, jobVars, tick, worldVars, saved>>

ClockMoves ==
  /\ main.pc = "play" /\ clock < MaxDay
  /\ clock' = clock + 1
  /\ UNCHANGED <<era, sched, poll, jobVars, tick, worldVars, main, saved>>

\* A console time change, the case both re-bases of Poll are written for.
ClockSetBack ==
  /\ main.pc = "play" /\ main.loads \in SetBackSessions /\ era < MaxSetBacks
  /\ \E day \in 0 .. clock - 1 : clock' = day
  /\ era' = era + 1
  /\ UNCHANGED <<sched, poll, jobVars, tick, worldVars, main, saved>>

-----------------------------------------------------------------------------
\* A new game has just begun: its empty world is staged and published.
NewWorld == [FreshWorld(0) EXCEPT !.simGameDay = 0]

Init ==
  /\ clock = 0
  /\ era = 0
  /\ sched = [nextDue |-> NotDerived, anchor |-> 0, era |-> 0]
  /\ poll = IdlePoll
  /\ queue = <<>>
  /\ asOf = [h \in Handles |-> 0]
  /\ eraOf = [h \in Handles |-> 0]
  /\ outstanding = {}
  /\ cancelled = {}
  /\ tick = IdleTick
  /\ live = FreshWorld(0)
  /\ pending = NewWorld
  /\ snapshot = NewWorld
  /\ main = InPlay
  /\ saved = [world |-> NewWorld, day |-> 0, era |-> 0]

PollNext == PollDerive \/ PollCollect \/ PollDrop \/ PollEnqueue

SweepNext == SweepDeferred \/ SweepPool
WalkNext == WalkCandidate \/ WalkEnds
EvalNext ==
  \/ EvalCancelled \/ EvalKeepsMemoryOnly \/ EvalDuplicate \/ EvalUnusable \/ EvalThrows
  \/ EvalSeeds
ComposeNext == ComposeSeeds \/ ComposeFails \/ ComposeThrows
AdvanceNext == AdvanceBegins \/ DrainBurnout \/ DrainAbandoned \/ SweepAndReap

TickNext ==
  \/ TickPop \/ TickSkip \/ TickEnter \/ AdoptPendingState \/ AdoptPublish
  \/ SetHorizon \/ TickAbandoned \/ SweepNext \/ WalkNext \/ EvalNext
  \/ ComposeNext \/ AdvanceNext \/ JobThrows \/ TickCompletes \/ PublishSnapshot
  \/ Forget

LoadNext ==
  \/ LoadBegin \/ CancelAll \/ CancelFlags \/ RevertSim \/ RevertTouch \/ RevertClaims
  \/ EngineLoads \/ LoadSim \/ LoadSimShort \/ LoadClaimsTouch \/ LoadClaims
  \/ LoadClaimsShort \/ LoadNothing \/ SessionStart \/ SessionPublish \/ SessionSchedule

Next == PollNext \/ TickNext \/ OnSave \/ LoadNext \/ ClockMoves \/ ClockSetBack

Spec == Init /\ [][Next]_vars

\* The worker runs while it has a job, and its LLM calls return.
FairSpec == Spec /\ WF_vars(TickNext)

-----------------------------------------------------------------------------
Days == Nat \cup {-1}

TypeOK ==
  /\ clock \in Nat
  /\ era \in Nat
  /\ sched \in [nextDue : Days, anchor : Days, era : Nat]
  /\ poll \in [pc : {"idle", "collect", "enqueue"}, now : Nat, due : Seq(Nat)]
  /\ queue \in Seq(Handles)
  /\ asOf \in [Handles -> Nat]
  /\ eraOf \in [Handles -> Nat]
  /\ outstanding \subseteq Handles
  /\ cancelled \subseteq Handles
  /\ tick \in [pc : TickSteps, handle : Handles \cup {NoHandle}, pool : SUBSET Memories,
               memory : Memories \cup {NoMemory}, seeds : Nat]
  /\ live \in Worlds
  /\ pending \in Worlds \cup {NoWorld}
  /\ snapshot \in Worlds
  /\ main \in [pc : LoadSteps \cup {"play"}, round : 0 .. 2, cancelling : SUBSET Handles,
               read : SUBSET {"sim", "claims"}, incoming : Worlds \cup {NoWorld}, loads : Nat]
  /\ saved \in [world : Worlds, day : Nat, era : Nat]

\* g_outstanding is the queue and the running job, each once, and never more
\* than the cap: every way out of a job forgets its handle, and a scheduler
\* that misses one would stop enqueuing for good (GossipDispatch.cpp:83-91).
Running == IF tick.pc = "idle" THEN {} ELSE {tick.handle}
Queued == {queue[i] : i \in 1 .. Len(queue)}
OutstandingAccurate ==
  /\ outstanding = Queued \cup Running
  /\ Queued \cap Running = {}
  /\ Cardinality(Queued) = Len(queue)
  /\ Cardinality(outstanding) <= MaxOutstandingTicks

\* No image, published or saved, shows a claim taken for an evaluation still
\* on its way or given back after it: each claim stands for a rumor, for a
\* verdict that kept it, or was left by one that threw outside what the code
\* contains, which GossipContent.cpp:445 passes over: that one stays, published
\* by the next tick, until it expires (GossipTick.cpp:86-91).
ClaimsSettled ==
  \A w \in {snapshot, saved.world}, m \in Memories :
    IsClaimed(w, m) => m \in w.told \cup w.kept \cup w.left

\* An event is claimed only beside the memory it was claimed for, and both
\* lapse on the same day: the record of the ledger writes an event under its
\* memory and takes its expiry from there, dropping any other
\* (GossipClaims.cpp:254-258, 323-325).
LedgerPaired ==
  \A w \in {live, snapshot, saved.world}, e \in Events :
    w.eventClaims[e] # FreeEvent =>
      /\ w.eventClaims[e].by \in Memories
      /\ w.claims[w.eventClaims[e].by] = w.eventClaims[e].expires

\* A memory that became a rumor or was refused is never asked about again,
\* over ticks, expiries, saves and loads, unless the player sets the clock back
\* to a day it is in the window of (GossipClaims.h:34-42).
AskedOnce ==
  tick.pc \in {"evaluate", "compose"} => tick.memory \notin live.told \cup live.kept

\* One happening is one rumor, however many witnesses remember it, again as
\* long as time goes forward (GossipClaims.h:73-81).
HappeningOnce ==
  tick.pc = "compose" => \A m \in live.told : ~Overlap(m, tick.memory)

\* What the pool was built from is still free when its turn comes
\* (GossipContent.cpp:425-430).
PoolStaysFree ==
  tick.pc = "walk" =>
    \A m \in tick.pool : ~IsClaimed(live, m) /\ ~AreEventsClaimed(live, m)

\* While the player plays, readers see the world go forward: a published day
\* is after the one before it and no rumor is forgotten, unless it was scheduled
\* after the player set the clock back (GossipTick.cpp:216-253).  A tick from
\* before that never comes after one from after it.
ImageForward ==
  [][main.pc = "play" /\ snapshot' # snapshot =>
       \/ snapshot'.era > snapshot.era
       \/ /\ snapshot'.era = snapshot.era
          /\ snapshot'.simGameDay > snapshot.simGameDay
          /\ snapshot.told \subseteq snapshot'.told]_vars

\* While the player plays, what a save would write is of the loaded world.
SnapshotCurrent == main.pc = "play" => snapshot.session = main.loads

\* At a session start whose two records were read, the staging area is the
\* saved world whole (GossipSim.cpp:949-952).
StagedComplete ==
  main.pc = "image" /\ main.read = {"sim", "claims"} =>
    main.incoming = [saved.world EXCEPT !.session = main.loads]

\* Every job that was enqueued is let go of, cancelled or not.
TickEnds == \A h \in Handles : h \in outstanding ~> h \notin outstanding
=============================================================================
