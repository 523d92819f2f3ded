# A TLA+ model of NarrativeEngine

NarrativeEngine is an SKSE plugin for Skyrim: an AI Director that watches play,
asks a language model (through SkyrimNet) how tense the story is, keeps a
five-phase narrative cycle, and from time to time starts a *beat* — a letter, a
visit, an ambush — that runs as a small state machine over many seconds of game
time. Around the Director run two simulations (gossip and plots), some event
logs and a dashboard. Everything shares one process, about nine threads and one
co-save file, and almost every decision spans an LLM call that takes seconds.

This directory holds the TLA+ modules that model the plugin's control, the TLC
configurations that check them on small instances, and TLAPS proofs of what
holds for every instance. Paths below are relative to the repository root; the
C++ sources are in `src/` and `include/`.

## The system

### Threads

| thread | owner | what runs on it |
|---|---|---|
| game (main) | Skyrim/SKSE | SKSE messages, co-save callbacks, `MainThread::Run` / `FireAndForget` lambdas |
| driver | `Tick.cpp` | every 500 ms queues a poll on AsyncDispatch |
| AsyncDispatch | `AsyncDispatch.cpp` | polls, LLM callbacks hopped off foreign threads, dashboard requests |
| EvalDispatch | `EvalDispatch.cpp` | evaluations and forced dispatches; blocks on LLM calls |
| BeatSystem poll | `BeatSystem.cpp` | every 250 ms: cooldown, one Tick job for the running beat |
| BeatWorkDispatch | `BeatWorkDispatch.cpp` | the running beat's `Tick` |
| GossipDispatch, PlotDispatch | same names | the two simulations; jobs with cancellation handles |
| foreign | SkyrimNet, Skyrim | LLM callbacks, game-event sinks |

### Components

| component | state | operations | talks to |
|---|---|---|---|
| BeatSystem | the slot (running beat, its state, cooldown), the repetition ring, the Tick flag | poll, tick transition, consider, start, force, abort, save, load | PhaseTracker, the beats, EvalDispatch, BeatWorkDispatch |
| EvaluationPipeline | in-flight flag | begin, snapshot, parse, apply | BeatSystem, PhaseTracker, DecisionLog, SkyrimNet |
| PhaseTracker | phase, dwell | sample, evaluate, advance, reset, save, load | Tick, EvaluationPipeline |
| Tick | driver thread, interval accumulator | start, stop, poll | AsyncDispatch, EvalDispatch |
| AsyncDispatch, EvalDispatch, BeatWorkDispatch | FIFO queue, one worker | start, stop, enqueue | everything |
| GossipDispatch, PlotDispatch | FIFO queue, one worker, outstanding handles | enqueue, cancel all, stop | GossipTick, PlotTick, Plugin |
| Plugin | load order of everything | SKSE messages, co-save callbacks | everything |
| NPCLetterBeat, LetterPool, LetterComposer, SenderCandidatePool, SenderCooldownTable | session, letter slots, sender cooldowns | compose, dispatch quest, poll delivery, cleanup, reclaim | BeatSystem, SkyrimNet, game quests |
| NPCVisitBeat, VisitState, VisitConclusionPoll, ApproachChain, VisitArrivalPoint, VisitComposer | session, visit record, approach stages | compose, spawn, approach, converse, conclude, cleanup | BeatSystem, SkyrimNet, game AI packages |
| AmbushBeat, AmbushAttackerGroups, AmbushSpawnPoints | session, attackers | compose, spawn, fight, clean up | BeatSystem, game |
| GossipTick, GossipSim, GossipGraph, GossipHarvest, GossipContent, GossipClaims, GossipLog | rumors, carriers, event queue, claims | harvest, step carriers, spread, save, load | GossipDispatch, SkyrimNet memories |
| PlotTick, PlotState, PlotSchedule, PlotBirth, PlotPlanning, PlotCasting, PlotResolution, PlotMemories, PlotVerbs | plots, roles, steps, clocks | birth, plan, act, resolve, save, load | PlotDispatch, SkyrimNet |
| event logs (Combat, Weather, Travel, VisitorTravel), EventHistoryWriter, DecisionLog, DecisionProbe | bounded ring buffers | append, trim, save, load | Snapshot, dashboard |
| TravelGraph, RoadRoute, FineRoads, HoldGrid, Region, StuckRecovery, CameraVisibility | static graphs; per-actor recovery ladder | route, place, recover | beats |
| Settings, DashboardUIManager, PrismaUI, Decorators, prompts, Papyrus, dashboard web app | settings, view state | read, render | everything |

### What is hard

* A beat's four slot fields are written by six paths on five threads; a tick is
  decided on one thread, queued by a second and applied by a third, with the
  lock dropped in between.
* An evaluation reads the phase, the dwell, the slot, the cooldown and the
  repetition ring, then waits for an LLM, then acts.
* A load replaces the world under jobs that are already running; only the gossip
  and plot workers have cancellation handles.
* Two flags (`g_inFlight`, `g_beatTickInFlight`) must be lowered on every path,
  including throws, or the Director stops for the session.
* The player can abort a beat from the dashboard at any moment.

What makes each part correct: the slot holds at most one beat and is never saved
torn; an evaluation's actions respect what its gates read; flags cannot stay up;
a beat's state only moves forward; the phase follows the cycle; cancelled jobs
publish nothing; ring buffers keep to their caps; every slot, actor and quest a
beat takes it gives back on every way out.

## Modules

| module | models |
|---|---|
| `PhaseTracker` | `PhaseTracker.cpp`: phase, dwell, the advance rule |
| `BeatSlot` | the abstract specification of the slot: one beat, a stage, a paid cooldown; a co-save record gets in once per load and at no other time |
| `BeatSystem` | the Director: the slot and the five threads that touch it |
| `MCBeatSystem` | instances of `BeatSystem` for TLC |
| `BeatSystemProofs` | the inductive invariant and the safety theorems |
| `BeatDirectorProofs` | refinement of `BeatSlot` and the action properties |
| `GossipClaims` | the gossip world as a value: live rumors, simulation clock, the ledger of claims |
| `GossipTick` | the gossip schedule, the cancellable worker, the tick it runs, and a load under them |
| `MCGossipTick` | instances of `GossipTick` for TLC |
| `GossipProofs` | safety theorems of `GossipTick` that hold under every race |
| `GossipSessionProofs` | safety theorems of `GossipTick` from one load to the next |
| `LetterPool` | the pool of letter books: slots, eviction, the sinks that follow a letter, and the engine's side of a delivery |
| `NPCLetterBeat` | the letter beat over that pool: sessions, sub-phases, clean-up, abort, restart |
| `MCNPCLetterBeat` | instances of `NPCLetterBeat` for TLC |
| `LetterProofs` | inductive invariants and safety theorems of `NPCLetterBeat` |
| `PlotCasting` | the occupancy table and the ladder of agents, as operators |
| `PlotTick` | the plot simulation: schedule, forced bursts, worker, plots, save and load |
| `MCPlotTick` | instances of `PlotTick` for TLC |
| `PlotStateProofs` | what each step of the simulation does to plots and table |
| `PlotProofs` | inductive invariant and safety theorems of `PlotTick` |
| `VisitConclusionPoll` | the poll that asks whether a visitor's conversation is over |
| `NPCVisitBeat` | the visit beat over it: sessions, sub-phases, checks, verdicts, the ways down, abort, restart |
| `MCNPCVisitBeat` | instances of `NPCVisitBeat` for TLC |
| `VisitProofs` | inductive invariant and safety theorems of `NPCVisitBeat` |

### BeatSystem and the code

One variable per shared variable of the code, one record per worker holding its
locals and where it is. A step is what a thread does in one hold of a lock, or
between two places where it can block.

* *poll* (`RunOneTick`): `PollAccrue` adds the interval to the cooldown of an
  empty slot, saturating; `PollCapture` copies the running beat and its state
  and drops `g_stateMutex`; then `PollSkip` or `PollEnqueue`, by the exchange on
  `g_beatTickInFlight`.
* *work* (`BeatWorkDispatch`): `TickEnter` calls the beat; `TickReturn` is any
  answer the `IBeat` contract allows in that state; `TickDiscard`,
  `TickAdvance`, `TickRelease` are `ApplyBeatTickTransition`, which compares the
  beat's name only; `TickClear` lowers the flag.
* *eval* (`EvalDispatch`): `EvalTake` … `EvalRelease` follow `BeginEvaluation`
  through the tension call, `ParseDecision`, `ConsiderBeat`'s gates, the
  repetition filter, the beat-select loop with its attempts, `StartBeatInternal`
  with `OnStart` outside the lock and its throw handler, and `ApplyDecision`. A
  forced dispatch enters at beat-select. `EvalGivesUp` is every early exit that
  the in-flight guard covers.
* *async*: `TickFire` is a poll that fires an evaluation; it may outlive the
  driver that queued it.
* *main*: `ForceDispatchBeat`; `AbortRunningBeat` in three steps (read the name,
  unwind the beat, empty the slot); a load in four (pre-load message, revert
  callback, load callback, post-load message).

What is abstracted: prompts and replies are their outcomes (a score, a pick, a
failure); the global preconditions (combat, menus, scene) and availability of a
beat are choices made anew each time they are read; a beat is known by its
session flag. Intervals that may have passed are choices; the mode in which the
poll does nothing is the poll not stepping.

Three history variables, which the code does not have, say what a captured tick
is still about: `pollOwner` and `tickOwner` turn from `current` to `finished`,
`aborted` or `reverted` when the slot is emptied under them, and `intrusion`
remembers that a stale or early tick has already touched the present occupant.

### GossipTick and the code

`GossipClaims` is pure: a world is a record of what `GossipState` holds that the
other threads can tell apart, and `Claim`, `Release`, `ReleaseEvents`,
`SweepClaims`, `Qualifies` are the functions of `GossipClaims.cpp` and the
harvester's rule. A memory is an id with a game day and the happenings it is
about; a rumor is known by the memory it was made from. The rest is history: `told` and
`kept`, which memories became a rumor and which a verdict kept without one since the clock
was last set back; `left`, whose claim stands for neither, because an evaluation threw or
because it is from before the clock was set back; `era`, how often the clock had been set
back when `simGameDay` was scheduled; and `session`, by which load the world was staged.
`eraOf` and `sched.era` carry the era along with a job's stamp and the poll's schedule.

* *poll* (`GossipTick::Poll` on AsyncDispatch): `PollDerive` derives or re-bases
  the boundary under `g_mutex`, `PollCollect` is its loop, and for each boundary
  `PollDrop` or `PollEnqueue` reads `OutstandingCount` outside it.
* *tick* (GossipDispatch's worker): `TickPop`, `TickSkip` or `TickEnter`; then
  `RunTickBody`: `AdoptPendingState` and its publication, the checkpoint with
  `SetHorizon`, the sweep (`SweepDeferred`, `SweepPool`), the walk
  over the pool with a claim before each evaluation, one action per verdict, the
  composing call, the drain, `SweepAndReap`, the last checkpoint,
  `PublishSnapshot`, `Forget`. The worker catches what any part of the job throws:
  `JobThrows` in the sweep, the walk or the drain; `EvalThrows` and `ComposeThrows` with a
  claim in hand, which the code's own `try` covers only while it reads an answer
  (`src/GossipContent.cpp:231`, `:353`), so that the claim stays. A step ends where the worker reads its handle,
  the staging area or the image, and at each LLM call.
* *main*: `ClockMoves`, and `ClockSetBack`, the console change that both re-bases of
  `PollDerive` are for; `OnSave`; a load in the order of `Plugin.cpp`: `CancelAll`,
  `CancelFlags` and the two reverts at `kPreLoadGame` and again in the revert
  callback, the two record callbacks (each may meet a short record or none), and
  the session start with its image and its schedule.

`Races` says whether a load may overtake the poll and the worker *everywhere*.
The code has no lock between a worker's look at its handle and what it does next,
nor between `Tick::Stop` and a poll already queued; these are instants, but
nothing excludes them. With `Races = TRUE` they happen, and what then still holds
is checked and proved. With `Races = FALSE` a load waits for a poll on its way and
for a worker that is between a check and the adoption or publication it guards,
and nothing else: a cancelled tick still runs on through its LLM calls under the
load.

What is abstracted: how a rumor spreads from carrier to carrier (`DrainBurnout`
keeps only that it ends); which qualifying memories a sweep pools (the drawn
bucket, the owners' reach and the round robin are a choice of the pool); prompts
and tellings (a verdict, a success, a failure). Settings are constant, the graph is
ready once it was. A new game has just begun in `Init`; starting another one from
the main menu goes through the same reverts and is not modelled separately.

### LetterPool, NPCLetterBeat and the code

`LetterPool` holds what `LetterPool.cpp` knows of a slot (its state, the letter whose
text is cached, its place in the order of `deliveredAt` / `readAt`) and, from how the
code uses them, what it cannot see: where each copy of a letter is, the slot's quest
with its `LetterRef`, and the Papyrus calls dispatched and not yet run. A letter is
known by the session that composed it; a book record is its slot, so two copies of one
slot look the same to the pool, as they do to the code.

* *slots*: `Allocate` (free, else the oldest read, else the oldest carried; never one
  on its way) with `EvictSlot`'s sweep and the quest's synchronous stop.
* *sinks*: opening and closing a book; a container move queues an event that names the
  slot, and `Arrived` and `Discarded` handle it on the game thread against whatever the
  slot holds by then.
* *Papyrus*: `RunQueue`, `RunShutdown`, `RunRelease` are the fragments of
  `_ne_PooledLetterQuest.psc`, run in the order of their calls and later than them. A
  quest whose `LetterRef` is empty shuts itself down instead of queueing.

`NPCLetterBeat` is the beat over it. `Tick…` actions are `Tick` in each sub-phase and
stage on BeatWorkDispatch's worker; `Answer` is the compose callback, which carries no
session; `DispatchFails`, `DispatchDeclined`, `DispatchLaunches` are the ways through
`DispatchQuest` on the game thread; `CheckCourier` the delivery check; `Cleanup` and
`Abort` the ways out; `Restart` a quit and a load of the save taken at that moment, with
`OnLoad`'s ageing and its orphan sweep, which goes through AsyncDispatch (`SweepQueued`)
and so reaches the game thread behind whatever the beat has queued by then. A sender is known by their letter, each
session having one of its own.

`crossed` is history: it names the first time something meant for an earlier letter
reached a later one (a late answer, a dispatch task that outlived its session, a quest
found running, an event or a Papyrus call for another letter, a sweep of a slot taken
meanwhile, a restart in the middle of it). The code has no nonce against these; they are
listed as hazards, and the safety properties speak of everything before the first one. One
of them was found by the attempt to prove `CourierClean`: a call that queues a letter may
still wait when a load frees its slot, and a second load later it puts whatever letter the
quest holds by then with the courier (`RunQueue`).

### PlotTick and the code

`PlotCasting` is pure: the occupancy table, `Screen`, `Engage`, `Release`,
`PruneExpired`, and `EligibleAgents`, the ladder a mastermind finds an agent on. What the
ladder reads from the social graph does not change while a game runs and is the constant
`Rung`.

`PlotTick` has three actors over it:

* *poll and dashboard*: `Poll` decides by `PlotSchedule::Advance` how many boundaries
  have passed and which of them there is room for; it waits for the game thread to count
  the dead before `PollEnqueue`. `ForceTicks` stamps a burst beyond the clock.
* *tick* (PlotDispatch's worker): `SkipCancelled` or `PopJob`, `TakePendingState`,
  `BeginSimulation`, a birth or none, then one action per way through `AdvancePlot` for
  each active plot in turn, `Reap`, the last check, `PublishSnapshot`, `RetireTick`,
  `Forget`. `JobThrows` (anywhere from the first step of a job to its publication) and
  `AdaptThrows` are exceptions the worker loop catches.
* *main*: time, deaths, `Save`; a load in the order of `Plugin.cpp`: `PreLoadGame`,
  `OnRevert`, `OnLoad`, the last with a record it cannot read or one from which plots
  are dropped.

A plot is its mastermind, plan, cursor, history, adaptations, status and outcome; a
step is its kind (plain, fetched, crafted, handed over), mark, agent, state and elapsed
ticks. Plans come from the constant `Plans`; dice, the model's decisions and the weights
of the draw are choices. A plan's item is implied: the hand-over step wants what the
plot's last fetched or crafted step obtained. A new game is a load of an empty record.
`world`, `late` and `overtaken` are history: the world an image is of, a job stamped by
the clock of a world left since, and a publication that a load came in front of.

### NPCVisitBeat, VisitConclusionPoll and the code

The stage of the beat is BeatSystem's, but where a visit has got to is the stage of a
quest, which only Papyrus moves: 10 salutation, 20 discussion, 30 valediction, 50 on the
way home, 60 and 200 being torn down. The beat asks for the next stage and later reads
whether it came. Four actors share the session's latches (`flag`), clocks (`timer`) and
the snapshot of `VisitState`:

* *ticks* (BeatWorkDispatch): `WatchPlayerArea` (`AreaSays`, `Looks`) opens each tick of
  COMPOSE and RUNNING and may ask for a rollback; `TickCompose` … `TickComposed` are the
  sub-phases of COMPOSE, among them the warp, whose visitor no alias knows until the
  dispatched fills have run; `TickRunning` queues a check; `TickTerminal`,
  `TickCleanup` and `TickCleanupDone` end the session.
* *answers* (AsyncDispatch): `Answer` is the compose callback, `PollAnswer` the verdict
  of a poll, which goes on to the game thread.
* *main*: a check is `CheckBegins`, which lets the worker queue the next one, and
  `Check`: hard abort, then a rollback asked for, then what the quest's stage calls for
  (`AtSalutation`, `AtDiscuss`, `AtValediction`, `AtReturnHome`); `Verdict`, `Cleanup`,
  the two sinks `Death` and `FastTravel`, and BeatSystem's `Abort`.
* *vm*: `RunVm` runs the calls dispatched to the quest. They race
  (`src/NPCVisitBeat.cpp:659`), so what waits is a bag and any of it may be next; the call
  a stage's fragment makes in its turn (`Follows`) is one more in the bag.

`WatchPlayerArea` reads the latch of the opening line before it asks for a rollback, and a
check may say that line in between: `LateAsks`.

There are four ways down, and each sends the visitor home and stops the quest in its own
way: `RollBackVisit` (unmet), `HardAbortVisit` (broken off), `RunReturnHomeShutdown`
(walked home) and `Cleanup` (whatever is left). `Restart` is a quit and a load of a save
taken when Papyrus has caught up. A load without quitting is outside the model, for it
keeps the old session's latches.

What is abstracted: the cadence of the checks, distances, views, combat, dialogue and the
gates of the poll are choices; the escort that helps a visitor along, the tables of
cooldowns and watermarks, the player's own death; a start and its `OnStart` are one step
(`BeatSystem` takes them apart); a visitor is known by the visit.

History: `ended` is what the visit was recorded as, `met` and `closings` its lines,
`stranded` the visitors it is known to leave where they are, and `crossed`, as for letters,
the first time something meant for one visit reached another.

## Checks

The runs of the Director use `MCBeatSystem`, those of gossip `MCGossipTick`, of the
letter beat `MCNPCLetterBeat`, of plots `MCPlotTick`, of the visit beat `MCNPCVisitBeat`.

| run | instance | shows |
|---|---|---|
| `Director` | two beats, no abort or load | types; a decision is logged once; own starts respect the cooldown and the repetition window at the start, not only at the gate; the running beat's state never moves back |
| `Progress` | fair workers | an evaluation ends; a Tick ends: neither flag latches |
| `Abort` | one beat, abort at any moment | one Tick job at most; an advance goes to the successor of the phase it finds |
| `Reload` | load at any moment | the slot can be saved at any moment, the in-flight flag is accurate, and the slot implements `BeatSlot`, with the old game's jobs still running |
| `Gossip` | two witnesses and a third memory, three game days, one load at any moment, the clock set back once, throws with and without a claim in hand, `Races = FALSE` | types; every claim in a published or saved image stands for a rumor, for a verdict, or was left by a throw; one happening is one rumor; the pool stays free while it is walked; the loaded world is the saved one whole, and stays what readers and saves see; no memory is asked about twice, a save in between or not; the image goes forward, and back only once the clock was set back |
| `GossipRaces` | one memory, `Races = TRUE`, a fair worker | every enqueued tick is let go of, under every race |
| `Letter` | two slots, three letters, two restarts | types; whoever was promoted is demoted; no slot on its way is forgotten; the courier keeps nothing the pool gave up |
| `LetterEnds` | one slot, two letters, one restart, fair actors | every session ends; every slot on its way comes back |
| `Plots` | three people, two plots, six ticks, one death | types; the plot list and the table agree; a bound step waits for somebody who is at work; no plot stalls; each turn brings its plot nearer its end |
| `PlotReload` | polls, a forced burst, throws, a load at any step of a tick | the table agrees in every image; stamps stay within the session's hours; worlds are kept apart |
| `Visit` | one visit, one restart, an abort, deaths, fast travels and late answers at any moment, fair actors | types; however a visit ends its visitor is home and its quest stopped; goodbye is said once; nobody the player has met is taken back; every visit ends |

One run checks what a document says and finds the code doing otherwise:

| run | the document | what happens |
|---|---|---|
| `PlotLeak` | `docs/implementation/PHASE_17_FACTION_PLOTS.md`: a slot is released on any terminal state | a plot that ends with its mastermind's death skips `RetireStep` (`src/PlotTick.cpp:171`, `:633`): the agent of the step under way stays engaged in it, in one that is reaped later, and is never cast again |

Other disagreements between a comment and the code are listed as hazards in
`PROJECT.json` and are not runs of their own: a beat's Tick before its `OnStart`, or after its abort;
a Tick captured while its beat cleaned up; a failed beat-select that throws away a paid
cooldown; a transition applied to a later occupant of the same name; a poll that fires
while a save is read; a gossip tick that adopts a half-loaded world, publishes over a
loaded one, composes without looking at its handle again, or publishes a boundary it
could not sweep; a compose answer without the nonce its plan promises; a cancelled plot
tick that goes on through its LLM calls; a pending count that a throw or a cancellation
leaves up; a count of failed polls that outlives its visit and breaks off the next one; a
visitor moved and then forgotten when their alias does not fill; a quest whose startup has
not run yet, taken for one that has stopped; a visit loaded in its valediction, which stays
there, or in its discussion, whose visitor may be taken back as if unmet; latches a load
without quitting leaves up.

### Bounds

Two beats are enough for a filter to leave one of them and for a forced beat to
differ from the Director's pick; the other properties tell beats apart only by
name, and one suffices. A queue of one waiting evaluation plus the one in the
worker lets a forced dispatch overtake. `CooldownMax` is one or two poll
intervals, so the counter saturates; the threshold lies below it. `MaxDwell` is
one sample, above both the minimum dwell and the ideal duration. A ring of one entry and two
selection attempts make both the eviction and the retry happen. Each run allows
abort or load, not both, to stay small: the two are handled by the same actions
of the same thread and cannot overlap.

In the gossip runs two memories share a happening, which is what makes claims on
events matter; a window of one day and an expiry of two are the smallest values
`Settings` asks for. Three days let a claim be taken, lapse and its memory leave the
window; the cap on outstanding ticks, one in `Gossip` and two in `GossipRaces`, is met in
both; one load is enough because a load resets everything it is about, and `OnSave`
(bounded to saves a load may still read) may come at any time before it. `Handles` are
reused once nobody holds them. In `Gossip` the player sets the clock back once
(`MaxSetBacks`), after the load (`SetBackSessions`) to keep the run small, so that it meets
both re-bases of the poll and a world that was loaded; the theorems have no such bound. The
two witnesses are interchangeable (`SYMMETRY`), and states that differ only in a save no
load is left to read are one (`VIEW`): that save was a snapshot and was checked as one.

In `Letter` two slots make the choice of a slot matter and three letters force an
eviction; `LetterEnds` has one slot, so that a second letter always finds the first in its
way. Timeouts are one tick, checks every tick: the counters only say that a wait may
end. `MaxEvents` bounds the container events in flight and `MaxVm` the Papyrus calls a
restart may find; in `Letter` a second restart may find one, so that a call from two loads
ago meets a later letter. The `VIEW` of `Letter` takes states for one that differ only in
what the session writes before it reads it again. `Letter` is cut by the constraint `Uncrossed` at the state where
`crossed` is first set, which its properties assume anyway; that state itself is checked.
`LetterEnds` has no constraint, for constraints and liveness do not mix.

In `Plots` the three people stand on different rungs, so that a ladder has to be climbed,
an agent shared out and an item waited for; two plots may meet in one person. Hours stand
for days: an interval of one, cooldowns of one or two and a retention of one are reached
within `MaxClock`. A history of two entries forgets who got an item. The constraint
`Paced` (ticks on, the clock still while one runs) leaves the schedule to `PlotReload`,
where the plots are short and everything else happens: `MaxJump` is two intervals, so a
backlog arises and is capped; `MaxForced`, `MaxLoads` and a job that throws are one each.

In `Visit` every limit (`TimeoutTicks`, `FillTicks`, `NudgeCap`, `MaxFailures`) and the
polls unanswered (`MaxPolls`) are one: a counter only says that a wait may end, and one is
met at once or after a step of the others. `MaxVm` lets the game thread act (a check, a
verdict, a clean-up, a sink, an abort: what has `Room` in its guard) only while fewer than
two Papyrus calls wait; what the worker's ticks dispatch comes on top. There is one visit:
`OnStart` resets what belongs to a session, and the properties speak of a visit up to the
first time another one's call or answer reaches it. What a visit can take over from the one
before (the failure count, an orphaned quest, a late answer) is listed as hazards.

Deadlock is not checked: with an empty ring and a full queue, all letters written or all
bounds reached the system may legitimately wait for the player.

### Fairness

`Progress` assumes that each worker that has a step takes it: the poll thread's
second half, the Tick worker, the evaluation worker. The threads run free of each
other and hold no lock while they block, so the scheduler provides this, except
at one point: `SendCustomPromptToLLM` waits on a future without a timeout
(`src/SkyrimNetAPI.cpp:127`). The fairness of `EvalStep` therefore includes that
SkyrimNet answers every call, with a failure if need be. Nothing is assumed of
the player, of the interval timer or of the passing of time. `GossipRaces` assumes the
same of GossipDispatch's worker, whose LLM calls are the same function.

`LetterEnds` assumes that the beat is ticked, which BeatSystem's timer does while it runs;
that a compose call is answered, as SkyrimNet promises its callback; that the game thread
runs its tasks and Papyrus its calls; and that the courier, once he has a letter, finds
the player and the sink's event is handled. `SessionEnds` needs the first three only.
Nothing is assumed of what the player does with a letter.

`Visit` assumes that the beat is ticked, that a compose call is answered, that the game
thread runs its tasks and Papyrus its calls, all weakly. It assumes strongly that ticks of
RUNNING that queue a check recur with the game neither paused nor in combat: these come and
go by the player's doing, but not for good. Nothing is assumed of the conversation, so
`VisitEnds` leaves out a discussion that nobody ends, and it leaves out sessions that were
loaded, whose clocks are not saved.

## Proofs

Every safety invariant and every action property that a passing run checks is also a
theorem, for every value of the constants. Where a theorem has a hypothesis, it is named
below with the reason it is needed.

### The Director

`BeatSystemProofs` proves, for every set of beats, every setting and every bound:

* `TypeCorrect`, `SaveRestorable`, `OneTickAtATime`, `InFlightTellsTheTruth`,
  `DecisionsAppliedOnce`: the invariants of the runs;
* `AdvanceIsSuccessor`: `EvaluateAdvance`'s switch and `NextPhase`'s index arithmetic
  agree.

The inductive invariant `IInv` is those invariants with `EvalOK`, three facts about the
evaluation worker's locals: a start is reached with a registered pick only, an advance
step with a named phase only, and the append counter is one exactly after the append.
Types alone are not inductive: the slot's name is typed because of `EvalOK`, and the
poll's captured tick because the slot is never torn (`SaveIsRestorable`). Each component
has a lemma with one step per action that can disturb it.

`BeatDirectorProofs` builds on it:

* `SlotImplemented`: `Spec => ImplementsSlot`, by a step simulation, aborts and loads
  included: a beat enters only an empty slot, a cooldown is paid only with the slot empty,
  and a record of the co-save replaces what is there only in the load that first emptied
  it, once;
* `NeverRepeats`: `Spec => NoRepetition`; what the filter let through stays outside the
  window because entries only leave it until the same worker pushes;
* `CooldownIsRespected`: for `~AbortAllowed` and `~LoadAllowed`;
* `PhasesInOrder`: for `~LoadAllowed`; only the evaluation worker moves the phase, so its
  snapshot still stands;
* `StateGoesForward`: `Spec => StateMovesForward`, aborts and loads included. `InStep`
  follows a tick from the poll that captured it through the queue to the worker: while it
  is still about the running beat, a copied state is never ahead of the slot, a decided
  one never behind it, and if the beat has failed in between, its session remembers that
  and no later tick decides to run it. The property speaks of a game in which no stale or
  early tick has touched the present occupant (`intrusion`), and not of the step in which
  an abort or a revert writes the slot.

`CooldownIsRespected` and `PhasesInOrder` need their hypotheses: an abort or a load may
empty the slot, and a load may change the phase, while an evaluation is out.

### Gossip

`GossipProofs` proves of `GossipTick`, for every set of memories and handles, any number
of loads, and without assuming anything of `Races`:

* `TypeCorrect`. Types alone are not inductive here either: a stamp is a game day because
  a poll derives its boundary before it collects, and the session publishes a whole world
  because it took one first (`LocalsOK`).
* `BacklogIsAccurate`: the strengthening `Backlog` says that no handle is queued twice,
  which makes the number of handles the number of jobs; the enqueue has one step for the
  fresh handle and one for the cap.
* `LedgerIsPaired`, `ClaimsAreSettled`: both follow from `LiveSound` and `ImagesSound`,
  that every world on its way to a reader is sound: the published and the saved one, the
  staged one, the one a session start holds, and the live one except for the memory being
  asked about, which a throw adds to those left. One lemma per operation on the ledger (`Claim`, `ReleaseEvents`, `Release`,
  `SweepClaims`) says what it keeps, and the steps cite them.

`GossipSessionProofs` continues it from one load to the next:

* `PoolIsFree`, under every race: what the rest of the pool was drawn for stays free,
  because no two of its members share a happening, and none shares one with the memory
  being asked about (`PoolFree`).
* `SnapshotIsCurrent`, `LoadedWorldIsWhole`, `ImagesGoForward`. Their invariant
  `SessionInv` says where the load has got to (`LoadQuiet`: after its cancellation nobody
  publishes), which world is where (`Staging`, `ImageFollows`), and that stamps come in
  order, by era first and then by day: the simulated day lies before every stamp still
  queued, these rise, what the poll has collected lies beyond them, and the next boundary
  beyond that (`OnSchedule`, `LoadClock`). A poll that finds the clock set back re-bases
  its boundary, and whatever it collects from then on is of the new era.
* `NeverAskedTwice`, `OneRumorPerHappening`. `WorldsRemember` says of every world that a
  memory told or refused is claimed, and the happenings of one told too, until a day on
  which it has left the harvester's window. It is here that the order of the two settings matters
  (`ClaimConstants`: a claim outlives the window), that the memories of one happening are
  of one day, and that days come in order. An era starts with nothing told or kept
  (`SetClock`), so what is proved is within an era: after the clock was set back a claim may
  have lapsed while its memory is in the window again.

All but the first assume `~Races`. Without it the code does not have them: a tick that has
passed its last check publishes over a loaded world, and a poll already queued stamps
ticks by the clock of the game before. These are the races the hazards list.

### Letters

`LetterProofs` proves of `NPCLetterBeat`, for any pool, number of letters, restarts and
settings of the timers:

* `TypeCorrect`. An answer is for a letter only because a session has one
  (`SessionHasLetter`), and a sweep's calls are a finite sequence only because there are
  finitely many copies (`CopiesFinite`).
* `SendersAreReleased`: `SenderIsOurs` ties the promoted sender to the letter of the
  session that is running; every way out of a session demotes them.
* `PendingIsKnown`, `CourierIsClean`. For these `LInv` says where every letter of every
  slot is. A session's letter is nowhere before its dispatch (`Numbered`, `SubPhaseFits`,
  `Fresh`); only the slot in flight may wait for its quest to fill (`Underway`); a letter
  is queued once (`QueuedOnce`), and the orphans of a load's sweep are slots it found free
  (`Orphans`). For one slot, `SlotFits`: a letter on its way is queued, with the courier
  or just handed over (`Held`), in one place only (`OnePlace`); before its quest has it,
  nothing of it is anywhere (`Unfilled`); a quest that runs for nobody is about to be
  stopped (`Stops`); and whatever is with the courier and not awaited has a call or a sweep coming
  for it (`Owed`). The pool's operations are proved to keep `SlotFits` one by one, for the
  slot they are about and for the others.

The last three speak of everything before the first crossing (`Uncrossed`): until then the
code's calls, which name a slot, can be told apart by the letter they are about.

### Plots

`PlotStateProofs` has no theorem of the specification: it shows for each way through
`AdvancePlot`, a birth, the reaper and a load that good states go to good states, for any
social graph and plans. A plot is good (`GoodPlot`) when nothing ahead of its cursor has
begun and its counters are within their caps; a state is good (`GoodState`) when its plots
are and the table agrees with them both ways. Agreement alone is not inductive: a step
that is replaced could have had an agent. `TableFollows` says what a turn must leave in
the table, and each turn's lemma cites one of the few ways of leaving it. `SeniorsApart`
is part of a good state: nobody who masterminds an older plot is in the history of a
younger one, since they have been engaged from before its birth.

`PlotProofs` proves of `PlotTick`, for every clock, backlog, plan and number of loads:

* `TypeCorrect` and `OccupancyTableAgrees`, for the live state, the snapshot, what is
  staged and what is on disk, jobs that throw included;
* `WorldsApart`: `WorldsKnown` says of every image and of the job being run which world it
  is of, and `LoadIsQuiet` that during a load every job left has been told;
* `PendingCounted` and `StampsHorizon`: the latter needs that a poll no load came over has
  decided on hours that passed (`Horizons`), and the arithmetic of `Advance`;
* `NoPlotStalls`: for `~Throws`. With a throw inside `Adapt` a plot does stall;
* `EveryTurnAdvances`: for `~Throws`, for the same reason. Each turn's lemma says how it
  moves its plot on, and `GoodPlot` has the caps on what it moves;
* `BoundWaitsHaveGround`: whoever has the item is in the plot's history, so by
  `SeniorsApart` they are not the mastermind of an older plot. Throws and loads included.

`InvariantHolds` is their common inductive invariant, `IInv`.

### Visits

`VisitProofs` proves of `NPCVisitBeat`, for any number of visits and restarts and every
limit:

* `VisitTypes`. A nudge is sent only below its cap, and a wait for the fill goes on only
  below its own (`Waiting`); the check that is being made is the first task (`Checking`);
* `OneGoodbye`: the closing line has been said once exactly when its latch is up
  (`Remembered`), as long as the session was not cut short by a restart (`Whole`);
* `NothingLeftBehind`, `UndoneUnmet`, from `VisitInv`. It says of every call, answer, task
  and quest whose it is (`Whose`): nothing is of a visit that has not begun, and a visit
  that has not started its quest has asked nothing of it. It says when the opening line is
  said (`Opening`): the call for that stage is made once, and until it is run the quest is
  nobody else's and not there, in whatever order the calls run (`Untouched`); once the line
  is out, no such call is left and a quest still there has the latch on (`Said`). It says where the visitor is
  (`Whereabouts`): away only in the session that brought them, and then in the hands of its
  quest, with the way home known and nothing terminal recorded. And a session that is over, or was broken off, has
  had its quest stopped (`Stopping`).

Both theorems speak of a visit up to the first time another one's call or answer reaches
it (`Uncrossed`), which with any number of visits is a condition that matters: the code
does cross them (see the hazards). `OneGoodbye` holds across crossings, but not across a
restart, which loses the latch.

### Assumptions, and what is not proved

The assumptions are `PhaseConstants`, `BeatConstants`, `ClaimConstants`, `TickConstants`,
`PoolConstants`, `CastingAssumption`, `PlotAssumption`, `PlansAssumption`,
`VisitConstants` and `PollConstants`, which TLC evaluates in the runs: the types of the
settings and bounds, the order of the two claim settings that `Settings` asks for, that
memories of one happening are of one day, that nobody is form 0, and that a plan has a
step and none that has begun. Three invariants are proved and not run, since a run adds
nothing to the proof: `OutstandingAccurate`, `LedgerPaired` and `PendingTicksCounted`.

Only model-checked are the liveness properties, which with ENABLED are beyond TLAPS:
`EvaluationEnds`, `BeatTickEnds`, `TickEnds`, `SessionEnds`, `SlotComesBack`, `VisitEnds`.
No theorem is about `SlotsReleased`, which the code does not have.

## Plan

Done: the Director; the gossip worker with its schedule, checkpoints, claims and
publication; the letter beat and its pool; the plot simulation; the visit beat with its
conclusion poll.

Open, in this order:

1. `AmbushBeat`, which has the shape of the visit beat, with attackers it spawns.
2. `GossipSim`: carriers, the event queue and spreading, the co-save of rumors.
3. An abstract specification of a cancellable job queue that `GossipTick` and `PlotTick`
   both implement.
4. The ring buffers of the event logs, and the pure algorithms against reference
   definitions: sender cooldowns, the recovery ladder, routes.

Worth proving along it: that `GossipTick` and `PlotTick` implement the job queue of item 3,
by a step simulation like that of `BeatSlot`; for `AmbushBeat` the theorems of the visit
beat, whose invariant it should share; that a rumor's carriers stay within their caps.

## Not modelled

Control that is not modelled yet: `AmbushBeat`; the spread of a rumor from carrier to
carrier in `GossipSim`; the escort of a visitor and `StuckRecovery`; the ring buffers of
the event logs and the decision log; the tables of sender cooldowns; the gates of the
conclusion poll. Of exceptions, a failed allocation while a world is adopted or published,
and one that leaves the plots' reaper half done, are left out. A load without quitting is modelled for the Director, gossip and plots and
not for the two beats, which are given a quit and a load.

Outside what is worth modelling: the `Start` and `Stop` of the dispatchers, once per
process; what the planner and the plot texts compute; where a visitor or an ambush comes
from; prompt building and parsing, names and text; the dashboard and its web app; the
Papyrus scripts beyond the fragments the beats call, plugin records, static prompt and MCM
files; geometry (roads, grids, cameras) and rendering. These are formatting, I/O or engine
calls with no control of their own. `PROJECT.json` names each with its reason.
