----------------------------- MODULE BeatSystem -----------------------------
(***************************************************************************)
(* The Director's core: the slot that holds the running narrative beat and *)
(* the five threads that touch it (src/BeatSystem.cpp, with                *)
(* EvaluationPipeline.cpp, Tick.cpp, EvalDispatch.cpp and                  *)
(* BeatWorkDispatch.cpp around it).                                        *)
(*                                                                         *)
(*   poll   the master poll thread: cooldown, and one Tick job at a time   *)
(*   work   BeatWorkDispatch's worker: beat->Tick and its transition       *)
(*   eval   EvalDispatch's worker: evaluations and forced dispatches       *)
(*   async  AsyncDispatch's worker: Tick's poll, which fires evaluations   *)
(*   main   the game thread: dashboard requests, loads                     *)
(*                                                                         *)
(* A step is what a thread does in one hold of a lock, or between two      *)
(* points where it blocks (an LLM call, a hop to the game thread, a call   *)
(* into a beat).  A beat is known by the IBeat contract only.  Times are   *)
(* abstract: an interval that may have passed is a choice.                 *)
(***************************************************************************)
EXTENDS PhaseTracker, Sequences

CONSTANTS
  Beats,              \* the registered beats
  NoBeat,             \* the empty name
  PollInterval,       \* iBeatSystemPollIntervalMs
  CooldownThreshold,  \* iBeatCooldownSeconds, in ms
  CooldownMax,        \* UINT32_MAX
  IdealDuration,      \* [Phases -> Nat], Settings idealDuration*
  Scores,             \* the tension scores an LLM may return
  RecentCap,          \* kRecentlyFiredCap
  SelectAttempts,     \* kBeatSelectAttempts
  MaxEvalQueue,       \* bound: jobs waiting on EvalDispatch
  AbortAllowed,       \* bound: the player uses the abort button
  LoadAllowed,        \* bound: the player loads a game
  SavedPhases         \* bound: the phases found in the loaded saves

ASSUME BeatConstants ==
  /\ NoBeat \notin Beats
  /\ PollInterval \in Nat \ {0}
  /\ CooldownThreshold \in Nat
  /\ CooldownMax \in Nat
  /\ IdealDuration \in [Phases -> Nat]
  /\ Scores \subseteq Tensions
  /\ RecentCap \in Nat \ {0}
  /\ SelectAttempts \in Nat \ {0}
  /\ MaxEvalQueue \in Nat
  /\ AbortAllowed \in BOOLEAN
  /\ LoadAllowed \in BOOLEAN
  /\ SavedPhases \subseteq Phases

VARIABLES
  \* under g_stateMutex
  topLevelState, runningBeatName, runningBeatCurrentState, globalCooldownMs,
  \* under g_recentMutex; oldest first, entries older than the window dropped
  recentlyFired,
  poll,              \* the tick the poll thread captured, or NoTick
  beatTickInFlight,  \* g_beatTickInFlight
  workQueue,         \* BeatWorkDispatch's queue
  work,              \* its worker
  inFlight,          \* EvaluationPipeline's g_inFlight
  evalQueue,         \* EvalDispatch's queue: NoBeat, or a beat to force
  eval,              \* its worker
  driverOn,          \* Tick's driver thread runs
  pollLeft,          \* one of its polls outlived it, on AsyncDispatch's queue
  session,           \* what each beat keeps between its callbacks
  main,              \* the game thread
  \* History, not in the code: why the captured tick, and the tick in flight,
  \* no longer belong to the slot; what got into the slot's occupant that should
  \* not: a Tick before its OnStart, or a transition of a tick it never gave out.
  pollOwner, tickOwner, intrusion

slotVars    == <<topLevelState, runningBeatName, runningBeatCurrentState, globalCooldownMs>>
pollVars    == <<poll, pollOwner>>
workVars    == <<beatTickInFlight, workQueue, work, tickOwner>>
evalVars    == <<inFlight, evalQueue, eval>>
tickVars    == <<driverOn, pollLeft>>
vars        == <<slotVars, recentlyFired, pollVars, workVars, evalVars, tickVars,
                 session, main, intrusion, phaseVars>>

-----------------------------------------------------------------------------
LiveStates == {"COMPOSE", "RUNNING", "CLEANUP"}
BeatStates == {"NOT_RUNNING"} \cup LiveStates
TickResults == {"none", "RUNNING", "CLEANUP", "NOT_RUNNING"}
Sessions   == {"idle", "composing", "succeeded", "failed"}
Owners     == {"current", "finished", "aborted", "reverted"}

CapturedTick == [beat : Beats, state : LiveStates]
NoTick       == [beat |-> NoBeat, state |-> "NOT_RUNNING"]

IdleWork == [pc |-> "idle", beat |-> NoBeat, state |-> "NOT_RUNNING", result |-> "none"]
\* The worker's locals as a job begins, and between jobs.
Begin(pc, forced, candidates, attempt) ==
  [pc |-> pc, forced |-> forced, phase |-> Exposition, dwell |-> 0, advance |-> NoPhase,
   candidates |-> candidates, pick |-> NoBeat, attempt |-> attempt, applied |-> 0]
IdleEval == Begin("idle", NoBeat, {}, 0)

EvalSteps == {"snapshot", "tension", "gates", "filter", "select", "failed", "start",
              "onstart", "threw", "push", "append", "advance", "release"}

\* What a finalizer carries on of an evaluation's locals.
Carry(pc, pick) ==
  [pc |-> pc, forced |-> eval.forced, phase |-> Exposition, dwell |-> 0,
   advance |-> eval.advance, candidates |-> {}, pick |-> pick, attempt |-> 0,
   applied |-> eval.applied]

\* What OnSave writes, and what OnLoad accepts from a record: a slot that
\* some earlier session saved.
SavedSlot ==
  [top |-> topLevelState, name |-> runningBeatName,
   state |-> runningBeatCurrentState, cooldown |-> globalCooldownMs]
SlotRecords ==
  [top : {"NO_BEAT_RUNNING"}, name : {NoBeat}, state : {"NOT_RUNNING"}, cooldown : 0 .. CooldownMax]
  \cup [top : {"BEAT_RUNNING"}, name : Beats, state : LiveStates, cooldown : {0}]

Idle == topLevelState = "NO_BEAT_RUNNING"

\* The assignments shared by every path that empties the slot, and the loss
\* they mean for ticks already taken from it.
ReleaseSlot ==
  /\ topLevelState' = "NO_BEAT_RUNNING"
  /\ runningBeatName' = NoBeat
  /\ runningBeatCurrentState' = "NOT_RUNNING"
  /\ globalCooldownMs' = 0

Lost(owner, why) == IF owner = "current" THEN why ELSE owner
TicksLost(why) ==
  /\ pollOwner' = Lost(pollOwner, why)
  /\ tickOwner' = Lost(tickOwner, why)

Init ==
  /\ topLevelState = "NO_BEAT_RUNNING"
  /\ runningBeatName = NoBeat
  /\ runningBeatCurrentState = "NOT_RUNNING"
  /\ globalCooldownMs = 0
  /\ recentlyFired = <<>>
  /\ poll = NoTick
  /\ beatTickInFlight = FALSE
  /\ workQueue = <<>>
  /\ work = IdleWork
  /\ inFlight = FALSE
  /\ evalQueue = <<>>
  /\ eval = IdleEval
  /\ driverOn = TRUE
  /\ pollLeft = FALSE
  /\ session = [b \in Beats |-> "idle"]
  /\ main = [pc |-> "idle", beat |-> NoBeat]
  /\ pollOwner = "current" /\ tickOwner = "current" /\ intrusion = "none"
  /\ InitPhase

-----------------------------------------------------------------------------
(* Plausible bugs: each stands in for one definition below, to test that a *)
(* property notices.  None is part of Next.                                *)

PollAccrueWide ==      \* the sum is not saturated
  /\ poll = NoTick
  /\ Idle
  /\ globalCooldownMs' = globalCooldownMs + PollInterval
  /\ UNCHANGED <<topLevelState, runningBeatName, runningBeatCurrentState, recentlyFired,
                 pollVars, workVars, evalVars, tickVars, session, main, intrusion, phaseVars>>

TickClearUnlessThrown ==   \* the flag outlives a Tick that returned nothing
  /\ work.pc = "clear"
  /\ beatTickInFlight' = (work.result = "none")
  /\ work' = IdleWork
  /\ tickOwner' = "current"
  /\ UNCHANGED <<slotVars, recentlyFired, pollVars, workQueue, evalVars, tickVars, session,
                 main, intrusion, phaseVars>>

GatesOpenEarly ==      \* the cooldown gate is missing
  /\ Idle
  /\ eval.advance = NoPhase
  /\ eval.dwell >= IdealDuration[eval.phase]

EvalFilterAll ==       \* the repetition filter drops nothing
  /\ eval.pc = "filter"
  /\ eval' = IF eval.candidates = {}
             THEN Carry("append", NoBeat)
             ELSE [eval EXCEPT !.pc = "select", !.attempt = 1]
  /\ UNCHANGED <<slotVars, inFlight, intrusion, recentlyFired, pollVars, workVars, evalQueue,
                 tickVars, session, main, phaseVars>>

EvalDroppedSilently == \* a blocked start skips FinalizeWithoutBeat's ApplyDecision
  /\ eval.pc = "start"
  /\ eval' = Carry("release", NoBeat)
  /\ UNCHANGED <<slotVars, inFlight, intrusion, recentlyFired, pollVars, workVars, evalQueue,
                 tickVars, session, main, phaseVars>>

EvalStartUnchecked ==  \* StartBeatInternal does not look before it takes the slot
  /\ eval.pc = "start"
  /\ topLevelState' = "BEAT_RUNNING"
  /\ runningBeatName' = eval.pick
  /\ runningBeatCurrentState' = "COMPOSE"
  /\ globalCooldownMs' = 0
  /\ intrusion' = "none"
  /\ eval' = [eval EXCEPT !.pc = "onstart"]
  /\ UNCHANGED <<inFlight, recentlyFired, pollVars, workVars, evalQueue, tickVars, session,
                 main, phaseVars>>

EvalGivesUpLatched ==  \* a throw does not release g_inFlight
  /\ eval.pc \in {"tension", "select", "start"}
  /\ eval' = IdleEval
  /\ UNCHANGED <<slotVars, inFlight, intrusion, recentlyFired, pollVars, workVars, evalQueue,
                 tickVars, session, main, phaseVars>>

AbortForceClearsFlag == \* abort also clears the single-flight flag
  /\ main.pc = "force"
  /\ ReleaseSlot
  /\ TicksLost("aborted")
  /\ beatTickInFlight' = FALSE
  /\ main' = [pc |-> "idle", beat |-> NoBeat]
  /\ UNCHANGED <<recentlyFired, poll, workQueue, work, evalVars, tickVars, session, intrusion,
                 phaseVars>>

LoadSlotTorn ==        \* fields are stored as they are read, before a short read
  /\ \E r \in SlotRecords : topLevelState' = r.top /\ runningBeatName' = r.name
  /\ UNCHANGED <<runningBeatCurrentState, globalCooldownMs, recentlyFired>>

-----------------------------------------------------------------------------
(* The master poll thread: RunOneTick.                                     *)

\* Nothing runs and the mode is Normal: the cooldown accrues, saturating.
PollAccrue ==
  /\ poll = NoTick
  /\ Idle
  /\ globalCooldownMs' = IF globalCooldownMs + PollInterval > CooldownMax
                         THEN CooldownMax ELSE globalCooldownMs + PollInterval
  /\ UNCHANGED <<topLevelState, runningBeatName, runningBeatCurrentState, recentlyFired,
                 pollVars, workVars, evalVars, tickVars, session, main, intrusion, phaseVars>>

\* A beat runs: its name and state are copied out and the lock is dropped.
PollCapture ==
  /\ poll = NoTick
  /\ ~Idle
  /\ poll' = [beat |-> runningBeatName, state |-> runningBeatCurrentState]
  /\ pollOwner' = "current"
  /\ UNCHANGED <<slotVars, recentlyFired, workVars, evalVars, tickVars, session, main,
                 intrusion, phaseVars>>

\* The single-flight exchange finds the previous Tick still out.
PollSkip ==
  /\ poll # NoTick
  /\ beatTickInFlight
  /\ poll' = NoTick /\ pollOwner' = "current"
  /\ UNCHANGED <<slotVars, recentlyFired, workVars, evalVars, tickVars, session, main,
                 intrusion, phaseVars>>

PollEnqueue ==
  /\ poll # NoTick
  /\ ~beatTickInFlight
  /\ beatTickInFlight' = TRUE
  /\ workQueue' = Append(workQueue, poll)
  /\ tickOwner' = pollOwner
  /\ poll' = NoTick /\ pollOwner' = "current"
  /\ UNCHANGED <<slotVars, recentlyFired, work, evalVars, tickVars, session, main,
                 intrusion, phaseVars>>

Poll == PollAccrue \/ PollCapture \/ PollSkip \/ PollEnqueue

-----------------------------------------------------------------------------
(* BeatWorkDispatch's worker: one Tick job.                                *)

TickEnter ==
  /\ work.pc = "idle"
  /\ workQueue # <<>>
  /\ LET job == Head(workQueue) IN
       /\ work' = [pc |-> "ticking", beat |-> job.beat, state |-> job.state, result |-> "none"]
       /\ intrusion' = IF eval.pc = "onstart" /\ eval.pick = job.beat THEN "early" ELSE intrusion
  /\ workQueue' = Tail(workQueue)
  /\ UNCHANGED <<slotVars, recentlyFired, pollVars, beatTickInFlight, tickOwner, evalVars,
                 tickVars, session, main, phaseVars>>

\* What IBeat::Tick may return in each state, and what becomes of the
\* beat's own session: COMPOSE decides once, and repeats its decision.  A
\* session left over from before is "idle" too: it may decide anything.
TickOutcomes(state, s) ==
  CASE state = "COMPOSE" ->
         {[result |-> "none", session |-> IF s = "idle" THEN "composing" ELSE s]}
         \cup (IF s = "failed" THEN {} ELSE {[result |-> "RUNNING", session |-> "succeeded"]})
         \cup (IF s = "succeeded" THEN {} ELSE {[result |-> "CLEANUP", session |-> "failed"]})
    [] state = "RUNNING" -> [result : {"none", "CLEANUP"}, session : {s}]
    [] state = "CLEANUP" -> {[result |-> "none", session |-> s]}
                            \cup {[result |-> "NOT_RUNNING", session |-> "idle"]}

TickReturn ==
  /\ work.pc = "ticking"
  /\ \E o \in TickOutcomes(work.state, session[work.beat]) :
       /\ work' = [work EXCEPT !.pc = "apply", !.result = o.result]
       /\ session' = [session EXCEPT ![work.beat] = o.session]
  /\ UNCHANGED <<slotVars, recentlyFired, pollVars, beatTickInFlight, workQueue, tickOwner,
                 evalVars, tickVars, main, intrusion, phaseVars>>

\* ApplyBeatTickTransition: by name, and only while that name runs.
Applies == ~Idle /\ runningBeatName = work.beat /\ work.result # "none"

TickDiscard ==
  /\ work.pc = "apply"
  /\ ~Applies
  /\ work' = [work EXCEPT !.pc = "clear"]
  /\ UNCHANGED <<slotVars, recentlyFired, pollVars, beatTickInFlight, workQueue, tickOwner,
                 evalVars, tickVars, session, main, intrusion, phaseVars>>

TickAdvance ==
  /\ work.pc = "apply"
  /\ Applies
  /\ work.result # "NOT_RUNNING"
  /\ runningBeatCurrentState' = work.result
  /\ intrusion' = IF tickOwner = "current" THEN intrusion ELSE "stale"
  /\ work' = [work EXCEPT !.pc = "clear"]
  /\ UNCHANGED <<topLevelState, runningBeatName, globalCooldownMs, recentlyFired, pollVars,
                 beatTickInFlight, workQueue, tickOwner, evalVars, tickVars, session, main,
                 phaseVars>>

TickRelease ==
  /\ work.pc = "apply"
  /\ Applies
  /\ work.result = "NOT_RUNNING"
  /\ ReleaseSlot
  /\ TicksLost("finished")
  /\ work' = [work EXCEPT !.pc = "clear"]
  /\ UNCHANGED <<recentlyFired, poll, beatTickInFlight, workQueue, evalVars, tickVars,
                 session, main, intrusion, phaseVars>>

TickClear ==
  /\ work.pc = "clear"
  /\ beatTickInFlight' = FALSE
  /\ work' = IdleWork
  /\ tickOwner' = "current"
  /\ UNCHANGED <<slotVars, recentlyFired, pollVars, workQueue, evalVars, tickVars, session,
                 main, intrusion, phaseVars>>

Work == TickEnter \/ TickReturn \/ TickDiscard \/ TickAdvance \/ TickRelease \/ TickClear

-----------------------------------------------------------------------------
(* EvalDispatch's worker: BeginEvaluation, and FireBeatSelectLLM for a     *)
(* forced dispatch.                                                        *)

evalFrame == <<recentlyFired, pollVars, workVars, evalQueue, tickVars, session, main>>

\* The next job.  An evaluation takes g_inFlight or drops the tick; a forced
\* dispatch goes straight to beat-select with its one candidate.
EvalTake ==
  /\ eval.pc = "idle"
  /\ evalQueue # <<>>
  /\ evalQueue' = Tail(evalQueue)
  /\ LET job == Head(evalQueue) IN
       IF job = NoBeat
       THEN /\ eval' = IF inFlight THEN IdleEval ELSE Begin("snapshot", NoBeat, {}, 0)
            /\ inFlight' = TRUE
       ELSE /\ eval' = Begin("select", job, {job}, 1)
            /\ UNCHANGED inFlight
  /\ UNCHANGED <<slotVars, recentlyFired, pollVars, workVars, tickVars, session, main,
                 intrusion, phaseVars>>

\* BuildSnapshot copies the phase and, sampling it, the dwell.
EvalSnapshot ==
  /\ eval.pc = "snapshot"
  /\ Sample \/ UNCHANGED phaseVars
  /\ eval' = [eval EXCEPT !.pc = "tension", !.phase = phase, !.dwell = dwell']
  /\ UNCHANGED <<slotVars, inFlight, intrusion, evalFrame>>

\* The tension LLM answers: ParseDecision decides the advance from the
\* snapshot.  An answer that does not parse decides none.
EvalTension ==
  /\ eval.pc = "tension"
  /\ \/ eval' = [eval EXCEPT !.pc = "gates"]
     \/ \E score \in Scores :
          eval' = [eval EXCEPT !.pc = "gates",
                               !.advance = EvaluateAdvance(eval.phase, score, eval.dwell)]
  /\ UNCHANGED <<slotVars, inFlight, intrusion, evalFrame, phaseVars>>

\* ConsiderBeat's gates, from one read of the slot.
GatesOpen ==
  /\ Idle
  /\ eval.advance = NoPhase
  /\ globalCooldownMs >= CooldownThreshold
  /\ eval.dwell >= IdealDuration[eval.phase]

\* A gate blocks, or a global precondition does: FinalizeWithoutBeat.
EvalBlocked ==
  /\ eval.pc = "gates"
  /\ eval' = Carry("append", NoBeat)
  /\ UNCHANGED <<slotVars, inFlight, intrusion, evalFrame, phaseVars>>

\* BuildBeatSelectPrep: the enabled beats whose polarity fits, that are
\* available and have senders enough.
EvalCandidates ==
  /\ eval.pc = "gates"
  /\ GatesOpen
  /\ \E C \in SUBSET Beats : eval' = [eval EXCEPT !.pc = "filter", !.candidates = C]
  /\ UNCHANGED <<slotVars, inFlight, intrusion, evalFrame, phaseVars>>

Recent == {recentlyFired[i] : i \in DOMAIN recentlyFired}

EvalFilter ==
  /\ eval.pc = "filter"
  /\ LET fresh == eval.candidates \ Recent IN
       eval' = IF fresh = {}
               THEN Carry("append", NoBeat)
               ELSE [eval EXCEPT !.pc = "select", !.candidates = fresh, !.attempt = 1]
  /\ UNCHANGED <<slotVars, inFlight, intrusion, evalFrame, phaseVars>>

\* FireBeatSelectLLM's loop: an error or a malformed answer fails at once,
\* an option not offered is asked again until the attempts are spent.
EvalSelectFails ==
  /\ eval.pc = "select"
  /\ eval' = Carry("failed", NoBeat)
  /\ UNCHANGED <<slotVars, inFlight, intrusion, evalFrame, phaseVars>>

EvalRetry ==
  /\ eval.pc = "select"
  /\ eval.attempt < SelectAttempts
  /\ eval' = [eval EXCEPT !.attempt = @ + 1]
  /\ UNCHANGED <<slotVars, inFlight, intrusion, evalFrame, phaseVars>>

EvalPick ==
  /\ eval.pc = "select"
  /\ \E b \in eval.candidates : eval' = Carry("start", b)
  /\ UNCHANGED <<slotVars, inFlight, intrusion, evalFrame, phaseVars>>

\* FinalizeWithFailure.
EvalFailed ==
  /\ eval.pc = "failed"
  /\ globalCooldownMs' = 0
  /\ eval' = Carry("append", NoBeat)
  /\ UNCHANGED <<topLevelState, runningBeatName, runningBeatCurrentState, inFlight,
                 intrusion, evalFrame, phaseVars>>

\* FinalizeWithLLMResponse: the global preconditions changed during the LLM
\* call, or StartBeatInternal finds a beat running, or it takes the slot.
EvalDropped ==
  /\ eval.pc = "start"
  /\ eval' = Carry("append", NoBeat)
  /\ UNCHANGED <<slotVars, inFlight, intrusion, evalFrame, phaseVars>>

EvalRefused ==
  /\ eval.pc = "start"
  /\ ~Idle
  /\ eval' = [eval EXCEPT !.pc = "push"]
  /\ UNCHANGED <<slotVars, inFlight, intrusion, evalFrame, phaseVars>>

EvalStart ==
  /\ eval.pc = "start"
  /\ Idle
  /\ topLevelState' = "BEAT_RUNNING"
  /\ runningBeatName' = eval.pick
  /\ runningBeatCurrentState' = "COMPOSE"
  /\ globalCooldownMs' = 0
  /\ intrusion' = "none"
  /\ eval' = [eval EXCEPT !.pc = "onstart"]
  /\ UNCHANGED <<inFlight, evalFrame, phaseVars>>

\* OnStart runs after the lock is dropped; it resets the beat's session, or
\* seeds it failed when the parameters do not parse, or throws.
EvalOnStart ==
  /\ eval.pc = "onstart"
  /\ \/ /\ \E s \in {"composing", "failed"} : session' = [session EXCEPT ![eval.pick] = s]
        /\ eval' = [eval EXCEPT !.pc = "push"]
     \/ /\ eval' = [eval EXCEPT !.pc = "threw"]
        /\ UNCHANGED session
  /\ UNCHANGED <<slotVars, recentlyFired, pollVars, workVars, inFlight, evalQueue, tickVars,
                 main, intrusion, phaseVars>>

\* BeatSystem::OnRevert, from StartBeatInternal's handlers.
EvalThrew ==
  /\ eval.pc = "threw"
  /\ ReleaseSlot
  /\ TicksLost("reverted")
  /\ recentlyFired' = <<>>
  /\ eval' = [eval EXCEPT !.pc = "push"]
  /\ UNCHANGED <<poll, beatTickInFlight, workQueue, work, inFlight, evalQueue, tickVars,
                 session, main, intrusion, phaseVars>>

\* PushRecentlyFired, whatever StartBeatInternal did.
EvalPush ==
  /\ eval.pc = "push"
  /\ LET ring == Append(recentlyFired, eval.pick) IN
       recentlyFired' = IF Len(ring) > RecentCap THEN Tail(ring) ELSE ring
  /\ eval' = Carry("append", NoBeat)
  /\ UNCHANGED <<slotVars, pollVars, workVars, inFlight, evalQueue, tickVars, session, main,
                 intrusion, phaseVars>>

\* ApplyDecision: DecisionLog::Append, known by how often it ran for this
\* evaluation, then the phase advance when the record has one.
EvalAppend ==
  /\ eval.pc = "append"
  /\ eval' = [eval EXCEPT !.applied = @ + 1,
                          !.pc = IF eval.advance = NoPhase THEN "release" ELSE "advance"]
  /\ UNCHANGED <<slotVars, inFlight, intrusion, evalFrame, phaseVars>>

EvalAdvance ==
  /\ eval.pc = "advance"
  /\ AdvanceTo(eval.advance)
  /\ eval' = [eval EXCEPT !.pc = "release"]
  /\ UNCHANGED <<slotVars, inFlight, intrusion, evalFrame>>

\* onFinalized, which a forced dispatch does not have.
EvalRelease ==
  /\ eval.pc = "release"
  /\ inFlight' = IF eval.forced = NoBeat THEN FALSE ELSE inFlight
  /\ eval' = IdleEval
  /\ UNCHANGED <<slotVars, intrusion, evalFrame, phaseVars>>

\* The tension call fails, or serializing a prompt or the parameters throws:
\* the guard or the handler releases the flag and the worker goes on.
EvalGivesUp ==
  /\ eval.pc \in {"tension", "select", "start"}
  /\ inFlight' = IF eval.forced = NoBeat THEN FALSE ELSE inFlight
  /\ eval' = IdleEval
  /\ UNCHANGED <<slotVars, intrusion, evalFrame, phaseVars>>

EvalStep ==
  \/ EvalTake \/ EvalSnapshot \/ EvalTension \/ EvalBlocked \/ EvalCandidates \/ EvalFilter
  \/ EvalSelectFails \/ EvalRetry \/ EvalPick \/ EvalFailed \/ EvalDropped \/ EvalRefused
  \/ EvalStart \/ EvalOnStart \/ EvalThrew \/ EvalPush \/ EvalAppend \/ EvalAdvance
  \/ EvalRelease \/ EvalGivesUp

-----------------------------------------------------------------------------
(* Tick: the driver thread queues a poll on AsyncDispatch every half       *)
(* second.  A poll may find its session new, the game paused, the Director *)
(* switched off or no evaluation due, and then changes nothing here.       *)

TickFire ==
  /\ driverOn \/ pollLeft
  /\ ~inFlight
  /\ Len(evalQueue) < MaxEvalQueue
  /\ Sample
  /\ evalQueue' = Append(evalQueue, NoBeat)
  /\ pollLeft' = (pollLeft /\ driverOn)
  /\ UNCHANGED <<slotVars, recentlyFired, pollVars, workVars, inFlight, eval, driverOn,
                 session, main, intrusion>>

-----------------------------------------------------------------------------
(* The game thread: dashboard requests and SKSE's load messages.           *)

mainFrame == <<poll, beatTickInFlight, workQueue, work, inFlight, eval, intrusion>>

\* ForceDispatchBeat: refused while a beat runs; every gate but the global
\* preconditions is bypassed.
ForceDispatchBeat ==
  /\ main.pc = "idle"
  /\ Idle
  /\ Len(evalQueue) < MaxEvalQueue
  /\ \E b \in Beats : evalQueue' = Append(evalQueue, b)
  /\ UNCHANGED <<slotVars, recentlyFired, pollVars, workVars, inFlight, eval, tickVars,
                 session, main, intrusion, phaseVars>>

\* AbortRunningBeat: the name is read under the lock, the beat unwinds
\* outside it, and the slot is emptied under it again.
AbortRead ==
  /\ AbortAllowed
  /\ main.pc = "idle"
  /\ ~Idle
  /\ main' = [pc |-> "unwind", beat |-> runningBeatName]
  /\ UNCHANGED <<slotVars, recentlyFired, mainFrame, pollOwner, tickOwner, evalQueue, tickVars,
                 session, phaseVars>>

AbortBeat ==
  /\ main.pc = "unwind"
  /\ session' = [session EXCEPT ![main.beat] = "idle"]
  /\ main' = [main EXCEPT !.pc = "force"]
  /\ UNCHANGED <<slotVars, recentlyFired, mainFrame, pollOwner, tickOwner, evalQueue, tickVars,
                 phaseVars>>

AbortForce ==
  /\ main.pc = "force"
  /\ ReleaseSlot
  /\ TicksLost("aborted")
  /\ main' = [pc |-> "idle", beat |-> NoBeat]
  /\ UNCHANGED <<recentlyFired, mainFrame, evalQueue, tickVars, session, phaseVars>>

\* The OnReverts of BeatSystem, PhaseTracker and the beats.  Some beats keep
\* their session across theirs.
RevertAll ==
  /\ ReleaseSlot
  /\ TicksLost("reverted")
  /\ recentlyFired' = <<>>
  /\ Reset
  /\ session' \in {s \in [Beats -> Sessions] : \A b \in Beats : s[b] \in {"idle", session[b]}}

\* kPreLoadGame: Tick::Stop joins the driver - a poll it queued may still be
\* waiting - then everything reverts.
LoadBegin ==
  /\ LoadAllowed
  /\ main.pc = "idle"
  /\ driverOn' = FALSE
  /\ pollLeft' \in BOOLEAN
  /\ RevertAll
  /\ main' = [main EXCEPT !.pc = "preload"]
  /\ UNCHANGED <<mainFrame, evalQueue>>

\* SKSE's revert callback.
LoadRevert ==
  /\ main.pc = "preload"
  /\ RevertAll
  /\ main' = [main EXCEPT !.pc = "reverted"]
  /\ UNCHANGED <<mainFrame, evalQueue, tickVars>>

\* SKSE's load callback hands each record present to its owner.  A record of
\* another version, a short one, or one of a beat no longer registered is
\* BeatSystem::OnRevert; PhaseTracker's bad record is Reset.
LoadSlot ==
  \/ /\ \E r \in SlotRecords :
          /\ topLevelState' = r.top
          /\ runningBeatName' = r.name
          /\ runningBeatCurrentState' = r.state
          /\ globalCooldownMs' = r.cooldown
     /\ UNCHANGED recentlyFired
  \/ ReleaseSlot /\ recentlyFired' = <<>>

LoadRecords ==
  /\ main.pc = "reverted"
  /\ LoadSlot
  /\ TicksLost("reverted")
  /\ \/ \E p \in SavedPhases, d \in 0 .. MaxDwell : RestorePhase(p, d)
     \/ Reset
  /\ main' = [main EXCEPT !.pc = "loaded"]
  /\ UNCHANGED <<mainFrame, evalQueue, tickVars, session>>

\* kPostLoadGame: Tick::Start.
LoadDone ==
  /\ main.pc = "loaded"
  /\ driverOn' = TRUE
  /\ pollLeft' = FALSE
  /\ main' = [main EXCEPT !.pc = "idle"]
  /\ UNCHANGED <<slotVars, recentlyFired, mainFrame, pollOwner, tickOwner, evalQueue, session,
                 phaseVars>>

Main ==
  \/ ForceDispatchBeat
  \/ AbortRead \/ AbortBeat \/ AbortForce
  \/ LoadBegin \/ LoadRevert \/ LoadRecords \/ LoadDone

\* Real time passes: the oldest entry leaves the repetition window.
WindowPasses ==
  /\ recentlyFired # <<>>
  /\ recentlyFired' = Tail(recentlyFired)
  /\ UNCHANGED <<slotVars, pollVars, workVars, evalVars, tickVars, session, main, intrusion,
                 phaseVars>>

Next == Poll \/ Work \/ EvalStep \/ TickFire \/ Main \/ WindowPasses

Spec == Init /\ [][Next]_vars

\* Each worker runs while it has work: its thread is never blocked for ever
\* (every LLM call is answered, every hop to the game thread returns).
FairSpec == Spec /\ WF_vars(PollSkip \/ PollEnqueue) /\ WF_vars(Work) /\ WF_vars(EvalStep)

-----------------------------------------------------------------------------
\* Every variable holds a value of its type: among the rest, the cooldown
\* saturates instead of wrapping and the repetition ring keeps to its cap.
SlotTypeOK ==
  /\ topLevelState \in {"NO_BEAT_RUNNING", "BEAT_RUNNING"}
  /\ runningBeatName \in Beats \cup {NoBeat}
  /\ runningBeatCurrentState \in BeatStates
  /\ globalCooldownMs \in 0 .. CooldownMax

RingTypeOK == recentlyFired \in Seq(Beats) /\ Len(recentlyFired) <= RecentCap

WorkTypeOK ==
  /\ poll \in CapturedTick \cup {NoTick}
  /\ beatTickInFlight \in BOOLEAN
  /\ workQueue \in Seq(CapturedTick)
  /\ work \in [pc : {"ticking", "apply", "clear"}, beat : Beats, state : LiveStates,
               result : TickResults] \cup {IdleWork}
  /\ session \in [Beats -> Sessions]
  /\ pollOwner \in Owners /\ tickOwner \in Owners
  /\ intrusion \in {"none", "early", "stale"}

Evaluations ==
  [pc : {"idle"} \cup EvalSteps, forced : Beats \cup {NoBeat}, phase : Phases,
   dwell : 0 .. MaxDwell, advance : Phases \cup {NoPhase}, candidates : SUBSET Beats,
   pick : Beats \cup {NoBeat}, attempt : 0 .. SelectAttempts, applied : Nat]

EvalTypeOK ==
  /\ inFlight \in BOOLEAN
  /\ evalQueue \in Seq(Beats \cup {NoBeat})
  /\ eval \in Evaluations

MainTypeOK ==
  /\ driverOn \in BOOLEAN /\ pollLeft \in BOOLEAN
  /\ main \in [pc : {"idle", "unwind", "force", "preload", "reverted", "loaded"},
               beat : Beats \cup {NoBeat}]

TypeOK == SlotTypeOK /\ RingTypeOK /\ WorkTypeOK /\ EvalTypeOK /\ MainTypeOK /\ PhaseTypeOK

\* What OnSave would write at this moment is a record OnLoad can put back: a
\* name and a live state exactly while a beat runs, and no cooldown banked
\* under a running beat (slot writes of six paths by five threads).
SaveIsRestorable == SavedSlot \in SlotRecords

\* Single flight: g_beatTickInFlight is set exactly while one Tick job is
\* queued or running, and there is never a second one (BeatSystem.cpp:100).
SingleFlight ==
  Len(workQueue) + (IF work.pc = "idle" THEN 0 ELSE 1) = IF beatTickInFlight THEN 1 ELSE 0

\* g_inFlight is set exactly while an evaluation is being worked on: no path
\* out of BeginEvaluation or ConsiderBeat leaves it latched or drops it early.
InFlightAccurate == inFlight <=> (eval.pc # "idle" /\ eval.forced = NoBeat)

\* Every decision is applied once: when a job reaches its finalizer its
\* record has been appended to the log exactly once.
DecisionAppliedOnce ==
  /\ eval.applied <= 1
  /\ eval.pc \in {"advance", "release"} => eval.applied = 1

\* The Director respects the cooldown: a beat of its own choice takes the
\* slot only when the cooldown, read before a whole LLM call, still stands.
CooldownRespected ==
  [][EvalStart /\ eval.forced = NoBeat => globalCooldownMs >= CooldownThreshold]_vars

\* The Director does not repeat itself: the beat it starts is not one that
\* fired inside the window, though the filter ran before the LLM call.
NoRepetition ==
  [][EvalStart /\ eval.forced = NoBeat => eval.pick \notin Recent]_vars

\* The co-saved state of a beat moves forward only, even though a tick may
\* act on a state copied before an earlier tick's transition - unless a tick
\* got into the beat before its OnStart, one taken from an earlier occupant
\* was applied to it, an abort has already unwound it, or a load puts a slot
\* back.
Rank == [NOT_RUNNING |-> 0, COMPOSE |-> 1, RUNNING |-> 2, CLEANUP |-> 3]
StateMovesForward ==
  [][/\ intrusion' = "none" /\ main.pc \notin {"force", "reverted"}
     /\ runningBeatName' = runningBeatName /\ runningBeatName # NoBeat
     => Rank[runningBeatCurrentState'] >= Rank[runningBeatCurrentState]]_vars

\* The phase goes round in Freytag order: whatever an evaluation decided
\* from its snapshot, the advance it applies moves to the successor.
PhaseOrder == [][EvalAdvance => phase' = NextPhase(phase)]_vars

\* The Director does not get stuck: an evaluation in flight ends.
EvaluationEnds == inFlight ~> ~inFlight

\* The running beat is not starved: a Tick in flight ends.
BeatTickEnds == beatTickInFlight ~> ~beatTickInFlight

-----------------------------------------------------------------------------
\* From the revert before a load to the record it puts back.
Loading == main.pc \in {"preload", "reverted"}

Slot == INSTANCE BeatSlot WITH
  occupant <- runningBeatName, stage <- runningBeatCurrentState,
  cooldown <- globalCooldownMs, loading <- Loading

\* BeatSystem implements the one-beat slot: whoever reaches the slot first - an
\* evaluation, a forced dispatch, a tick, an abort, a load - a beat enters it
\* only while it is empty, its cooldown is banked only by polls of an empty
\* slot, and a record gets into it only by the load in progress, once.
ImplementsSlot == Slot!Spec
=============================================================================
