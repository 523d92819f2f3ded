---------------------------- MODULE NPCVisitBeat ----------------------------
(***************************************************************************)
(* The visit beat (src/NPCVisitBeat.cpp): an NPC is brought to the player, *)
(* talks, and is sent home.  Its stage is BeatSystem's; where the visit    *)
(* has got to is the stage of a quest that only Papyrus moves.             *)
(*                                                                         *)
(*   ticks    BeatWorkDispatch's worker runs Tick                          *)
(*   answers  AsyncDispatch's worker runs the LLM callbacks                *)
(*   main     the game thread runs the queued tasks, the two sinks, Abort  *)
(*   vm       Papyrus runs the calls dispatched to the quest, in any order *)
(*                                                                         *)
(* Every visit has a visitor of its own, known by its number.              *)
(***************************************************************************)
EXTENDS VisitConclusionPoll, Sequences, Bags

CONSTANTS
  TimeoutTicks,  \* the approach, dwell and walk-home limits, in ticks
  FillTicks,     \* kFillVerifyMaxTicks
  NudgeCap,      \* iVisitMaxIgnoreNudges
  MaxVm,         \* bound: Papyrus calls waiting when the game thread acts
  MaxRestarts    \* bound: how often the game is quit and loaded again

ASSUME VisitConstants ==
  /\ TimeoutTicks \in Nat /\ FillTicks \in Nat \ {0} /\ NudgeCap \in Nat \ {0}
  /\ MaxVm \in Nat \ {0} /\ MaxRestarts \in Nat

VARIABLES
  stage,     \* the beat's state in BeatSystem
  session,   \* visits started
  sub,       \* g_subPhase
  param,     \* g_paramSenderFormID is set
  flag,      \* the session's latches, see NoFlags
  rollback,  \* g_pendingRollbackReason: none, now, or when nobody sees it
  looked,    \* g_lastPlayerCellFormID is set
  timer,     \* ticks since each clock was started, or Off
  hold,      \* g_discussSubPhase
  fillTicks, \* g_fillVerifyTicks
  snap,      \* VisitState's snapshot: is there one, and an anchor in it
  nudges,    \* the snapshot's ignoreNudgeCount
  composes,  \* the compose calls not answered, by visit
  tasks,     \* this beat's tasks on the game thread's queue
  busy,      \* the game thread is in the middle of the first of them, a check
  quest,     \* external: the visit quest: who started it, stage, aliases
  vm,        \* external: Papyrus calls dispatched and not yet run
  away,      \* external: visitors that are not where the beat found them
  dead,      \* external: visitors that have died
  restarts,  \* how often the game was quit and loaded again
  ended,     \* history: what this visit was recorded as
  met,       \* history: this visit's opening line was dispatched
  closings,  \* history: how often this visit's closing line was dispatched
  stranded,  \* history: visitors a visit gave up on after the warp
  crossed    \* history: something meant for one visit has reached another

latches == <<flag, rollback, looked, timer, hold, fillTicks>>
record  == <<snap, nudges>>
world   == <<quest, vm, away, dead>>
history == <<ended, met, closings, stranded, crossed>>
vars == <<stage, session, sub, param, latches, record, composes, tasks, busy, world,
          restarts, history, pollVars>>

Off     == -1
NoVisit == 0
NoSnap  == [known |-> FALSE, anchor |-> FALSE]
NoQuest == [visit |-> NoVisit, stage |-> 0, sender |-> NoVisit, anchor |-> FALSE]
\* g_hardAbortFired, g_valedictionFired, g_terminalCleanupDone,
\* g_salutationNarrationFired, g_salutationDiscussLatch, g_runningTaskInFlight,
\* g_visitInFlight.
FlagNames == {"hardAbort", "valediction", "terminal", "salutation", "latch", "task", "inFlight"}
NoFlags   == [f \in FlagNames |-> FALSE]
NoTimers  == [salutation |-> Off, valediction |-> Off, home |-> Off]

Salutation  == 10
Discuss     == 20
Valediction == 30
ReturnHome  == 50
Rollback    == 60
Shutdown    == 200
QuestStages == {0, Salutation, Discuss, Valediction, ReturnHome, Rollback, Shutdown}
TornDown    == {0, Rollback, Shutdown}
\* The quest script's other calls, beside SetStage.
FillSender == 1
FillAnchor == 2
StopQuest  == 3

Stages    == {"NOT_RUNNING", "COMPOSE", "RUNNING", "CLEANUP"}
SubPhases == {"Start", "ComposingLLM", "LLMResultReady", "SelectingPoint", "StartingQuest",
              "Warping", "VerifyingFill", "Arming", "Succeeded", "Failed"}

Init ==
  /\ stage = "NOT_RUNNING" /\ session = NoVisit /\ sub = "Start" /\ param = FALSE
  /\ flag = NoFlags /\ rollback = "none" /\ looked = FALSE
  /\ timer = NoTimers /\ hold = "Discussing" /\ fillTicks = 0
  /\ snap = NoSnap /\ nudges = 0 /\ composes = {} /\ tasks = <<>> /\ busy = FALSE
  /\ quest = NoQuest /\ vm = EmptyBag /\ away = {} /\ dead = {} /\ restarts = 0
  /\ ended = {} /\ met = FALSE /\ closings = 0 /\ stranded = {} /\ crossed = FALSE
  /\ PollInit

-----------------------------------------------------------------------------
(* The ways a visit is torn down.                                          *)

Call(c)    == [call |-> c, visit |-> session]
Task(op)   == [op |-> op, visit |-> session]
Send(c)    == vm' = vm (+) SetToBag({Call(c)})
\* MaxVm's bound.
Room        == BagCardinality(vm) < MaxVm
\* A call for the quest while it is still another visit's.
Dispatch(c) == Send(c) /\ crossed' = (crossed \/ quest.visit \notin {NoVisit, session})

\* SendSenderHome: to the anchor, else to the position in the snapshot, which
\* is nowhere in particular when the snapshot has been reset.
SentHome ==
  IF quest.sender # NoVisit /\ (quest.anchor \/ snap.known) THEN away \ {quest.sender} ELSE away
SentHomeAlive == IF quest.sender \in dead THEN away ELSE SentHome

RollBackUnlatched(f) ==  \* mutant: the terminal latch is not set
  away' = SentHome /\ Dispatch(Rollback) /\ Disarm /\ ended' = ended \cup {"rolledback"} /\ flag' = f

RollBackVisit(f) ==
  /\ away' = SentHome
  /\ Dispatch(Rollback)
  /\ Disarm
  /\ ended' = ended \cup {"rolledback"}
  /\ flag' = [f EXCEPT !.terminal = TRUE]

HardAbortLeavesThem(f, why) ==  \* mutant: nobody is sent home
  IF f.hardAbort THEN flag' = f /\ UNCHANGED <<away, vm, ended, crossed, pollVars>>
  ELSE /\ Dispatch(Shutdown) /\ Disarm /\ ended' = ended \cup {why} /\ UNCHANGED away
       /\ flag' = [f EXCEPT !.hardAbort = TRUE, !.terminal = TRUE]

HardAbortVisit(f, why) ==
  IF f.hardAbort THEN flag' = f /\ UNCHANGED <<away, vm, ended, crossed, pollVars>>
  ELSE /\ away' = SentHomeAlive
       /\ Dispatch(Shutdown)
       /\ Disarm
       /\ ended' = ended \cup {why}
       /\ flag' = [f EXCEPT !.hardAbort = TRUE, !.terminal = TRUE]

RunReturnHomeShutdown(f) ==
  /\ away' = SentHomeAlive
  /\ Dispatch(Shutdown)
  /\ ended' = ended \cup {"completed"}
  /\ flag' = [f EXCEPT !.terminal = TRUE]
  /\ UNCHANGED pollVars

-----------------------------------------------------------------------------
\* OnStart, with ResetSessionState: parameters that do not parse seed the
\* session failed.  A check of the visit before may be under way.
OnStart ==
  /\ stage = "NOT_RUNNING" /\ session + 1 \in Visits
  /\ session' = session + 1
  /\ stage' = "COMPOSE"
  /\ sub' \in {"Start", "Failed"}
  /\ param' = (sub' = "Start")
  /\ flag' = [NoFlags EXCEPT !.inFlight = TRUE]
  /\ rollback' = "none" /\ looked' = FALSE /\ timer' = NoTimers
  /\ hold' = "Discussing" /\ fillTicks' = 0
  /\ snap' = NoSnap /\ nudges' = 0
  /\ ended' = {} /\ met' = FALSE /\ closings' = 0
  /\ crossed' = (crossed \/ busy)
  /\ UNCHANGED <<composes, tasks, busy, world, restarts, stranded, pollVars>>

-----------------------------------------------------------------------------
(* WatchPlayerArea, at the start of every tick of COMPOSE and RUNNING: the *)
(* first look only remembers the cell.                                     *)

\* RequestRollback: the first reason wins, but one that waits for nobody to
\* see it gives way to one that does not.
Requested(reason) == IF rollback \in {"none", "unseen"} THEN reason ELSE rollback
Withdrawn         == IF rollback = "unseen" THEN "none" ELSE rollback

AreaSays ==
  IF looked /\ ~flag.salutation
  THEN {rollback, Withdrawn, Requested("now"), IF rollback = "none" THEN "unseen" ELSE rollback}
  ELSE {rollback}
Looks == looked' = (looked \/ ~flag.salutation)

-----------------------------------------------------------------------------
(* Tick, COMPOSE.  A rollback asked for is honoured where nothing is in     *)
(* flight and nobody was moved; elsewhere it waits.                         *)

Honoured == {"Start", "LLMResultReady", "SelectingPoint", "StartingQuest", "Warping"}

ComposeTick(phase) ==
  /\ stage = "COMPOSE" /\ sub = phase /\ ~busy
  /\ Looks
  /\ rollback' \in IF phase \in Honoured THEN AreaSays \cap {"none"} ELSE AreaSays
  /\ UNCHANGED <<session, param, hold, tasks, busy, dead, restarts, ended, met, closings>>

TickRolledBack ==
  /\ stage = "COMPOSE" /\ sub \in Honoured
  /\ AreaSays # {"none"}
  /\ sub' = "Failed"
  /\ rollback' = "none"
  /\ Looks
  /\ UNCHANGED <<stage, session, param, flag, timer, hold, fillTicks, record, composes, tasks, busy,
                 world, restarts, history, pollVars>>

\* A tick in combat, or one that waits for the answer.
TickWatches ==
  /\ stage = "COMPOSE"
  /\ Looks /\ rollback' \in AreaSays
  /\ UNCHANGED <<stage, session, sub, param, flag, timer, hold, fillTicks, record, composes,
                 tasks, busy, world, restarts, history, pollVars>>

\* FireComposeLLM; the composer may refuse in the caller, and does when the
\* session has no sender.
TickCompose ==
  /\ ComposeTick("Start")
  /\ \/ param /\ sub' = "ComposingLLM" /\ composes' = composes \cup {session}
     \/ sub' = "Failed" /\ UNCHANGED composes
  /\ UNCHANGED <<stage, flag, timer, fillTicks, record, quest, vm, away, stranded, crossed, pollVars>>

\* LLMResultReady to SelectingPoint, and ComposeSelectPoint: the visitor may
\* be dead by now, and there may be no road to come from.
TickSelects ==
  /\ \/ ComposeTick("LLMResultReady") /\ sub' = "SelectingPoint"
     \/ ComposeTick("SelectingPoint") /\ snap.known /\ session \notin dead /\ sub' = "StartingQuest"
     \/ ComposeTick("SelectingPoint") /\ sub' = "Failed"
  /\ UNCHANGED <<stage, flag, timer, fillTicks, record, composes, quest, vm, away, stranded,
                 crossed, pollVars>>

\* ComposeStartQuest: the anchor first, where the visitor still stands.  The
\* quest's startup fragment sets Stage 10; a quest that is already running
\* is left as it is.
TickStartQuest ==
  /\ ComposeTick("StartingQuest")
  /\ \/ /\ session \notin dead
        /\ snap' \in [known : {TRUE}, anchor : BOOLEAN]
        /\ nudges' = 0
        /\ \/ /\ sub' = "Warping"
              /\ IF quest.visit = NoVisit
                 THEN /\ quest' = [quest EXCEPT !.visit = session, !.stage = 0]
                      /\ Dispatch(Salutation)
                 ELSE crossed' = TRUE /\ UNCHANGED <<quest, vm>>
           \/ sub' = "Failed" /\ UNCHANGED <<quest, vm, crossed>>
     \/ session \in dead /\ sub' = "Failed" /\ UNCHANGED <<record, quest, vm, crossed>>
  /\ UNCHANGED <<stage, flag, timer, fillTicks, composes, away, stranded, pollVars>>

\* The fills of the visit's aliases.
Fills == {FillSender} \cup (IF snap.anchor THEN {FillAnchor} ELSE {})

\* ComposeWarp: the visitor is moved and both fills are dispatched.
TickWarp ==
  /\ ComposeTick("Warping")
  /\ \/ /\ session \notin dead
        /\ away' = away \cup {session}
        /\ vm' = vm (+) SetToBag({Call(c) : c \in Fills})
        /\ fillTicks' = 0
        /\ sub' = "VerifyingFill"
     \/ sub' = "Failed" /\ UNCHANGED <<away, vm, fillTicks>>
  /\ UNCHANGED <<stage, flag, timer, record, composes, quest, stranded, crossed, pollVars>>

Filled == quest.sender # NoVisit /\ (snap.anchor => quest.anchor)

\* ComposeVerifyFill: giving up dispatches the rollback and leaves the visitor
\* where the warp put them.
TickVerifyFillLate ==  \* mutant: it gives up one tick later
  /\ ComposeTick("VerifyingFill")
  /\ \/ Filled /\ sub' = "Arming" /\ UNCHANGED <<fillTicks, vm, stranded, crossed>>
     \/ /\ ~Filled /\ fillTicks' = fillTicks + 1
        /\ IF fillTicks' <= FillTicks THEN UNCHANGED <<sub, vm, stranded, crossed>>
           ELSE Dispatch(Rollback) /\ sub' = "Failed" /\ stranded' = stranded \cup {session}
  /\ UNCHANGED <<stage, flag, timer, record, composes, quest, away, pollVars>>

TickVerifyFill ==
  /\ ComposeTick("VerifyingFill")
  /\ IF Filled THEN sub' = "Arming" /\ UNCHANGED <<fillTicks, vm, stranded, crossed>>
     ELSE /\ fillTicks' = fillTicks + 1
          /\ IF fillTicks' < FillTicks THEN UNCHANGED <<sub, vm, stranded, crossed>>
             ELSE /\ Dispatch(Rollback)
                  /\ sub' = "Failed"
                  /\ stranded' = stranded \cup {session}
  /\ UNCHANGED <<stage, flag, timer, record, composes, quest, away, pollVars>>

TickArm ==
  /\ ComposeTick("Arming")
  /\ IF quest.sender # NoVisit
     THEN sub' = "Succeeded" /\ timer' = [timer EXCEPT !.salutation = 0] /\ UNCHANGED stranded
     ELSE sub' = "Failed" /\ stranded' = stranded \cup {session} /\ UNCHANGED timer
  /\ UNCHANGED <<stage, flag, fillTicks, record, composes, quest, vm, away, crossed, pollVars>>

TickComposed ==
  /\ \/ ComposeTick("Succeeded") /\ stage' = "RUNNING"
     \/ ComposeTick("Failed") /\ stage' = "CLEANUP"
  /\ UNCHANGED <<sub, flag, timer, fillTicks, record, composes, quest, vm, away, stranded,
                 crossed, pollVars>>

ComposeSteps ==
  \/ TickRolledBack \/ TickCompose \/ TickSelects \/ TickStartQuest \/ TickWarp
  \/ TickVerifyFill \/ TickArm \/ TickComposed

-----------------------------------------------------------------------------
(* Tick, RUNNING and CLEANUP.                                               *)

Aged == [t \in DOMAIN timer |->
           IF timer[t] = Off \/ timer[t] = TimeoutTicks THEN timer[t] ELSE timer[t] + 1]

\* A tick, and the check it may queue; the escort that helps a visitor along
\* is outside the model.
TickRunning(mode, checks) ==
  /\ stage = "RUNNING" /\ ~flag.terminal
  /\ Looks /\ rollback' \in AreaSays
  /\ timer' = IF mode = "normal" THEN Aged ELSE timer
  /\ IF checks THEN /\ ~flag.task
                    /\ flag' = [flag EXCEPT !.task = TRUE]
                    /\ tasks' = Append(tasks, Task(mode))
     ELSE UNCHANGED <<flag, tasks>>
  /\ UNCHANGED <<stage, session, sub, param, hold, fillTicks, record, composes, busy, world, restarts,
                 history, pollVars>>

TickTerminal ==
  /\ stage = "RUNNING" /\ flag.terminal
  /\ Looks /\ rollback' \in AreaSays
  /\ stage' = "CLEANUP"
  /\ UNCHANGED <<session, sub, param, flag, timer, hold, fillTicks, record, composes, tasks, busy,
                 world, restarts, history, pollVars>>

\* The quest has stopped, or its startup fragment has not run yet.
TickCleanupDone ==
  /\ stage = "CLEANUP" /\ quest.stage = 0
  /\ stage' = "NOT_RUNNING"
  /\ snap' = NoSnap /\ nudges' = 0
  /\ flag' = [flag EXCEPT !.inFlight = FALSE]
  /\ crossed' = (crossed \/ quest.visit # NoVisit)
  /\ UNCHANGED <<session, sub, param, rollback, looked, timer, hold, fillTicks, composes, tasks, busy,
                 world, restarts, ended, met, closings, stranded, pollVars>>

\* Cleanup is queued, once.
TickCleanup ==
  /\ stage = "CLEANUP" /\ quest.stage \notin TornDown /\ ~flag.terminal
  /\ flag' = [flag EXCEPT !.terminal = TRUE]
  /\ tasks' = Append(tasks, Task("cleanup"))
  /\ UNCHANGED <<stage, session, sub, param, rollback, looked, timer, hold, fillTicks, record,
                 composes, busy, world, restarts, history, pollVars>>

Ticks ==
  \/ ComposeSteps \/ TickWatches \/ TickTerminal \/ TickCleanupDone \/ TickCleanup
  \/ \E mode \in {"normal", "combat"}, checks \in BOOLEAN : TickRunning(mode, checks)

-----------------------------------------------------------------------------
(* RunningTick's task, on the game thread: one check of the visit.  What    *)
(* the player does, the distances and the poll's gates are choices.         *)

visit == <<timer, hold, nudges, met>>
Still(f) == flag' = f /\ UNCHANGED <<visit, away, vm, ended, crossed, pollVars>>

\* The opening line goes out and the quest is asked to move on, once.
AtSalutation(f) ==
  LET walking == quest.sender # NoVisit /\ ~f.latch IN
  \/ /\ walking
     /\ flag' = [f EXCEPT !.salutation = TRUE, !.latch = TRUE]
     /\ met' = TRUE
     /\ Dispatch(Discuss)
     /\ Arm
     /\ UNCHANGED <<timer, hold, nudges, away, ended>>
  \/ IF walking /\ timer.salutation = TimeoutTicks
     THEN RollBackVisit(f) /\ UNCHANGED visit
     ELSE Still(f)

\* Combat and dialogue put the conversation on hold, and combat that never
\* ends breaks it off.  When the hold is over the visitor comes back and
\* resumes.
AtDiscuss(f, mode) ==
  \/ hold \in {"Discussing", "ReEngage"} /\ hold' = "OnHold"
     /\ flag' = f /\ UNCHANGED <<timer, nudges, met, away, vm, ended, crossed, pollVars>>
  \/ hold = "OnHold" /\ hold' = "ReEngage"
     /\ flag' = f /\ UNCHANGED <<timer, nudges, met, away, vm, ended, crossed, pollVars>>
  \/ hold = "OnHold" /\ mode = "combat" /\ HardAbortVisit(f, "aborted") /\ UNCHANGED visit
  \/ hold = "ReEngage" /\ mode = "normal" /\ quest.sender # NoVisit
     /\ Arm /\ hold' = "Discussing"
     /\ flag' = f /\ UNCHANGED <<timer, nudges, met, away, vm, ended, crossed>>
  \/ hold = "Discussing" /\ mode = "normal"
     /\ nudges' \in {nudges, 0}
     /\ (FirePoll(session) \/ UNCHANGED pollVars)
     /\ flag' = f /\ UNCHANGED <<timer, hold, met, away, vm, ended, crossed>>
  \/ Still(f)

AtValediction(f) ==
  IF timer.valediction = TimeoutTicks
  THEN /\ Dispatch(ReturnHome)
       /\ timer' = [timer EXCEPT !.home = 0]
       /\ flag' = f /\ UNCHANGED <<hold, nudges, met, away, ended, pollVars>>
  ELSE Still(f)

\* Far enough, unloaded, out of sight, or long enough on the way.
AtReturnHome(f) ==
  \/ quest.sender # NoVisit /\ RunReturnHomeShutdown(f) /\ UNCHANGED visit
  \/ (quest.sender # NoVisit => timer.home # TimeoutTicks) /\ Still(f)

AtStage(f, mode) ==
  \/ quest.stage = Discuss     /\ AtDiscuss(f, mode)
  \/ quest.stage = Salutation  /\ mode = "normal" /\ AtSalutation(f)
  \/ quest.stage = Valediction /\ mode = "normal" /\ AtValediction(f)
  \/ quest.stage = ReturnHome  /\ mode = "normal" /\ AtReturnHome(f)
  \/ (quest.stage \in TornDown \/ (mode = "combat" /\ quest.stage # Discuss)) /\ Still(f)

\* CheckHardAbortConditions, but for the hard abort that was.
Broken == quest.stage \notin TornDown /\ failures >= MaxFailures

\* The first thing a check does lets the worker queue the next one.
CheckBegins ==
  /\ Room /\ ~busy /\ tasks # <<>> /\ Head(tasks).op \in {"normal", "combat"}
  /\ busy' = TRUE
  /\ flag' = [flag EXCEPT !.task = FALSE]
  /\ crossed' = (crossed \/ Head(tasks).visit # session)
  /\ UNCHANGED <<stage, session, sub, param, rollback, looked, timer, hold, fillTicks, record,
                 composes, tasks, world, restarts, ended, met, closings, stranded, pollVars>>

NothingToUndoAsked == rollback = "none"  \* mutant: the opening line is not asked about

\* No rollback is asked for, or the opening line has overtaken it.
NothingToUndo == rollback = "none" \/ flag.salutation

\* WatchPlayerArea may have found the opening line unsaid just before this check
\* said it, and ask after it; whatever it asks, the next check drops it.
LateAsks ==
  IF stage = "RUNNING" /\ looked /\ ~flag.salutation /\ flag'.salutation THEN {"now"} ELSE {}

\* The rest of it.  A rollback waits while the visitor is in plain view, and is
\* dropped when the opening line has overtaken it; the latch of that line is
\* let go once Papyrus has moved the stage on.
Check(mode) ==
  LET f == [flag EXCEPT !.latch = @ /\ quest.stage = Salutation]
  IN /\ busy /\ Head(tasks).op = mode /\ tasks' = Tail(tasks) /\ busy' = FALSE
     /\ \/ flag.hardAbort /\ Still(flag) /\ UNCHANGED rollback
        \/ ~flag.hardAbort /\ Broken /\ HardAbortVisit(flag, "broken") /\ UNCHANGED <<visit, rollback>>
        \/ ~flag.hardAbort /\ ~Broken
           /\ \/ ~NothingToUndo /\ RollBackVisit(flag) /\ rollback' = "none" /\ UNCHANGED visit
              \/ NothingToUndo /\ AtStage(f, mode) /\ rollback' \in {"none"} \cup LateAsks
              \/ ~NothingToUndo /\ rollback = "unseen" /\ AtStage(f, mode)
                 /\ rollback' \in {rollback} \cup LateAsks
     /\ UNCHANGED <<stage, session, sub, param, looked, fillTicks, snap, composes, quest, dead,
                    restarts, closings, stranded>>

ConcludesAgain ==  \* mutant: the closing line is not latched
  /\ Send(Valediction) /\ Disarm
  /\ flag' = [flag EXCEPT !.valediction = TRUE]
  /\ timer' = [timer EXCEPT !.valediction = 0]
  /\ closings' = closings + 1

\* HandleVisitPollVerdict and FireValediction: the closing line, once.
Concludes ==
  /\ Send(Valediction)
  /\ Disarm
  /\ IF flag.valediction THEN UNCHANGED <<flag, timer, closings>>
     ELSE /\ flag' = [flag EXCEPT !.valediction = TRUE]
          /\ timer' = [timer EXCEPT !.valediction = 0]
          /\ closings' = closings + 1

\* "continue" after a long enough silence is a nudge, and nudges in vain end
\* the conversation.  Only the quest's stage is looked at.
Verdict(op) ==
  /\ Room
  /\ tasks # <<>> /\ Head(tasks).op = op /\ tasks' = Tail(tasks)
  /\ \/ quest.stage = Discuss /\ op = "conclude" /\ Concludes /\ UNCHANGED nudges
     \/ /\ quest.stage = Discuss /\ op = "continue"
        /\ nudges' = IF nudges < NudgeCap THEN nudges + 1 ELSE nudges
        /\ IF nudges' >= NudgeCap THEN Concludes
           ELSE UNCHANGED <<vm, flag, timer, closings, pollVars>>
     \/ (quest.stage # Discuss \/ op = "continue")
        /\ UNCHANGED <<vm, flag, timer, nudges, closings, pollVars>>
  /\ crossed' = (crossed \/ (quest.stage = Discuss /\ Head(tasks).visit # session))
  /\ UNCHANGED <<stage, session, sub, param, rollback, looked, hold, fillTicks, snap, composes,
                 busy, quest, away, dead, restarts, ended, met, stranded>>

Cleanup ==
  /\ Room
  /\ tasks # <<>> /\ Head(tasks).op = "cleanup" /\ tasks' = Tail(tasks)
  /\ IF quest.stage \in TornDown THEN UNCHANGED vm ELSE Send(Rollback)
  /\ snap' = NoSnap /\ nudges' = 0
  /\ crossed' = (crossed \/ Head(tasks).visit # session)
  /\ UNCHANGED <<stage, session, sub, param, latches, composes, busy, quest, away, dead, restarts,
                 ended, met, closings, stranded, pollVars>>

Tasks ==
  \/ CheckBegins
  \/ \E mode \in {"normal", "combat"} : Check(mode)
  \/ \E op \in {"conclude", "continue"} : Verdict(op)
  \/ Cleanup

-----------------------------------------------------------------------------
(* The LLM's answers, on AsyncDispatch's worker.                            *)

\* FireComposeLLM's callback, which writes the whole snapshot.  Nothing ties it
\* to the session that asked.
Answer ==
  /\ \E v \in composes :
       /\ composes' = composes \ {v}
       /\ crossed' = (crossed \/ (v # session /\ stage # "NOT_RUNNING"))
  /\ \/ snap' = [known |-> param, anchor |-> FALSE] /\ nudges' = 0 /\ sub' = "LLMResultReady"
     \/ sub' = "Failed" /\ UNCHANGED record
  /\ UNCHANGED <<stage, session, param, latches, tasks, busy, world, restarts, ended, met, closings,
                 stranded, pollVars>>

\* A verdict goes on to the game thread; no verdict goes nowhere.
PollAnswer ==
  /\ \E v \in Visits :
       \/ \E op \in {"conclude", "continue"} :
            PollAnswered(v, TRUE) /\ tasks' = Append(tasks, [op |-> op, visit |-> v])
       \/ PollAnswered(v, FALSE) /\ UNCHANGED tasks
  /\ UNCHANGED <<stage, session, sub, param, latches, record, composes, busy, world, restarts, history>>

-----------------------------------------------------------------------------
(* What else runs on the game thread: the two sinks, and Abort.  The        *)
(* player's own death, after which a save is loaded, is outside the model.   *)

beside == <<session, sub, param, looked, timer, hold, fillTicks, composes, tasks, busy, quest,
            restarts, met, closings, stranded>>

\* VisitDeathSink.
Death ==
  /\ Room /\ ~busy
  /\ \E v \in Visits :
       /\ v = session /\ v \notin dead
       /\ dead' = dead \cup {v}
       /\ IF v = quest.sender /\ quest.stage \notin TornDown
          THEN HardAbortVisit(flag, "aborted")
          ELSE UNCHANGED <<flag, away, vm, ended, crossed, pollVars>>
  /\ UNCHANGED <<beside, stage, rollback, record>>

\* OnPlayerFastTraveled.
FastTravel ==
  /\ Room /\ ~busy /\ flag.inFlight /\ ~flag.hardAbort /\ ~flag.terminal
  /\ \/ /\ ~flag.salutation
        /\ rollback' = Requested("now")
        /\ UNCHANGED <<flag, away, vm, ended, crossed, pollVars>>
     \/ /\ flag.salutation /\ quest.stage \in {Salutation, Discuss}
        /\ HardAbortVisit(flag, "aborted")
        /\ UNCHANGED rollback
     \/ /\ flag.salutation /\ quest.stage \in {Valediction, ReturnHome}
        /\ RunReturnHomeShutdown(flag)
        /\ UNCHANGED rollback
  /\ UNCHANGED <<beside, stage, record, dead>>

\* Abort, for BeatSystem's AbortRunningBeat.
Abort ==
  /\ Room /\ stage # "NOT_RUNNING" /\ ~busy
  /\ LET f == [flag EXCEPT !.inFlight = FALSE] IN HardAbortVisit(f, "aborted")
  /\ snap' = NoSnap /\ nudges' = 0
  /\ stage' = "NOT_RUNNING"
  /\ stranded' = IF session \in away /\ quest.sender = NoVisit THEN stranded \cup {session} ELSE stranded
  /\ UNCHANGED <<session, sub, param, rollback, looked, timer, hold, fillTicks, composes, tasks, busy,
                 quest, dead, restarts, met, closings>>

-----------------------------------------------------------------------------
(* Papyrus runs the calls, which race; a fragment's own call is one more.   *)
(* A fill whose form does not resolve does nothing.                         *)

\* What the fragment of a stage calls in its turn.
Follows(c) == CASE c = Rollback -> {Shutdown} [] c = Shutdown -> {StopQuest} [] OTHER -> {}

RunVm ==
  /\ \E c \in BagToSet(vm) :
       /\ \/ c.call = FillSender /\ quest' \in {quest, [quest EXCEPT !.sender = c.visit]}
          \/ c.call = FillAnchor /\ quest' \in {quest, [quest EXCEPT !.anchor = TRUE]}
          \/ c.call = StopQuest  /\ quest' = NoQuest
          \/ c.call \in QuestStages /\ quest' = [quest EXCEPT !.stage = c.call]
       /\ vm' = (vm (-) SetToBag({c})) (+) SetToBag({[c EXCEPT !.call = n] : n \in Follows(c.call)})
       /\ crossed' = (crossed \/ IF c.call \in {Rollback, Shutdown, StopQuest}
                                 THEN quest.visit \notin {NoVisit, c.visit}
                                 ELSE quest.visit # c.visit)
  /\ UNCHANGED <<stage, session, sub, param, latches, record, composes, tasks, busy, away, dead,
                 restarts, ended, met, closings, stranded, pollVars>>

\* The game is saved, when Papyrus has caught up, quit and loaded: what is saved
\* is the beat's state, the snapshot and all the engine's; every latch, task
\* and call is gone.
Restart ==
  /\ restarts < MaxRestarts /\ stage # "NOT_RUNNING" /\ ~busy /\ vm = EmptyBag
  /\ restarts' = restarts + 1
  /\ flag' = NoFlags /\ rollback' = "none" /\ looked' = FALSE /\ timer' = NoTimers
  /\ hold' = "Discussing" /\ fillTicks' = 0
  /\ sub' = "Start" /\ param' = FALSE /\ composes' = {} /\ tasks' = <<>>
  /\ armed' = FALSE /\ failures' = 0 /\ polls' = [v \in Visits |-> 0]
  /\ stranded' = IF stage = "COMPOSE" THEN stranded \cup away ELSE stranded
  /\ UNCHANGED <<stage, session, record, busy, world, ended, met, closings, crossed>>

-----------------------------------------------------------------------------
Next ==
  OnStart \/ Ticks \/ Tasks \/ Answer \/ PollAnswer \/ Death \/ FastTravel \/ Abort \/ RunVm \/ Restart

Spec == Init /\ [][Next]_vars

\* The worker ticks, SkyrimNet answers, the game thread runs its tasks and
\* Papyrus its calls; the game is not paused or fighting for good.
FairSpec ==
  /\ Spec
  /\ WF_vars(ComposeSteps \/ TickTerminal \/ TickCleanupDone \/ TickCleanup)
  /\ SF_vars(TickRunning("normal", TRUE))
  /\ WF_vars(Answer) /\ WF_vars(Tasks) /\ WF_vars(RunVm)

-----------------------------------------------------------------------------
(* Properties.                                                              *)

\* The type invariant.
TypeOK ==
  /\ stage \in Stages /\ session \in Visits \cup {NoVisit} /\ sub \in SubPhases
  /\ param \in BOOLEAN /\ flag \in [FlagNames -> BOOLEAN]
  /\ rollback \in {"none", "now", "unseen"} /\ looked \in BOOLEAN /\ busy \in BOOLEAN
  /\ timer \in [{"salutation", "valediction", "home"} -> Off..TimeoutTicks]
  /\ hold \in {"Discussing", "OnHold", "ReEngage"} /\ fillTicks \in 0..FillTicks
  /\ snap \in [known : BOOLEAN, anchor : BOOLEAN] /\ nudges \in 0..NudgeCap
  /\ composes \subseteq Visits
  /\ tasks \in Seq([op : {"normal", "combat", "conclude", "continue", "cleanup"}, visit : Visits])
  /\ quest \in [visit : Visits \cup {NoVisit}, stage : QuestStages,
                sender : Visits \cup {NoVisit}, anchor : BOOLEAN]
  /\ IsABag(vm)
  /\ BagToSet(vm) \subseteq [call : QuestStages \cup {FillSender, FillAnchor, StopQuest}, visit : Visits]
  /\ away \subseteq Visits /\ dead \subseteq Visits /\ stranded \subseteq Visits
  /\ restarts \in 0..MaxRestarts
  /\ ended \subseteq {"aborted", "broken", "rolledback", "completed"}
  /\ met \in BOOLEAN /\ closings \in Nat /\ crossed \in BOOLEAN
  /\ PollTypeOK

Uncrossed == ~crossed
\* The session was not cut short by a restart.
Whole == param

\* However a visit ends -- rolled back, broken off, walked home, aborted or
\* failed while it was composed -- the quest is stopped or about to be, and
\* its visitor is home, unless dead or one of those the beat is known to leave.
LeavesNothingBehind ==
  Uncrossed /\ stage = "NOT_RUNNING" =>
    /\ away \subseteq dead \cup stranded
    /\ \/ quest.visit = NoVisit
       \/ \E c \in BagToSet(vm) : c.call \in {Rollback, Shutdown, StopQuest}

\* However the verdicts, the nudges and the interruptions fall, a visitor says
\* goodbye once.
ClosesOnce == Whole => closings <= 1

\* A visit is undone only while the player has not met the visitor, even when
\* the reason to undo it came from another thread before the opening line.
UnmetIsUndone ==
  [][Uncrossed /\ Whole /\ session' = session /\ "rolledback" \in ended' \ ended => ~met]_vars

\* Every visit ends, unless the conversation has nobody to end it or the game
\* was loaded in the middle of it.
VisitEnds ==
  stage # "NOT_RUNNING" ~>
    \/ stage = "NOT_RUNNING" \/ crossed
    \/ stage = "RUNNING" /\ (quest.stage = Discuss \/ ~Whole)
=============================================================================
