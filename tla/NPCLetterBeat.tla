--------------------------- MODULE NPCLetterBeat ---------------------------
(***************************************************************************)
(* The letter beat (src/NPCLetterBeat.cpp) over the letter pool: compose   *)
(* by LLM, dispatch through the slot's quest, wait for the courier to have *)
(* the letter, clean up.                                                   *)
(*                                                                         *)
(*   ticks   BeatWorkDispatch's worker runs Tick, one at a time            *)
(*   answer  AsyncDispatch's worker runs the compose callback              *)
(*   main    the game thread runs the queued tasks, Cleanup and Abort      *)
(*                                                                         *)
(* The stage of the beat is BeatSystem's.  Each session writes one letter, *)
(* numbered like the session, from a sender of its own.                    *)
(***************************************************************************)
EXTENDS LetterPool

CONSTANTS
  TimeoutTicks,  \* kSubPhaseTimeoutTicks
  CheckEvery,    \* kSubPhaseCheckEveryNTicks, kRunningCheckEveryNTicks
  VerifyTicks,   \* iLetterDispatchVerifyDelaySeconds, in ticks
  MaxRestarts,   \* bound: how often the game is quit and loaded again
  MaxVm          \* bound: Papyrus calls not run when it is

ASSUME BeatConstants ==
  /\ TimeoutTicks \in Nat /\ CheckEvery \in Nat \ {0} /\ VerifyTicks \in Nat
  /\ MaxRestarts \in Nat /\ MaxVm \in Nat

VARIABLES
  stage,       \* the beat's state in BeatSystem; "CLEANED" between Cleanup and NOT_RUNNING
  session,     \* sessions started
  sub,         \* g_subPhase
  subTicks,    \* g_subPhaseTickCount
  runTicks,    \* g_runningTickCount
  param,       \* g_paramSenderFormID is set
  composition, \* g_composition: the letter, or NoLetter
  inFlight,    \* g_inFlightSlot
  sender,      \* g_dispatchedSenderFormID: whose letter, or NoLetter
  success,     \* g_cleanupWasSuccess
  check,       \* g_runningCheckInFlight, g_runningCheckReady, g_runningLetterInCourier
  calls,       \* the compose calls not answered
  tasks,       \* this beat's tasks on the game thread's queue, each with its session
  sweep,       \* what OnLoad captured for its sweep: orphans and free slots
  restarts,    \* how often it was
  designated   \* external: whose sender is at the faction's rank 4, or NoLetter

ticking  == <<subTicks, runTicks, check>>
request  == <<param, composition>>
flight   == <<inFlight, sender>>
queue    == <<tasks, sweep>>
beatVars == <<stage, session, restarts, sub, ticking, request, flight, success, calls,
              queue, designated>>
vars     == <<beatVars, poolVars>>

Stages    == {"NOT_RUNNING", "COMPOSE", "RUNNING", "CLEANUP", "CLEANED"}
SubPhases == {"Start", "ComposingLLM", "LLMResultReady", "DispatchRequested",
              "PollingSender", "PollingLetterRef", "Succeeded", "Failed"}
NoSweep   == [orphans |-> {}, free |-> {}]
NoCheck   == [inFlight |-> FALSE, ready |-> FALSE, present |-> FALSE]

Task(op) == [op |-> op, session |-> session]

Init ==
  /\ PoolInit
  /\ stage = "NOT_RUNNING" /\ session = 0 /\ sub = "Start"
  /\ subTicks = 0 /\ runTicks = 0 /\ check = NoCheck
  /\ composition = NoLetter /\ inFlight = NoSlot /\ sender = NoLetter
  /\ param = FALSE /\ designated = NoLetter
  /\ success = FALSE /\ calls = {} /\ tasks = <<>> /\ sweep = NoSweep /\ restarts = 0

-----------------------------------------------------------------------------
(* Mutants: what a plausible slip in the code would make of a definition.  *)

TickPollForever ==       \* an unfilled alias never times out
  /\ stage = "COMPOSE" /\ sub \in {"PollingSender", "PollingLetterRef"}
  /\ sub' = IF inFlight # NoSlot /\ quest[inFlight].ref # NoLetter THEN "Succeeded" ELSE sub
  /\ UNCHANGED <<stage, session, restarts, ticking, request, flight, designated, success,
                 calls, queue, poolVars>>

CleanupKeepsSender(ok) == \* a rollback does not demote
  /\ designated' = IF ok THEN NoLetter ELSE designated
  /\ IF inFlight # NoSlot /\ ~ok
     THEN /\ vm' = Append(vm, Call("shutdown", inFlight, quest[inFlight].ref))
          /\ slot' = Freed(inFlight)
     ELSE UNCHANGED <<vm, slot>>
  /\ UNCHANGED <<stamps, copies, quest, open, events, crossed>>

CleanupForgetsQuest(ok) == \* the slot is rolled back and its quest is not
  /\ designated' = IF sender # NoLetter /\ designated = sender THEN NoLetter ELSE designated
  /\ slot' = IF inFlight # NoSlot /\ ~ok THEN Freed(inFlight) ELSE slot
  /\ UNCHANGED <<stamps, copies, quest, vm, open, events, crossed>>

CleanupLeavesSlot(ok) == \* the quest is rolled back and its slot is not
  /\ designated' = IF sender # NoLetter /\ designated = sender THEN NoLetter ELSE designated
  /\ vm' = IF inFlight # NoSlot /\ ~ok
           THEN Append(vm, Call("shutdown", inFlight, quest[inFlight].ref)) ELSE vm
  /\ UNCHANGED <<slot, stamps, copies, quest, open, events, crossed>>

-----------------------------------------------------------------------------
\* ResetSessionState, but for the parameters; the running check's flags are
\* not part of it.
ResetSession ==
  /\ composition' = NoLetter /\ inFlight' = NoSlot /\ sender' = NoLetter
  /\ subTicks' = 0 /\ runTicks' = 0
  /\ success' = FALSE

\* OnStart, as BeatSystem takes the slot: parameters that do not parse seed
\* the session failed.
OnStart ==
  /\ stage = "NOT_RUNNING"
  /\ session + 1 \in Letters
  /\ session' = session + 1
  /\ stage' = "COMPOSE"
  /\ sub' \in {"Start", "Failed"}
  /\ param' = (sub' = "Start")
  /\ ResetSession
  /\ UNCHANGED <<restarts, check, designated, calls, queue, poolVars>>

-----------------------------------------------------------------------------
(* Tick, COMPOSE.                                                          *)

Composing(phase) == stage = "COMPOSE" /\ sub = phase

\* FireComposeLLM; LetterComposer may refuse at once, in the caller, and
\* does when the session has no sender.
TickCompose ==
  /\ Composing("Start")
  /\ \/ param /\ sub' = "ComposingLLM" /\ calls' = calls \cup {session}
     \/ sub' = "Failed" /\ UNCHANGED calls
  /\ subTicks' = 0
  /\ UNCHANGED <<stage, session, restarts, runTicks, check, request, flight,
                 designated, success, queue, poolVars>>

TickDispatch ==
  /\ Composing("LLMResultReady")
  /\ sub' = "DispatchRequested"
  /\ subTicks' = 0
  /\ tasks' = Append(tasks, Task("dispatch"))
  /\ UNCHANGED <<sweep, stage, session, restarts, runTicks, check, request,
                 flight, designated, success, calls, poolVars>>

\* CheckSenderFill, CheckLetterRefFill: the engine fills both aliases in one
\* pass, Sender first.
Filled == inFlight # NoSlot /\ quest[inFlight].ref # NoLetter
AfterCheck(next) ==
  CASE inFlight = NoSlot -> "Failed"
    [] Filled            -> next
    [] OTHER             -> sub

TickPoll ==
  /\ \E next \in {"PollingLetterRef", "Succeeded"} :
       /\ Composing(IF next = "Succeeded" THEN "PollingLetterRef" ELSE "PollingSender")
       /\ sub' = IF subTicks + 1 > TimeoutTicks THEN "Failed"
                 ELSE IF (subTicks + 1) % CheckEvery = 0 THEN AfterCheck(next) ELSE sub
  /\ subTicks' = IF sub' = sub \/ subTicks + 1 > TimeoutTicks THEN subTicks + 1 ELSE 0
  /\ UNCHANGED <<stage, session, restarts, runTicks, check, request, flight,
                 designated, success, calls, queue, poolVars>>

TickSucceeded ==
  /\ Composing("Succeeded")
  /\ stage' = "RUNNING"
  /\ runTicks' = 0
  /\ check' = [check EXCEPT !.inFlight = FALSE, !.ready = FALSE]
  /\ UNCHANGED <<session, restarts, sub, subTicks, request, flight, designated,
                 success, calls, queue, poolVars>>

TickFailed ==
  /\ Composing("Failed")
  /\ stage' = "CLEANUP"
  /\ success' = FALSE
  /\ UNCHANGED <<session, restarts, sub, ticking, request, flight, designated,
                 calls, queue, poolVars>>

-----------------------------------------------------------------------------
(* Tick, RUNNING: has the courier got it?                                  *)

TickStaged ==
  /\ stage = "RUNNING" /\ check.ready /\ check.present
  /\ check' = [check EXCEPT !.ready = FALSE]
  /\ success' = TRUE
  /\ stage' = "CLEANUP"
  /\ UNCHANGED <<session, restarts, sub, subTicks, runTicks, request, flight,
                 designated, calls, queue, poolVars>>

TickVerify ==
  /\ stage = "RUNNING" /\ ~(check.ready /\ check.present)
  /\ runTicks' = runTicks + 1
  /\ IF runTicks' > VerifyTicks
     THEN /\ stage' = "CLEANUP" /\ sub' = "Failed" /\ success' = FALSE
          /\ check' = [check EXCEPT !.ready = FALSE]
          /\ UNCHANGED tasks
     ELSE /\ LET asks == runTicks' % CheckEvery = 0 IN
               /\ check' = [check EXCEPT !.ready = FALSE, !.inFlight = @ \/ asks]
               /\ tasks' = IF asks /\ ~check.inFlight THEN Append(tasks, Task("check")) ELSE tasks
          /\ UNCHANGED <<stage, sub, success>>
  /\ UNCHANGED <<session, restarts, subTicks, request, flight, designated,
                 calls, sweep, poolVars>>

-----------------------------------------------------------------------------
(* Cleanup, on the game thread.                                            *)

\* The sender is demoted; a letter that is not with the courier is rolled
\* back, its quest by way of Stage 60.
Cleanup(ok) ==
  /\ designated' = IF sender # NoLetter /\ designated = sender THEN NoLetter ELSE designated
  /\ IF inFlight # NoSlot /\ ~ok
     THEN /\ vm' = IF quest[inFlight].running
                   THEN Append(vm, Call("shutdown", inFlight, quest[inFlight].ref)) ELSE vm
          /\ slot' = Freed(inFlight)
     ELSE UNCHANGED <<vm, slot>>
  /\ UNCHANGED <<stamps, copies, quest, open, events, crossed>>

TickCleanup ==
  /\ stage = "CLEANUP"
  /\ Cleanup(success)
  /\ stage' = "CLEANED"
  /\ UNCHANGED <<session, restarts, sub, ticking, request, flight, success,
                 calls, queue>>

TickDone ==
  /\ stage = "CLEANED"
  /\ stage' = "NOT_RUNNING"
  /\ UNCHANGED <<session, restarts, sub, ticking, request, flight, designated,
                 success, calls, queue, poolVars>>

\* BeatSystem's AbortRunningBeat.
Abort ==
  /\ stage # "NOT_RUNNING"
  /\ Cleanup(FALSE)
  /\ ResetSession
  /\ param' = FALSE /\ sub' = "Start"
  /\ stage' = "NOT_RUNNING"
  /\ UNCHANGED <<session, restarts, check, calls, queue>>

Tick ==
  \/ TickCompose \/ TickDispatch \/ TickPoll \/ TickSucceeded \/ TickFailed
  \/ TickStaged \/ TickVerify \/ TickCleanup \/ TickDone

-----------------------------------------------------------------------------
\* The compose callback.  Nothing ties it to the session that asked.
Answer ==
  /\ \E n \in calls :
       /\ calls' = calls \ {n}
       /\ crossed' = IF n # session /\ stage = "COMPOSE" THEN "answer" ELSE crossed
       /\ \/ composition' = n /\ sub' = "LLMResultReady" /\ UNCHANGED param
          \/ sub' = "Failed" /\ UNCHANGED request
  /\ subTicks' = 0
  /\ UNCHANGED <<stage, session, restarts, runTicks, check, flight, designated,
                 success, queue, lifecycle, world, open, events>>

-----------------------------------------------------------------------------
(* The tasks on the game thread.                                           *)

TaskIs(op) ==
  /\ tasks # <<>> /\ Head(tasks).op = op
  /\ tasks' = Tail(tasks)
  /\ sweep' = IF op = "sweep" THEN NoSweep ELSE sweep

\* A dispatch whose session is over, or that has another session's letter.
DispatchCrosses ==
  crossed' = IF stage # "COMPOSE" \/ Head(tasks).session # session \/ composition # session
             THEN "dispatch" ELSE crossed

\* DispatchQuest with nothing composed, or with no slot to have.
DispatchFails ==
  /\ TaskIs("dispatch")
  /\ composition = NoLetter \/ ~CanAllocate
  /\ sub' = "Failed" /\ subTicks' = 0
  /\ UNCHANGED <<stage, session, restarts, runTicks, check, request, flight,
                 designated, success, calls, lifecycle, world, open, events>>
  /\ DispatchCrosses

\* A slot is taken, evicted and filled; then the sender turns out not to be
\* live, or, promoted, the quest does not start and the sender is demoted.
DispatchDeclined ==
  /\ TaskIs("dispatch")
  /\ composition # NoLetter /\ CanAllocate
  /\ LET s == Allocate IN
       /\ slot' = [Populated(s, composition) EXCEPT ![s].state = "Free"]
       /\ stamps' = Stamped(s)
       /\ copies' = AfterEviction(s)
       /\ vm' = EvictCalls(s)
       /\ quest' = [quest EXCEPT ![s] = EvictedQuest(s)]
       /\ inFlight' = s
  /\ sender' = composition
  /\ designated' \in {designated, NoLetter}
  /\ sub' = "Failed" /\ subTicks' = 0
  /\ UNCHANGED <<stage, session, restarts, runTicks, check, request, success,
                 calls, open, events>>
  /\ DispatchCrosses

\* The sweep leaves the sender alone at rank 4 and the quest is started; one
\* that Papyrus has not stopped yet is left as it is.
DispatchLaunches ==
  /\ TaskIs("dispatch")
  /\ composition # NoLetter /\ CanAllocate
  /\ LET s == Allocate IN
       /\ slot' = Populated(s, composition)
       /\ stamps' = Stamped(s)
       /\ copies' = AfterEviction(s)
       /\ vm' = EvictCalls(s)
       /\ quest' = [quest EXCEPT ![s] = [EvictedQuest(s) EXCEPT !.running = TRUE]]
       /\ inFlight' = s
  /\ sender' = composition
  /\ designated' = composition
  /\ sub' = "PollingSender" /\ subTicks' = 0
  /\ UNCHANGED <<stage, session, restarts, runTicks, check, request, success,
                 calls, open, events>>
  /\ IF EvictedQuest(Allocate).running THEN crossed' = "quest" ELSE DispatchCrosses

\* The engine's alias pass: Sender is whoever is at rank 4, LetterRef a new
\* reference in the sender's hands; the quest's first stages queue it.
QuestFills ==
  /\ designated # NoLetter
  /\ \E s \in Slots :
       /\ quest[s].running /\ quest[s].ref = NoLetter
       /\ quest' = [quest EXCEPT ![s].ref = designated]
       /\ vm' = Append(vm, Call("queue", s, designated))
  /\ UNCHANGED <<beatVars, lifecycle, copies, open, events, crossed>>

\* CheckCourier: the book of the slot now in flight, wherever it is from.
CheckCourier ==
  /\ TaskIs("check")
  /\ check' = [inFlight |-> FALSE, ready |-> TRUE,
               present |-> \E c \in copies : c.slot = inFlight /\ c.at = "courier"]
  /\ UNCHANGED <<stage, session, restarts, sub, subTicks, runTicks, request,
                 flight, designated, success, calls, poolVars>>

\* OnLoad's sweep is AsyncDispatch's first, and then the game thread's, behind
\* whatever the beat has queued meanwhile.
SweepQueued ==
  /\ sweep # NoSweep /\ \A i \in DOMAIN tasks : tasks[i].op # "sweep"
  /\ tasks' = Append(tasks, Task("sweep"))
  /\ UNCHANGED <<sweep, stage, session, restarts, sub, ticking, request, flight,
                 designated, success, calls, poolVars>>

\* It runs with the slots OnLoad captured then: orphans are released and their quests
\* stopped, stale books leave the player, and the courier is asked to let go of
\* his.
Sweep ==
  /\ TaskIs("sweep")
  /\ LET orphans == {s \in sweep.orphans : quest[s].ref # NoLetter}
         stale(place) == {c \in copies : c.slot \in sweep.free /\ c.at = place}
     IN /\ quest' = [s \in Slots |-> IF s \in sweep.orphans THEN NoQuest ELSE quest[s]]
        /\ vm' = vm \o SetToSeq({Call("release", s, quest[s].ref) : s \in orphans}
                               \cup {Call("release", c.slot, c.letter) : c \in stale("courier")})
        /\ copies' = {c \in copies \ stale("player") :
                        ~(c.at = "world" /\ c.slot \in orphans /\ c.letter = quest[c.slot].ref)}
  /\ crossed' = IF \E s \in sweep.free : slot[s].state # "Free" THEN "sweep" ELSE crossed
  /\ UNCHANGED <<stage, session, restarts, sub, ticking, request, flight,
                 designated, success, calls, lifecycle, open, events>>

Tasks == DispatchFails \/ DispatchDeclined \/ DispatchLaunches \/ CheckCourier \/ Sweep

-----------------------------------------------------------------------------
(* A restart: the game is quit and its last save, taken then, is loaded.   *)
(* The pool's record, the beat's state in BeatSystem's and all the engine's *)
(* state are kept; the session, its calls, tasks and events are not.       *)

Restart ==
  /\ restarts < MaxRestarts /\ Len(vm) <= MaxVm
  /\ restarts' = restarts + 1
  /\ stage' = IF stage = "CLEANED" THEN "CLEANUP" ELSE stage
  /\ ResetSession /\ param' = FALSE /\ sub' = "Start" /\ check' = NoCheck
  /\ calls' = {} /\ events' = <<>> /\ open' = NoSlot
  /\ \E aged \in SUBSET In("PendingDelivery") :
       LET gone == {s \in In("InInventory") \cup In("Read") :
                      ~\E c \in copies : c.slot = s /\ c.at = "player"}
           free == In("Free") \cup aged \cup gone
       IN /\ slot' = [s \in Slots |-> IF s \in free THEN Freed(s)[s] ELSE slot[s]]
          /\ sweep' = [orphans |-> aged, free |-> free]
          /\ tasks' = <<>>
  /\ crossed' = IF designated # NoLetter \/ events # <<>> \/ sweep.orphans # {}
                 THEN "restart" ELSE crossed
  /\ UNCHANGED <<session, stamps, world, designated>>

Next ==
  \/ OnStart \/ Tick \/ Abort \/ Answer \/ Tasks \/ SweepQueued \/ QuestFills \/ Restart
  \/ (PoolStep \/ RunVm) /\ UNCHANGED beatVars

Spec == Init /\ [][Next]_vars

\* The beat ticks, SkyrimNet answers and the game thread runs its tasks; for
\* the letters, Papyrus runs and the courier finds the player.
FairSpec ==
  /\ Spec
  /\ WF_vars(Tick) /\ WF_vars(Answer) /\ WF_vars(Tasks) /\ WF_vars(SweepQueued)
  /\ WF_vars(RunVm /\ UNCHANGED beatVars) /\ WF_vars(QuestFills)
  /\ WF_vars((CourierHandsOver \/ Arrived \/ Discarded) /\ UNCHANGED beatVars)

-----------------------------------------------------------------------------
(* Properties.                                                             *)

TypeOK ==
  /\ PoolTypeOK
  /\ stage \in Stages /\ session \in Nat /\ restarts \in Nat /\ sub \in SubPhases
  /\ subTicks \in Nat /\ runTicks \in Nat
  /\ check \in [inFlight : BOOLEAN, ready : BOOLEAN, present : BOOLEAN]
  /\ param \in BOOLEAN /\ success \in BOOLEAN
  /\ {composition, sender, designated} \subseteq Letters \cup {NoLetter}
  /\ inFlight \in Slots \cup {NoSlot}
  /\ calls \subseteq Letters
  /\ tasks \in Seq([op : {"dispatch", "check", "sweep"}, session : Nat])
  /\ sweep \in [orphans : SUBSET Slots, free : SUBSET Slots]

\* Nothing of an earlier letter has reached a later one.
Uncrossed == crossed = "none"

\* A sender holds the faction's designated rank only while the beat works on
\* that sender's letter: every way out of a session, by success, failure,
\* timeout or abort, demotes whom it promoted.
SenderReleased ==
  Uncrossed /\ designated # NoLetter => designated = sender /\ stage # "NOT_RUNNING"

Queued(s)      == \E i \in DOMAIN vm : vm[i] = Call("queue", s, slot[s].letter)
AtCourier(s)   == [slot |-> s, letter |-> slot[s].letter, at |-> "courier"] \in copies
HandedOver(s)  == \E i \in DOMAIN events : events[i].slot = s /\ events[i].letter = slot[s].letter
BeingSwept(s)  == s \in sweep.free

\* A slot held for a letter on its way is never forgotten: the beat has it in
\* flight, or the letter itself is going to the courier, with him, or just
\* handed over.
PendingIsTracked ==
  Uncrossed => \A s \in In("PendingDelivery") :
    \/ stage # "NOT_RUNNING" /\ inFlight = s
    \/ Queued(s) \/ AtCourier(s) \/ HandedOver(s)

\* The courier carries no letter the pool has given up: one that a failure, an
\* eviction or a load took back has a call or a sweep waiting to fetch it.
CourierClean ==
  Uncrossed => \A c \in copies : c.at = "courier" =>
    \/ slot[c.slot] = [state |-> "PendingDelivery", letter |-> c.letter]
    \/ \E i \in DOMAIN vm : vm[i].slot = c.slot /\ vm[i].op # "queue"
    \/ BeingSwept(c.slot)

\* Whatever is refused, lost or late, a session ends: every wait of the
\* sub-phases has an answer, a task or a timeout behind it.
SessionEnds == stage = "COMPOSE" ~> stage = "NOT_RUNNING"

\* No slot stays on its way for good, so the pool cannot be starved by letters
\* that never arrive.
SlotComesBack ==
  \A s \in Slots : slot[s].state = "PendingDelivery" ~> slot[s].state # "PendingDelivery" \/ ~Uncrossed
=============================================================================
