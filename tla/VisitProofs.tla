---------------------------- MODULE VisitProofs ----------------------------
(***************************************************************************)
(* The visit beat over its quest, for any number of visits and restarts    *)
(* and every setting of its limits: types, one goodbye, no visit undone    *)
(* after the meeting, and nothing left behind.                             *)
(*                                                                         *)
(* What a visit may rely on holds until something meant for one visit      *)
(* reaches another: until then the quest, the calls ahead of Papyrus, the  *)
(* answers and the checks can be told apart by whose they are, and the     *)
(* sub-phase says which of its own calls a visit has made.                 *)
(***************************************************************************)
EXTENDS NPCVisitBeat, SequenceTheorems, TLAPS

Checks   == {"normal", "combat"}
CallType == [call : QuestStages \cup {FillSender, FillAnchor, StopQuest}, visit : Visits]
TaskType == [op : {"normal", "combat", "conclude", "continue", "cleanup"}, visit : Visits]
FlagType == [FlagNames -> BOOLEAN]
CallBag(b) == IsABag(b) /\ BagToSet(b) \subseteq CallType
Ends     == {"aborted", "broken", "rolledback", "completed"}

\* TypeOK in three parts: the session's own, its latches and clocks, and what
\* it shares with Papyrus and the game thread.
SessionTyped ==
  /\ stage \in Stages /\ session \in Visits \cup {NoVisit} /\ sub \in SubPhases
  /\ param \in BOOLEAN /\ rollback \in {"none", "now", "unseen"} /\ looked \in BOOLEAN
  /\ busy \in BOOLEAN /\ hold \in {"Discussing", "OnHold", "ReEngage"}
  /\ snap \in [known : BOOLEAN, anchor : BOOLEAN] /\ nudges \in 0..NudgeCap
  /\ composes \subseteq Visits /\ restarts \in 0..MaxRestarts /\ ended \subseteq Ends
  /\ met \in BOOLEAN /\ closings \in Nat /\ crossed \in BOOLEAN
LatchesTyped ==
  /\ flag \in FlagType /\ fillTicks \in 0..FillTicks
  /\ timer \in [{"salutation", "valediction", "home"} -> Off..TimeoutTicks]
  /\ PollTypeOK
WorldTyped ==
  /\ quest \in [visit : Visits \cup {NoVisit}, stage : QuestStages,
                sender : Visits \cup {NoVisit}, anchor : BOOLEAN]
  /\ CallBag(vm) /\ tasks \in Seq(TaskType)
  /\ away \subseteq Visits /\ dead \subseteq Visits /\ stranded \subseteq Visits

\* Before the first visit there is nobody to act for.
Begun ==
  session = NoVisit =>
    /\ stage = "NOT_RUNNING" /\ ~flag.inFlight /\ ~busy /\ tasks = <<>>
    /\ \A v \in Visits : polls[v] = 0

\* The check under way is the first task.
Checking == busy => tasks # <<>> /\ Head(tasks).op \in {"normal", "combat"}

Waiting == sub = "VerifyingFill" => fillTicks < FillTicks

TypeInv == SessionTyped /\ LatchesTyped /\ WorldTyped /\ Begun /\ Checking /\ Waiting

-----------------------------------------------------------------------------
(* What the latches remember of a visit.                                   *)

Remembered == Whole => met = flag.salutation /\ closings = IF flag.valediction THEN 1 ELSE 0

-----------------------------------------------------------------------------
(* Whose is what.                                                          *)

Before   == {"Start", "ComposingLLM", "LLMResultReady", "SelectingPoint", "StartingQuest"}
After    == {"Warping", "VerifyingFill", "Arming", "Succeeded"}
Stops    == {Rollback, Shutdown, StopQuest}
Asked(C) == \E c \in BagToSet(vm) : c.call \in C
OurOwn(C) == \E c \in BagToSet(vm) : c.call \in C /\ c.visit = session

\* Nothing is about a visit that has not begun.
Numbered ==
  /\ \A v \in composes : v <= session
  /\ \A c \in BagToSet(vm) : c.visit <= session
  /\ \A i \in DOMAIN tasks : tasks[i].visit <= session
  /\ \A v \in Visits : polls[v] > 0 => v <= session
  /\ quest.visit <= session

\* A visit is checked and polled about after it was composed, and cleaned up
\* when it is over.
OwnTasks ==
  /\ \A i \in DOMAIN tasks : tasks[i].visit = session =>
       /\ stage # "COMPOSE"
       /\ tasks[i].op = "cleanup" => stage \in {"CLEANUP", "NOT_RUNNING"}
  /\ stage = "COMPOSE" => polls[session] = 0
  /\ busy => Head(tasks).visit = session

\* A session that has not asked for its briefing has got no further.
Asking ==
  /\ session \in composes =>
       stage \in {"COMPOSE", "NOT_RUNNING"} /\ (stage = "COMPOSE" => sub = "ComposingLLM")
  /\ stage = "COMPOSE" /\ ~param => sub \in {"Start", "Failed"}

\* Until it starts the quest a visit has asked nothing of it.
NotYet ==
  stage = "COMPOSE" =>
    /\ ~flag.salutation
    /\ flag.terminal => session \in dead
    /\ param /\ sub \in Before =>
         /\ quest.visit # session /\ ~flag.hardAbort
         /\ \A c \in BagToSet(vm) : c.visit # session

Whose == Numbered /\ OwnTasks /\ Asking /\ NotYet

-----------------------------------------------------------------------------
(* The opening line.                                                       *)

\* Stage 10 is called for once by a visit, and until that call is run the quest
\* is not there, whatever else runs before it.
Untouched ==
  \A c \in BagToSet(vm) : c.call = Salutation /\ c.visit = session =>
    vm[c] = 1 /\ quest.stage # Salutation /\ quest.visit \in {NoVisit, session}

\* When the opening line is out, the stage it was said at is past or its latch
\* is on, and nothing can bring that stage back.
Said ==
  flag.salutation =>
    /\ ~OurOwn({Salutation})
    /\ quest.visit \in {NoVisit, session}
    /\ quest.stage = Salutation => flag.latch

Opening == Untouched /\ Said

-----------------------------------------------------------------------------
(* Who is where.                                                           *)

\* The visitor is out and nobody has given up on them.
Out == session \in away \ (dead \cup stranded)

\* The quest is this visit's, and there is a way home.
Held == quest.visit = session /\ snap.known /\ ~OurOwn(Stops)

SenderOfQuest == quest.sender \in {NoVisit, quest.visit}

\* Nobody else is out.
Away == away \subseteq dead \cup stranded \cup {session}

\* Once it has started the quest a visit holds it, and it is armed with its
\* visitor in it.
OnTheWay ==
  stage = "COMPOSE" /\ sub \in After /\ session \notin dead =>
    Held /\ (sub = "Succeeded" => quest.sender = session)

\* Whoever is out is looked after: the quest holds them, nothing terminal has
\* happened, and the visit is still on.
LookedAfter ==
  Out =>
    /\ Held /\ ~flag.terminal
    /\ \/ stage = "COMPOSE" /\ sub \in After \ {"Warping"}
       \/ stage = "RUNNING" /\ quest.sender = session

Whereabouts ==
  SenderOfQuest /\ Away /\ OnTheWay /\ LookedAfter /\ (flag.hardAbort => flag.terminal)

\* A visit that is over or was aborted has its quest stopped, or asked to be.
Stopped == quest.visit = NoVisit \/ Asked(Stops)
Stopping == stage = "NOT_RUNNING" \/ flag.hardAbort => Stopped

VisitInv == Uncrossed => Whose /\ Opening /\ Whereabouts /\ Stopping

-----------------------------------------------------------------------------
(* Lemmas about what the steps are made of.                                *)

\* Who acts has begun.
LEMMA Acting ==
  ASSUME TypeInv, stage # "NOT_RUNNING" \/ flag.inFlight \/ busy \/ tasks # <<>> \/ session # NoVisit
  PROVE  session \in Visits /\ session # NoVisit
BY DEF TypeInv, SessionTyped, Begun

\* More calls, and one fewer.
LEMMA MoreCalls ==
  ASSUME NEW b, IsABag(b), NEW E
  PROVE  /\ IsABag(b (+) SetToBag(E)) /\ BagToSet(b (+) SetToBag(E)) = BagToSet(b) \cup E
         /\ \A e \in BagToSet(b) \ E : (b (+) SetToBag(E))[e] = b[e]
         /\ \A e \in E \ BagToSet(b) : (b (+) SetToBag(E))[e] = 1
BY DEF IsABag, BagToSet, (+), SetToBag

LEMMA OneCallFewer ==
  ASSUME NEW b, IsABag(b), NEW c \in BagToSet(b)
  PROVE  /\ IsABag(b (-) SetToBag({c}))
         /\ BagToSet(b (-) SetToBag({c})) \subseteq BagToSet(b)
         /\ BagToSet(b) \ {c} \subseteq BagToSet(b (-) SetToBag({c}))
         /\ b[c] = 1 => c \notin BagToSet(b (-) SetToBag({c}))
         /\ \A e \in BagToSet(b) \ {c} : (b (-) SetToBag({c}))[e] = b[e]
BY DEF IsABag, BagToSet, (-), SetToBag

LEMMA NoCalls == CallBag(EmptyBag) /\ BagToSet(EmptyBag) = {}
BY DEF CallBag, IsABag, BagToSet, EmptyBag, SetToBag

LEMMA SendTyped ==
  ASSUME WorldTyped, session \in Visits, NEW c \in QuestStages \cup {FillSender, FillAnchor, StopQuest}
  PROVE  Call(c) \in CallType /\ CallBag(vm (+) SetToBag({Call(c)}))
<1>1. Call(c) \in CallType
  BY DEF Call, CallType
<1> QED BY <1>1, MoreCalls DEF WorldTyped, CallBag

LEMMA TaskTyped ==
  ASSUME WorldTyped, NEW t \in TaskType
  PROVE  Append(tasks, t) \in Seq(TaskType)
BY DEF WorldTyped

\* The check under way stays the first.
LEMMA HeadKept ==
  ASSUME WorldTyped, tasks # <<>>, NEW t \in TaskType
  PROVE  Append(tasks, t) # <<>> /\ Head(Append(tasks, t)) = Head(tasks)
<1>1. Len(tasks) \in Nat \ {0}
  BY EmptySeq DEF WorldTyped
<1>2. Len(Append(tasks, t)) = Len(tasks) + 1 /\ Append(tasks, t)[1] = tasks[1]
  BY <1>1, AppendProperties DEF WorldTyped
<1> QED BY <1>1, <1>2 DEF WorldTyped

\* What is left of the tasks is as typed.
LEMMA RestTyped ==
  ASSUME WorldTyped
  PROVE  tasks # <<>> => Head(tasks) \in TaskType /\ Tail(tasks) \in Seq(TaskType)
BY HeadTailProperties DEF WorldTyped

\* The clocks and the latches, started and reset.
LEMMA ClockTyped ==
  ASSUME LatchesTyped, NEW t \in {"salutation", "valediction", "home"}
  PROVE  [timer EXCEPT ![t] = 0] \in [{"salutation", "valediction", "home"} -> Off..TimeoutTicks]
BY VisitConstants DEF LatchesTyped, Off

LEMMA ResetTyped ==
  /\ NoFlags \in FlagType /\ 0 \in 0..FillTicks /\ 0 \in 0..NudgeCap /\ 0 \in 0..MaxFailures
  /\ NoTimers \in [{"salutation", "valediction", "home"} -> Off..TimeoutTicks]
  /\ NoSnap \in [known : BOOLEAN, anchor : BOOLEAN]
  /\ [v \in Visits |-> 0] \in [Visits -> Nat]
<1>1. NoTimers \in [{"salutation", "valediction", "home"} -> Off..TimeoutTicks]
  BY VisitConstants DEF NoTimers, Off
<1>2. NoFlags \in FlagType /\ 0 \in 0..FillTicks /\ 0 \in 0..NudgeCap /\ 0 \in 0..MaxFailures
  BY VisitConstants, PollConstants DEF NoFlags, FlagType
<1>3. NoSnap \in [known : BOOLEAN, anchor : BOOLEAN] /\ [v \in Visits |-> 0] \in [Visits -> Nat]
  BY DEF NoSnap
<1> QED BY <1>1, <1>2, <1>3

\* Each way down leaves its variables typed, and no poll forgotten.
LEMMA DownTyped ==
  ASSUME SessionTyped, LatchesTyped, WorldTyped, session \in Visits,
         NEW f \in FlagType, NEW why \in {"aborted", "broken"},
         RollBackVisit(f) \/ HardAbortVisit(f, why) \/ RunReturnHomeShutdown(f)
  PROVE  /\ away' \subseteq Visits /\ CallBag(vm') /\ ended' \subseteq Ends
         /\ crossed' \in BOOLEAN /\ flag' \in FlagType
         /\ PollTypeOK' /\ polls' = polls
<1>1. SentHome \subseteq Visits /\ SentHomeAlive \subseteq Visits
  BY DEF WorldTyped, SentHome, SentHomeAlive
<1>2. /\ CallBag(vm) /\ PollTypeOK /\ crossed \in BOOLEAN
      /\ ended \subseteq Ends /\ away \subseteq Visits
  BY DEF SessionTyped, LatchesTyped, WorldTyped
<1>3. /\ CallBag(vm (+) SetToBag({Call(Rollback)}))
      /\ CallBag(vm (+) SetToBag({Call(Shutdown)}))
  BY SendTyped DEF QuestStages
<1>4. /\ [f EXCEPT !.terminal = TRUE] \in FlagType
      /\ [f EXCEPT !.hardAbort = TRUE, !.terminal = TRUE] \in FlagType
  BY DEF FlagType
<1>5. CASE RollBackVisit(f)
  BY <1>1, <1>2, <1>3, <1>4, <1>5 DEF RollBackVisit, Dispatch, Send, Disarm, PollTypeOK, Ends
<1>6. CASE HardAbortVisit(f, why)
  BY <1>1, <1>2, <1>3, <1>4, <1>6 DEF HardAbortVisit, Dispatch, Send, Disarm, PollTypeOK, pollVars, Ends
<1>7. CASE RunReturnHomeShutdown(f)
  BY <1>1, <1>2, <1>3, <1>4, <1>7 DEF RunReturnHomeShutdown, Dispatch, Send, PollTypeOK, pollVars, Ends
<1> QED BY <1>5, <1>6, <1>7

LEMMA AnchoredTyped ==
  ASSUME NEW r \in [known : {TRUE}, anchor : BOOLEAN]
  PROVE  r \in [known : BOOLEAN, anchor : BOOLEAN]
OBVIOUS

LEMMA TypeInvTyped == TypeInv => TypeOK
BY DEF TypeInv, TypeOK, SessionTyped, LatchesTyped, WorldTyped, CallBag, CallType, TaskType, FlagType, Ends

-----------------------------------------------------------------------------
(* Types.                                                                  *)

LEMMA TypeInit == Init => TypeInv
<1> SUFFICES ASSUME Init PROVE TypeInv
  OBVIOUS
<1>1. SessionTyped
  <2>1. snap \in [known : BOOLEAN, anchor : BOOLEAN] /\ nudges \in 0..NudgeCap /\ restarts \in 0..MaxRestarts
    BY VisitConstants DEF Init, NoSnap
  <2>2. /\ stage \in Stages /\ session \in Visits \cup {NoVisit} /\ sub \in SubPhases
        /\ param \in BOOLEAN /\ rollback \in {"none", "now", "unseen"} /\ looked \in BOOLEAN
        /\ busy \in BOOLEAN /\ hold \in {"Discussing", "OnHold", "ReEngage"}
    BY DEF Init, Stages, SubPhases
  <2>3. composes \subseteq Visits /\ ended \subseteq Ends
    BY DEF Init
  <2>4. met \in BOOLEAN /\ closings \in Nat /\ crossed \in BOOLEAN
    BY DEF Init
  <2> QED BY <2>1, <2>2, <2>3, <2>4 DEF SessionTyped
<1>2. LatchesTyped
  <2>1. timer \in [{"salutation", "valediction", "home"} -> Off..TimeoutTicks]
    BY VisitConstants DEF Init, NoTimers, Off
  <2>2. flag \in FlagType /\ fillTicks \in 0..FillTicks
    BY VisitConstants DEF Init, FlagType, NoFlags
  <2>3. PollTypeOK
    <3>1. failures \in 0..MaxFailures
      BY PollConstants DEF Init, PollInit
    <3>2. armed \in BOOLEAN /\ polls \in [Visits -> Nat]
      BY DEF Init, PollInit
    <3> QED BY <3>1, <3>2 DEF PollTypeOK
  <2> QED BY <2>1, <2>2, <2>3 DEF LatchesTyped
<1>3. WorldTyped
  BY NoCalls DEF Init, WorldTyped, NoQuest, NoVisit, QuestStages
<1>4. Begun /\ Checking /\ Waiting
  BY DEF Init, PollInit, Begun, Checking, Waiting, NoFlags, FlagNames
<1> QED BY <1>1, <1>2, <1>3, <1>4 DEF TypeInv

LEMMA TypeCompose ==
  ASSUME TypeInv, ComposeSteps \/ TickWatches
  PROVE  TypeInv'
<1>1. session \in Visits /\ session # NoVisit /\ stage = "COMPOSE"
  BY Acting DEF ComposeSteps, TickWatches, TickRolledBack, TickCompose, TickSelects, TickStartQuest, TickWarp,
     TickVerifyFill, TickArm, TickComposed, ComposeTick
<1>2. AreaSays \subseteq {"none", "now", "unseen"}
  BY DEF TypeInv, SessionTyped, AreaSays, Withdrawn, Requested
<1>3. SessionTyped /\ LatchesTyped /\ WorldTyped /\ Begun /\ Checking /\ Waiting
  BY DEF TypeInv
<1> USE <1>1, <1>2, <1>3, VisitConstants
    DEF ComposeTick, Looks, latches, record, world, history, pollVars, Stages, SubPhases, NoVisit
<1>a. CASE TickRolledBack
  <2>1. SessionTyped'
    BY <1>a DEF TickRolledBack, SessionTyped
  <2>2. LatchesTyped'
    BY <1>a DEF TickRolledBack, LatchesTyped, PollTypeOK
  <2>3. WorldTyped'
    BY <1>a DEF TickRolledBack, WorldTyped
  <2>4. Begun' /\ Checking' /\ Waiting'
    BY <1>a DEF TickRolledBack, Begun, Checking, Waiting, SessionTyped, LatchesTyped
  <2> QED BY <2>1, <2>2, <2>3, <2>4 DEF TypeInv
<1>b. CASE TickCompose
  <2>1. SessionTyped'
    BY <1>b DEF TickCompose, SessionTyped
  <2>2. LatchesTyped'
    BY <1>b DEF TickCompose, LatchesTyped, PollTypeOK
  <2>3. WorldTyped'
    BY <1>b DEF TickCompose, WorldTyped
  <2>4. Begun' /\ Checking' /\ Waiting'
    BY <1>b DEF TickCompose, Begun, Checking, Waiting, SessionTyped, LatchesTyped
  <2> QED BY <2>1, <2>2, <2>3, <2>4 DEF TypeInv
<1>c. CASE TickSelects
  <2>1. SessionTyped'
    BY <1>c DEF TickSelects, SessionTyped
  <2>2. LatchesTyped'
    BY <1>c DEF TickSelects, LatchesTyped, PollTypeOK
  <2>3. WorldTyped'
    BY <1>c DEF TickSelects, WorldTyped
  <2>4. Begun' /\ Checking' /\ Waiting'
    BY <1>c DEF TickSelects, Begun, Checking, Waiting, SessionTyped, LatchesTyped
  <2> QED BY <2>1, <2>2, <2>3, <2>4 DEF TypeInv
<1>d. CASE TickStartQuest
  <2>0. snap' \in [known : BOOLEAN, anchor : BOOLEAN] /\ nudges' \in 0..NudgeCap
    <3>1. \/ snap' \in [known : {TRUE}, anchor : BOOLEAN] /\ nudges' = 0
          \/ snap' = snap /\ nudges' = nudges
      BY <1>d DEF TickStartQuest
    <3>2. CASE snap' \in [known : {TRUE}, anchor : BOOLEAN] /\ nudges' = 0
      <4>1. snap' \in [known : BOOLEAN, anchor : BOOLEAN]
        BY <3>2, AnchoredTyped
      <4> QED BY <3>2, <4>1
    <3> QED BY <3>1, <3>2 DEF SessionTyped
  <2>1. SessionTyped'
    BY <1>d, <2>0 DEF TickStartQuest, SessionTyped, Dispatch, Send
  <2>2. LatchesTyped'
    BY <1>d DEF TickStartQuest, LatchesTyped, PollTypeOK
  <2>a. quest' \in [visit : Visits \cup {NoVisit}, stage : QuestStages,
                  sender : Visits \cup {NoVisit}, anchor : BOOLEAN]
    BY <1>d DEF TickStartQuest, WorldTyped, QuestStages
  <2>b. CallBag(vm')
    <3>1. vm' = vm (+) SetToBag({Call(Salutation)}) \/ vm' = vm
      BY <1>d DEF TickStartQuest, Dispatch, Send
    <3> QED BY <3>1, SendTyped DEF WorldTyped, QuestStages
  <2>3. WorldTyped'
    BY <1>d, <2>a, <2>b DEF TickStartQuest, WorldTyped
  <2>4. Begun' /\ Checking' /\ Waiting'
    BY <1>d DEF TickStartQuest, Begun, Checking, Waiting, SessionTyped, LatchesTyped
  <2> QED BY <2>1, <2>2, <2>3, <2>4 DEF TypeInv
<1>e. CASE TickWarp
  <2>1. SessionTyped'
    BY <1>e DEF TickWarp, SessionTyped
  <2>2. LatchesTyped'
    BY <1>e DEF TickWarp, LatchesTyped, PollTypeOK
  <2>a. {Call(c) : c \in Fills} \subseteq CallType
    BY SendTyped DEF Fills
  <2>b. CallBag(vm')
    BY <1>e, <2>a, MoreCalls DEF TickWarp, WorldTyped, CallBag
  <2>3. WorldTyped'
    BY <1>e, <2>b DEF TickWarp, WorldTyped
  <2>4. Begun' /\ Checking' /\ Waiting'
    BY <1>e DEF TickWarp, Begun, Checking, Waiting, SessionTyped, LatchesTyped
  <2> QED BY <2>1, <2>2, <2>3, <2>4 DEF TypeInv
<1>f. CASE TickVerifyFill
  <2>1. SessionTyped'
    BY <1>f DEF TickVerifyFill, SessionTyped, Dispatch, Send
  <2>2. LatchesTyped'
    <3>1. fillTicks' \in 0..FillTicks
      BY <1>f DEF TickVerifyFill, LatchesTyped, Waiting
    <3> QED BY <1>f, <3>1 DEF TickVerifyFill, LatchesTyped, PollTypeOK
  <2>3. WorldTyped'
    BY <1>f, SendTyped DEF TickVerifyFill, WorldTyped, Dispatch, Send, QuestStages
  <2>4. Begun' /\ Checking' /\ Waiting'
    BY <1>f DEF TickVerifyFill, Begun, Checking, Waiting, SessionTyped, LatchesTyped
  <2> QED BY <2>1, <2>2, <2>3, <2>4 DEF TypeInv
<1>g. CASE TickArm
  <2>1. SessionTyped'
    BY <1>g DEF TickArm, SessionTyped
  <2>2. LatchesTyped'
    <3>1. timer' \in [{"salutation", "valediction", "home"} -> Off..TimeoutTicks]
      BY <1>g DEF TickArm, LatchesTyped, Off
    <3> QED BY <1>g, <3>1 DEF TickArm, LatchesTyped, PollTypeOK
  <2>3. WorldTyped'
    BY <1>g DEF TickArm, WorldTyped
  <2>4. Begun' /\ Checking' /\ Waiting'
    BY <1>g DEF TickArm, Begun, Checking, Waiting, SessionTyped, LatchesTyped
  <2> QED BY <2>1, <2>2, <2>3, <2>4 DEF TypeInv
<1>h. CASE TickComposed
  <2>1. SessionTyped'
    BY <1>h DEF TickComposed, SessionTyped
  <2>2. LatchesTyped'
    BY <1>h DEF TickComposed, LatchesTyped, PollTypeOK
  <2>3. WorldTyped'
    BY <1>h DEF TickComposed, WorldTyped
  <2>4. Begun' /\ Checking' /\ Waiting'
    BY <1>h DEF TickComposed, Begun, Checking, Waiting, SessionTyped, LatchesTyped
  <2> QED BY <2>1, <2>2, <2>3, <2>4 DEF TypeInv
<1>i. CASE TickWatches
  <2>1. SessionTyped'
    BY <1>i DEF TickWatches, SessionTyped
  <2>2. LatchesTyped'
    BY <1>i DEF TickWatches, LatchesTyped, PollTypeOK
  <2>3. WorldTyped'
    BY <1>i DEF TickWatches, WorldTyped
  <2>4. Begun' /\ Checking' /\ Waiting'
    BY <1>i DEF TickWatches, Begun, Checking, Waiting, SessionTyped, LatchesTyped
  <2> QED BY <2>1, <2>2, <2>3, <2>4 DEF TypeInv
<1> QED BY <1>a, <1>b, <1>c, <1>d, <1>e, <1>f, <1>g, <1>h, <1>i DEF ComposeSteps

LEMMA TypeTicks ==
  ASSUME TypeInv,
         \/ TickTerminal \/ TickCleanupDone \/ TickCleanup
         \/ \E mode \in Checks, checks \in BOOLEAN : TickRunning(mode, checks)
  PROVE  TypeInv'
<1>1. session \in Visits /\ session # NoVisit
  BY Acting DEF TickTerminal, TickCleanupDone, TickCleanup, TickRunning
<1>2. AreaSays \subseteq {"none", "now", "unseen"}
  BY DEF TypeInv, SessionTyped, AreaSays, Withdrawn, Requested
<1>3. SessionTyped /\ LatchesTyped /\ WorldTyped /\ Begun /\ Checking /\ Waiting
  BY DEF TypeInv
<1> USE <1>1, <1>3, VisitConstants
    DEF Looks, latches, record, world, history, pollVars, Stages, SubPhases, NoVisit
<1>a. CASE TickTerminal
  <2>1. SessionTyped'
    BY <1>a, <1>2 DEF TickTerminal, SessionTyped
  <2>2. LatchesTyped' /\ WorldTyped'
    BY <1>a DEF TickTerminal, LatchesTyped, WorldTyped, PollTypeOK
  <2>3. Begun' /\ Checking' /\ Waiting'
    BY <1>a DEF TickTerminal, Begun, Checking, Waiting
  <2> QED BY <2>1, <2>2, <2>3 DEF TypeInv
<1>b. CASE TickCleanupDone
  <2>1. SessionTyped'
    <3>1. snap' \in [known : BOOLEAN, anchor : BOOLEAN] /\ nudges' \in 0..NudgeCap
      BY <1>b DEF TickCleanupDone, NoSnap
    <3> QED BY <1>b, <3>1 DEF TickCleanupDone, SessionTyped
  <2>2. LatchesTyped'
    BY <1>b DEF TickCleanupDone, LatchesTyped, PollTypeOK, FlagType
  <2>3. WorldTyped'
    BY <1>b DEF TickCleanupDone, WorldTyped
  <2>4. Begun' /\ Checking' /\ Waiting'
    BY <1>b DEF TickCleanupDone, Begun, Checking, Waiting
  <2> QED BY <2>1, <2>2, <2>3, <2>4 DEF TypeInv
<1>c. CASE TickCleanup
  <2>1. Task("cleanup") \in TaskType
    BY DEF Task, TaskType
  <2>2. SessionTyped' /\ LatchesTyped'
    <3>1. flag' \in FlagType
      BY <1>c DEF TickCleanup, LatchesTyped, FlagType
    <3>2. SessionTyped'
      BY <1>c DEF TickCleanup, SessionTyped
    <3> QED BY <1>c, <3>1, <3>2 DEF TickCleanup, LatchesTyped, PollTypeOK
  <2>3. WorldTyped'
    BY <1>c, <2>1, TaskTyped DEF TickCleanup, WorldTyped
  <2>4. Checking'
    <3>1. tasks' = Append(tasks, Task("cleanup")) /\ busy' = busy
      BY <1>c DEF TickCleanup
    <3> QED BY <2>1, <3>1, HeadKept DEF Checking
  <2>5. Begun' /\ Waiting'
    BY <1>c DEF TickCleanup, Begun, Waiting
  <2> QED BY <2>2, <2>3, <2>4, <2>5 DEF TypeInv
<1>d. ASSUME NEW mode \in Checks, NEW checks \in BOOLEAN, TickRunning(mode, checks) PROVE TypeInv'
  <2>1. Task(mode) \in TaskType
    BY DEF Task, TaskType, Checks
  <2>2. SessionTyped'
    BY <1>d, <1>2 DEF TickRunning, SessionTyped
  <2>3. LatchesTyped'
    <3>1. timer' \in [{"salutation", "valediction", "home"} -> Off..TimeoutTicks]
      <4>1. \A t \in {"salutation", "valediction", "home"} :
              /\ timer[t] \in Off..TimeoutTicks
              /\ timer[t] # TimeoutTicks => timer[t] + 1 \in Off..TimeoutTicks
        BY DEF LatchesTyped, Off
      <4>2. DOMAIN timer = {"salutation", "valediction", "home"}
        BY DEF LatchesTyped
      <4>3. Aged \in [{"salutation", "valediction", "home"} -> Off..TimeoutTicks]
        BY <4>1, <4>2 DEF Aged
      <4> QED BY <1>d, <4>3 DEF TickRunning, LatchesTyped
    <3>2. flag' \in FlagType
      BY <1>d DEF TickRunning, LatchesTyped, FlagType
    <3> QED BY <1>d, <3>1, <3>2 DEF TickRunning, LatchesTyped, PollTypeOK
  <2>4. tasks' = tasks \/ tasks' = Append(tasks, Task(mode))
    BY <1>d DEF TickRunning
  <2>5. WorldTyped'
    BY <1>d, <2>1, <2>4, TaskTyped DEF TickRunning, WorldTyped
  <2>6. Checking'
    BY <1>d, <2>1, <2>4, HeadKept DEF TickRunning, Checking
  <2>7. Begun' /\ Waiting'
    BY <1>d DEF TickRunning, Begun, Waiting
  <2> QED BY <2>2, <2>3, <2>5, <2>6, <2>7 DEF TypeInv
<1> QED BY <1>a, <1>b, <1>c, <1>d

-----------------------------------------------------------------------------
(* What a check, and a verdict, can do.                                    *)

\* The latch of the opening line, let go when Papyrus has moved the stage on.
Dropped == [flag EXCEPT !.latch = @ /\ quest.stage = Salutation]

\* Only this session's polls are its to add to.
PollsKept == PollTypeOK' /\ \A v \in Visits \ {session} : polls'[v] = polls[v]

GoesOn(g) ==
  /\ flag' = g /\ UNCHANGED <<timer, met, away, vm, ended, crossed>>
  /\ hold' \in {"Discussing", "OnHold", "ReEngage"} /\ nudges' \in 0..NudgeCap /\ PollsKept

GoesDown(g) ==
  /\ UNCHANGED <<timer, hold, nudges, met>>
  /\ \/ RollBackVisit(g) /\ (~flag.salutation \/ (quest.stage = Salutation /\ ~g.latch))
     \/ HardAbortVisit(g, "aborted") \/ HardAbortVisit(g, "broken") \/ RunReturnHomeShutdown(g)

Meets ==
  /\ quest.stage = Salutation /\ Dispatch(Discuss) /\ met' = TRUE
  /\ flag' = [Dropped EXCEPT !.salutation = TRUE, !.latch = TRUE]
  /\ PollsKept /\ UNCHANGED <<timer, hold, nudges, away, ended>>

Parts ==
  /\ flag' = Dropped /\ Dispatch(ReturnHome) /\ timer' = [timer EXCEPT !.home = 0]
  /\ PollsKept /\ UNCHANGED <<hold, nudges, met, away, ended>>

LEMMA PollTyped ==
  ASSUME PollTypeOK, session \in Visits, Arm \/ FirePoll(session) \/ UNCHANGED pollVars
  PROVE  PollsKept
<1>1. CASE Arm
  BY <1>1, PollConstants DEF Arm, PollTypeOK, PollsKept
<1>2. CASE FirePoll(session)
  BY <1>2, PollConstants DEF FirePoll, OneMore, PollTypeOK, PollsKept
<1>3. CASE UNCHANGED pollVars
  BY <1>3 DEF pollVars, PollTypeOK, PollsKept
<1> QED BY <1>1, <1>2, <1>3

LEMMA CheckDoes ==
  ASSUME TypeInv, NEW mode \in Checks, Check(mode)
  PROVE  (\E g \in {flag, Dropped} : GoesOn(g) \/ GoesDown(g)) \/ Meets \/ Parts
<1>1. session \in Visits /\ session # NoVisit /\ PollTypeOK
  BY Acting DEF Check, TypeInv, LatchesTyped
<1>2. hold \in {"Discussing", "OnHold", "ReEngage"} /\ nudges \in 0..NudgeCap /\ 0 \in 0..NudgeCap
  BY VisitConstants DEF TypeInv, SessionTyped
<1>3. (Still(flag) => GoesOn(flag)) /\ (Still(Dropped) => GoesOn(Dropped))
  BY <1>1, <1>2, PollTyped DEF Still, GoesOn, visit
<1>4. CASE flag.hardAbort /\ Still(flag)
  BY <1>3, <1>4
<1>5. CASE HardAbortVisit(flag, "broken") /\ UNCHANGED visit
  BY <1>5 DEF GoesDown, visit
<1>6. CASE ~NothingToUndo /\ RollBackVisit(flag) /\ UNCHANGED visit
  BY <1>6 DEF GoesDown, visit, NothingToUndo
<1>7. CASE AtStage(Dropped, mode)
  <2>1. CASE Still(Dropped)
    BY <1>3, <2>1
  <2>2. CASE quest.stage = Discuss /\ AtDiscuss(Dropped, mode)
    <3> DEFINE Rest == flag' = Dropped /\ UNCHANGED <<timer, met, away, vm, ended, crossed>>
    <3>1. CASE HardAbortVisit(Dropped, "aborted") /\ UNCHANGED visit
      BY <3>1 DEF GoesDown, visit
    <3>2. CASE hold' \in {"OnHold", "ReEngage"} /\ Rest /\ UNCHANGED <<nudges, pollVars>>
      BY <1>1, <1>2, <3>2, PollTyped DEF GoesOn
    <3>3. CASE Arm /\ hold' = "Discussing" /\ Rest /\ UNCHANGED nudges
      BY <1>1, <1>2, <3>3, PollTyped DEF GoesOn
    <3>4. CASE nudges' \in {nudges, 0} /\ (FirePoll(session) \/ UNCHANGED pollVars) /\ Rest /\ UNCHANGED hold
      BY <1>1, <1>2, <3>4, PollTyped DEF GoesOn
    <3> HIDE DEF Rest
    <3>5. CASE Still(Dropped)
      BY <1>3, <3>5
    <3> QED BY <2>2, <3>1, <3>2, <3>3, <3>4, <3>5 DEF AtDiscuss, Rest
  <2>3. CASE quest.stage = Salutation /\ AtSalutation(Dropped)
    <3>1. CASE RollBackVisit(Dropped) /\ UNCHANGED visit /\ ~Dropped.latch
      BY <2>3, <3>1 DEF GoesDown, visit
    <3>2. CASE Still(Dropped)
      BY <1>3, <3>2
    <3>3. CASE /\ flag' = [Dropped EXCEPT !.salutation = TRUE, !.latch = TRUE]
               /\ met' = TRUE /\ Dispatch(Discuss) /\ Arm
               /\ UNCHANGED <<timer, hold, nudges, away, ended>>
      BY <1>1, <2>3, <3>3, PollTyped DEF Meets
    <3> QED BY <2>3, <3>1, <3>2, <3>3 DEF AtSalutation
  <2>4. CASE AtValediction(Dropped)
    <3>1. CASE UNCHANGED pollVars
      BY <1>1, <1>3, <2>4, <3>1, PollTyped DEF AtValediction, Parts
    <3> QED BY <2>4, <3>1 DEF AtValediction, Still
  <2>5. CASE AtReturnHome(Dropped)
    BY <1>3, <2>5 DEF AtReturnHome, GoesDown, visit
  <2> QED BY <1>7, <2>1, <2>2, <2>3, <2>4, <2>5 DEF AtStage
<1> QED BY <1>4, <1>5, <1>6, <1>7 DEF Check, Dropped

\* The goodbye is said, or has been.
SaysGoodbye ==
  /\ vm' = vm (+) SetToBag({Call(Valediction)})
  /\ \/ flag.valediction /\ UNCHANGED <<flag, timer, closings>>
     \/ /\ ~flag.valediction /\ flag' = [flag EXCEPT !.valediction = TRUE]
        /\ timer' = [timer EXCEPT !.valediction = 0] /\ closings' = closings + 1

LEMMA VerdictDoes ==
  ASSUME TypeInv, NEW op \in {"conclude", "continue"}, Verdict(op)
  PROVE  /\ tasks # <<>> /\ Head(tasks).op = op /\ tasks' = Tail(tasks)
         /\ SaysGoodbye \/ UNCHANGED <<vm, flag, timer, closings>>
         /\ nudges' \in 0..NudgeCap /\ PollTypeOK' /\ polls' = polls
<1>1. PollTypeOK /\ nudges \in 0..NudgeCap
  BY DEF TypeInv, LatchesTyped, SessionTyped
<1>2. Concludes => SaysGoodbye /\ PollTypeOK' /\ polls' = polls
  BY <1>1 DEF Concludes, SaysGoodbye, Send, Disarm, PollTypeOK
<1>3. UNCHANGED pollVars => PollTypeOK' /\ polls' = polls
  BY <1>1 DEF pollVars, PollTypeOK
<1> QED BY <1>1, <1>2, <1>3, VisitConstants DEF Verdict

-----------------------------------------------------------------------------
LEMMA TypeTasks ==
  ASSUME TypeInv, Tasks
  PROVE  TypeInv'
<1>1. session \in Visits /\ session # NoVisit
  BY Acting DEF Tasks, CheckBegins, Check, Verdict, Cleanup
<1>2. tasks # <<>> /\ Head(tasks) \in TaskType /\ Tail(tasks) \in Seq(TaskType)
  BY RestTyped DEF Tasks, CheckBegins, Check, Verdict, Cleanup, TypeInv, Checking
<1>3. SessionTyped /\ LatchesTyped /\ WorldTyped /\ Begun /\ Checking /\ Waiting
  BY DEF TypeInv
<1> USE <1>1, <1>2, <1>3 DEF NoVisit
<1>a. CASE CheckBegins
  <2>1. flag' \in FlagType
    BY <1>a DEF CheckBegins, LatchesTyped, FlagType
  <2>2. SessionTyped' /\ Checking'
    BY <1>a DEF CheckBegins, SessionTyped, world, record, Checking
  <2>3. LatchesTyped' /\ WorldTyped' /\ Begun' /\ Waiting'
    BY <1>a, <2>1 DEF CheckBegins, LatchesTyped, PollTypeOK, WorldTyped, world, pollVars, Begun, Waiting
  <2> QED BY <2>2, <2>3 DEF TypeInv
<1>b. ASSUME NEW mode \in Checks, Check(mode) PROVE TypeInv'
  <2>1. /\ tasks' = Tail(tasks) /\ busy' = FALSE
        /\ rollback' \in {"none", "now", rollback}
        /\ UNCHANGED <<stage, session, sub, param, looked, fillTicks, snap, composes, quest, dead,
                        restarts, closings, stranded>>
    BY <1>b DEF Check, LateAsks
  <2>2. Dropped \in FlagType /\ flag \in FlagType
    BY DEF Dropped, LatchesTyped, FlagType
  <2>3. /\ away' \subseteq Visits /\ CallBag(vm') /\ ended' \subseteq Ends
        /\ crossed' \in BOOLEAN /\ flag' \in FlagType /\ PollTypeOK'
        /\ met' \in BOOLEAN /\ nudges' \in 0..NudgeCap
        /\ timer' \in [{"salutation", "valediction", "home"} -> Off..TimeoutTicks]
        /\ hold' \in {"Discussing", "OnHold", "ReEngage"}
    <3>1. /\ timer \in [{"salutation", "valediction", "home"} -> Off..TimeoutTicks]
          /\ hold \in {"Discussing", "OnHold", "ReEngage"} /\ met \in BOOLEAN
          /\ nudges \in 0..NudgeCap /\ crossed \in BOOLEAN /\ ended \subseteq Ends
          /\ away \subseteq Visits /\ CallBag(vm)
      BY DEF LatchesTyped, SessionTyped, WorldTyped
    <3>2. ASSUME NEW g \in {flag, Dropped}, GoesOn(g) PROVE <2>3!:
      BY <2>2, <3>1, <3>2 DEF GoesOn, PollsKept
    <3>3. ASSUME NEW g \in {flag, Dropped}, GoesDown(g) PROVE <2>3!:
      <4>1. g \in FlagType
        BY <2>2
      <4> QED BY <3>1, <3>3, <4>1, DownTyped DEF GoesDown
    <3>4. CASE Meets
      <4>1. CallBag(vm (+) SetToBag({Call(Discuss)}))
        BY SendTyped DEF QuestStages
      <4>2. [Dropped EXCEPT !.salutation = TRUE, !.latch = TRUE] \in FlagType
        BY <2>2 DEF FlagType
      <4> QED BY <3>1, <3>4, <4>1, <4>2 DEF Meets, Dispatch, Send, PollsKept
    <3>5. CASE Parts
      <4>1. CallBag(vm (+) SetToBag({Call(ReturnHome)}))
        BY SendTyped DEF QuestStages
      <4>2. [timer EXCEPT !.home = 0] \in [{"salutation", "valediction", "home"} -> Off..TimeoutTicks]
        BY <3>1, VisitConstants DEF Off
      <4> QED BY <2>2, <3>1, <3>5, <4>1, <4>2, SMTT(20) DEF Parts, Dispatch, Send, PollsKept
    <3> QED BY <1>b, <3>2, <3>3, <3>4, <3>5, CheckDoes
  <2>4. SessionTyped'
    BY <2>1, <2>3 DEF SessionTyped
  <2>5. LatchesTyped' /\ WorldTyped'
    BY <2>1, <2>3 DEF LatchesTyped, WorldTyped
  <2>6. Begun' /\ Checking' /\ Waiting'
    BY <2>1 DEF Begun, Checking, Waiting
  <2> QED BY <2>4, <2>5, <2>6 DEF TypeInv
<1>c. ASSUME NEW op \in {"conclude", "continue"}, Verdict(op) PROVE TypeInv'
  <2>1. /\ tasks' = Tail(tasks) /\ crossed' \in BOOLEAN
        /\ UNCHANGED <<stage, session, sub, param, rollback, looked, hold, fillTicks, snap, composes,
                        busy, quest, away, dead, restarts, ended, met, stranded>>
    BY <1>c DEF Verdict
  <2>2. SaysGoodbye \/ UNCHANGED <<vm, flag, timer, closings>>
    BY <1>c, VerdictDoes
  <2>3. nudges' \in 0..NudgeCap /\ PollTypeOK' /\ ~busy
    BY <1>c, VerdictDoes DEF Checking
  <2>4. CallBag(vm (+) SetToBag({Call(Valediction)}))
    BY SendTyped DEF QuestStages
  <2>5. /\ [flag EXCEPT !.valediction = TRUE] \in FlagType
        /\ [timer EXCEPT !.valediction = 0] \in [{"salutation", "valediction", "home"} -> Off..TimeoutTicks]
    BY ClockTyped DEF LatchesTyped, FlagType
  <2>6. SessionTyped'
    BY <2>1, <2>2, <2>3 DEF SessionTyped, SaysGoodbye
  <2>7. LatchesTyped'
    BY <2>1, <2>2, <2>3, <2>5 DEF LatchesTyped, SaysGoodbye
  <2>8. WorldTyped'
    BY <2>1, <2>2, <2>4 DEF WorldTyped, SaysGoodbye
  <2>9. Begun' /\ Checking' /\ Waiting'
    BY <2>1, <2>3 DEF Begun, Checking, Waiting
  <2> QED BY <2>6, <2>7, <2>8, <2>9 DEF TypeInv
<1>d. CASE Cleanup
  <2>1. snap' \in [known : BOOLEAN, anchor : BOOLEAN] /\ nudges' \in 0..NudgeCap
    BY <1>d, VisitConstants DEF Cleanup, NoSnap
  <2>2. CallBag(vm')
    BY <1>d, SendTyped DEF Cleanup, Send, QuestStages, WorldTyped
  <2>3. SessionTyped'
    BY <1>d, <2>1 DEF Cleanup, latches, SessionTyped
  <2>4. LatchesTyped' /\ WorldTyped'
    BY <1>d, <2>2 DEF Cleanup, latches, pollVars, LatchesTyped, PollTypeOK, WorldTyped
  <2>5. Begun' /\ Checking' /\ Waiting'
    BY <1>d DEF Cleanup, latches, Begun, Checking, Waiting
  <2> QED BY <2>3, <2>4, <2>5 DEF TypeInv
<1> QED BY <1>a, <1>b, <1>c, <1>d DEF Tasks, Checks

-----------------------------------------------------------------------------
\* What running one call does to the quest and to the calls that wait.
Runs(c) ==
  /\ c \in BagToSet(vm) /\ c \in CallType /\ CallBag(vm')
  /\ \/ quest' = quest
     \/ quest' = NoQuest /\ c.call = StopQuest
     \/ quest' = [quest EXCEPT !.sender = c.visit] /\ c.call = FillSender
     \/ quest' = [quest EXCEPT !.anchor = TRUE]
     \/ quest' = [quest EXCEPT !.stage = c.call] /\ c.call \in QuestStages
  /\ quest.visit = c.visit \/ (quest.visit = NoVisit /\ c.call \in Stops) \/ crossed'
  /\ BagToSet(vm) \ {c} \subseteq BagToSet(vm')
  /\ c.call \in Stops => (quest' = NoQuest \/ Asked(Stops)')
  /\ \A e \in BagToSet(vm') :
       \/ e \in BagToSet(vm) /\ (vm[e] = 1 /\ e.call = Salutation => vm'[e] = 1 /\ e # c)
       \/ c.call \in Stops /\ e.call \in Stops /\ e.visit = c.visit

LEMMA RunVmCalls ==
  ASSUME WorldTyped, RunVm
  PROVE  \E c \in BagToSet(vm) : Runs(c)
<1> DEFINE E(c) == {[c EXCEPT !.call = n] : n \in Follows(c.call)}
<1>1. PICK c \in BagToSet(vm) :
        /\ \/ c.call = FillSender /\ quest' \in {quest, [quest EXCEPT !.sender = c.visit]}
           \/ c.call = FillAnchor /\ quest' \in {quest, [quest EXCEPT !.anchor = TRUE]}
           \/ c.call = StopQuest  /\ quest' = NoQuest
           \/ c.call \in QuestStages /\ quest' = [quest EXCEPT !.stage = c.call]
        /\ vm' = (vm (-) SetToBag({c})) (+) SetToBag(E(c))
        /\ crossed' = (crossed \/ IF c.call \in {Rollback, Shutdown, StopQuest}
                                  THEN quest.visit \notin {NoVisit, c.visit}
                                  ELSE quest.visit # c.visit)
  BY DEF RunVm
<1>2. CallBag(vm) /\ IsABag(vm) /\ c \in CallType
  BY DEF WorldTyped, CallBag
<1> DEFINE left == vm (-) SetToBag({c})
<1>3. /\ IsABag(left) /\ BagToSet(left) \subseteq BagToSet(vm)
      /\ BagToSet(vm) \ {c} \subseteq BagToSet(left)
      /\ vm[c] = 1 => c \notin BagToSet(left)
      /\ \A e \in BagToSet(vm) \ {c} : left[e] = vm[e]
  BY <1>2, OneCallFewer
<1>4. /\ c.call \notin Stops => E(c) = {}
      /\ E(c) \subseteq CallType
      /\ \A e \in E(c) : c.call \in Stops /\ e.call \in Stops /\ e.visit = c.visit
      /\ c.call \in {Rollback, Shutdown} => E(c) # {}
  <2>1. Follows(c.call) = IF c.call = Rollback THEN {Shutdown} ELSE IF c.call = Shutdown THEN {StopQuest} ELSE {}
    BY DEF Follows, Rollback, Shutdown
  <2>2. CASE c.call = Rollback
    <3>1. E(c) = {[c EXCEPT !.call = Shutdown]}
      BY <2>1, <2>2
    <3>2. [c EXCEPT !.call = Shutdown] \in CallType
      BY <1>2 DEF CallType, QuestStages
    <3> QED BY <1>2, <2>2, <3>1, <3>2 DEF Stops, CallType
  <2>3. CASE c.call = Shutdown
    <3>1. E(c) = {[c EXCEPT !.call = StopQuest]}
      BY <2>1, <2>3 DEF Shutdown, Rollback
    <3>2. [c EXCEPT !.call = StopQuest] \in CallType
      BY <1>2 DEF CallType
    <3> QED BY <1>2, <2>3, <3>1, <3>2 DEF Stops, CallType
  <2>4. CASE c.call \notin {Rollback, Shutdown}
    BY <2>1, <2>4 DEF Stops
  <2> QED BY <2>2, <2>3, <2>4
<1> HIDE DEF left, E
<1>5. vm' = left (+) SetToBag(E(c))
  BY <1>1 DEF left
<1>6. /\ IsABag(vm') /\ BagToSet(vm') = BagToSet(left) \cup E(c)
      /\ \A e \in BagToSet(left) \ E(c) : vm'[e] = left[e]
  BY <1>3, <1>5, MoreCalls
<1>7. CallBag(vm')
  BY <1>2, <1>3, <1>4, <1>6 DEF CallBag
<1>8. c.call \in Stops => quest' = NoQuest \/ Asked(Stops)'
  <2>1. c.call = StopQuest => quest' = NoQuest
    BY <1>1 DEF QuestStages, FillSender, FillAnchor, StopQuest, Salutation, Discuss, Valediction, ReturnHome, Rollback,
       Shutdown
  <2>2. ASSUME c.call \in {Rollback, Shutdown} PROVE Asked(Stops)'
    <3>1. PICK e \in E(c) : e.call \in Stops
      BY <1>4, <2>2
    <3> QED BY <1>6, <3>1 DEF Asked, Stops
  <2> QED BY <2>1, <2>2 DEF Stops
<1>9. ASSUME NEW e \in BagToSet(vm')
      PROVE  \/ e \in BagToSet(vm) /\ (vm[e] = 1 /\ e.call = Salutation => vm'[e] = 1 /\ e # c)
             \/ c.call \in Stops /\ e.call \in Stops /\ e.visit = c.visit
  <2>1. CASE e \in E(c)
    BY <1>4, <2>1
  <2>2. CASE e \in BagToSet(left) \ E(c)
    BY <1>3, <1>6, <2>2
  <2> QED BY <1>6, <2>1, <2>2
<1>10. quest.visit = c.visit \/ (quest.visit = NoVisit /\ c.call \in Stops) \/ crossed'
  BY <1>1 DEF Stops
<1>11. BagToSet(vm) \ {c} \subseteq BagToSet(vm')
  BY <1>3, <1>6
<1> QED BY <1>1, <1>2, <1>7, <1>8, <1>9, <1>10, <1>11 DEF Runs

LEMMA RunVmTyped ==
  ASSUME WorldTyped, RunVm
  PROVE  /\ CallBag(vm')
         /\ quest' \in [visit : Visits \cup {NoVisit}, stage : QuestStages,
                        sender : Visits \cup {NoVisit}, anchor : BOOLEAN]
<1>1. PICK c \in BagToSet(vm) : Runs(c)
  BY RunVmCalls
<1>2. c.visit \in Visits
  BY <1>1 DEF Runs, CallType
<1>3. NoQuest \in [visit : Visits \cup {NoVisit}, stage : QuestStages,
                  sender : Visits \cup {NoVisit}, anchor : BOOLEAN]
  BY DEF NoQuest, QuestStages
<1> QED BY <1>1, <1>2, <1>3 DEF Runs, WorldTyped

\* The poll's counters keep their types, whatever an answer says.
LEMMA PollAnsweredTyped ==
  ASSUME PollTypeOK, NEW v \in Visits, NEW parses, PollAnswered(v, parses)
  PROVE  PollTypeOK' /\ polls[v] > 0
<1>1. armed' \in BOOLEAN /\ failures' \in 0..MaxFailures
  BY PollConstants DEF PollAnswered, OneMore, PollTypeOK
<1>2. polls[v] \in Nat /\ polls[v] > 0 /\ polls' = [polls EXCEPT ![v] = @ - 1]
  BY DEF PollAnswered, PollTypeOK
<1>3. polls' \in [Visits -> Nat]
  <2>1. polls[v] - 1 \in Nat
    BY <1>2
  <2> QED BY <1>2, <2>1 DEF PollTypeOK
<1> QED BY <1>1, <1>2, <1>3 DEF PollTypeOK

LEMMA TypeRest ==
  ASSUME TypeInv, OnStart \/ Answer \/ PollAnswer \/ RunVm \/ Restart
  PROVE  TypeInv'
<1>1. SessionTyped /\ LatchesTyped /\ WorldTyped /\ Begun /\ Checking /\ Waiting
  BY DEF TypeInv
<1> USE <1>1, VisitConstants, PollConstants
<1>a. CASE OnStart
  <2>1. /\ snap' \in [known : BOOLEAN, anchor : BOOLEAN] /\ nudges' \in 0..NudgeCap
        /\ sub' \in SubPhases /\ param' \in BOOLEAN /\ sub' # "VerifyingFill"
    BY <1>a, ResetTyped DEF OnStart, SubPhases
  <2>2. /\ flag' \in FlagType /\ fillTicks' \in 0..FillTicks
        /\ timer' \in [{"salutation", "valediction", "home"} -> Off..TimeoutTicks]
    <3>1. [NoFlags EXCEPT !.inFlight = TRUE] \in FlagType
      BY ResetTyped DEF FlagType
    <3> QED BY <1>a, <3>1, ResetTyped DEF OnStart
  <2>3. session' \in Visits /\ session' # NoVisit /\ stage' \in Stages
    BY <1>a DEF OnStart, NoVisit, Stages
  <2>4. /\ rollback' \in {"none", "now", "unseen"} /\ looked' \in BOOLEAN /\ crossed' \in BOOLEAN
        /\ hold' \in {"Discussing", "OnHold", "ReEngage"} /\ ended' \subseteq Ends
        /\ met' \in BOOLEAN /\ closings' \in Nat
    BY <1>a DEF OnStart, SessionTyped
  <2>5. /\ UNCHANGED <<composes, tasks, busy, restarts, stranded>>
        /\ UNCHANGED world /\ UNCHANGED pollVars
    BY <1>a DEF OnStart
  <2>6. SessionTyped'
    BY <2>1, <2>3, <2>4, <2>5 DEF SessionTyped
  <2>7. LatchesTyped' /\ WorldTyped'
    BY <2>2, <2>5 DEF LatchesTyped, PollTypeOK, pollVars, WorldTyped, world
  <2>8. Begun' /\ Checking' /\ Waiting'
    BY <2>1, <2>3, <2>5 DEF Begun, Checking, Waiting
  <2> QED BY <2>6, <2>7, <2>8 DEF TypeInv
<1>b. CASE Answer
  <2>1. /\ snap' \in [known : BOOLEAN, anchor : BOOLEAN] /\ nudges' \in 0..NudgeCap
        /\ sub' \in {"LLMResultReady", "Failed"}
    <3>1. [known |-> param, anchor |-> FALSE] \in [known : BOOLEAN, anchor : BOOLEAN]
      BY DEF SessionTyped
    <3>2. \/ snap' = [known |-> param, anchor |-> FALSE] /\ nudges' = 0 /\ sub' = "LLMResultReady"
          \/ snap' = snap /\ nudges' = nudges /\ sub' = "Failed"
      BY <1>b DEF Answer, record
    <3> QED BY <3>1, <3>2, ResetTyped DEF SessionTyped
  <2>2. composes' \subseteq Visits /\ crossed' \in BOOLEAN
    BY <1>b DEF Answer, SessionTyped
  <2>3. SessionTyped'
    BY <1>b, <2>1, <2>2 DEF Answer, SessionTyped, latches, SubPhases
  <2>4. LatchesTyped' /\ WorldTyped'
    BY <1>b DEF Answer, LatchesTyped, PollTypeOK, WorldTyped, latches, world, pollVars
  <2>5. Begun' /\ Checking' /\ Waiting'
    BY <1>b, <2>1 DEF Answer, Begun, Checking, Waiting, latches, pollVars
  <2> QED BY <2>3, <2>4, <2>5 DEF TypeInv
<1>c. CASE PollAnswer
  <2>1. PICK v \in Visits : \/ \E op \in {"conclude", "continue"} :
                                 /\ PollAnswered(v, TRUE)
                                 /\ tasks' = Append(tasks, [op |-> op, visit |-> v])
                            \/ PollAnswered(v, FALSE) /\ UNCHANGED tasks
    BY <1>c DEF PollAnswer
  <2>2. PollTypeOK' /\ polls[v] > 0
    <3>1. PollTypeOK /\ (PollAnswered(v, TRUE) \/ PollAnswered(v, FALSE))
      BY <2>1 DEF LatchesTyped
    <3> QED BY <3>1, PollAnsweredTyped
  <2>3. session # NoVisit
    BY <2>2 DEF Begun
  <2>4. \/ tasks' = tasks
        \/ \E op \in {"conclude", "continue"} :
             [op |-> op, visit |-> v] \in TaskType /\ tasks' = Append(tasks, [op |-> op, visit |-> v])
    BY <2>1 DEF TaskType
  <2>5. SessionTyped'
    BY <1>c DEF PollAnswer, SessionTyped, latches, record, world, history
  <2>6. LatchesTyped'
    BY <1>c, <2>2 DEF PollAnswer, LatchesTyped, latches
  <2>7. WorldTyped'
    BY <1>c, <2>4, TaskTyped DEF PollAnswer, WorldTyped, world, history
  <2>8. Checking'
    BY <1>c, <2>4, HeadKept DEF PollAnswer, Checking
  <2>9. Begun' /\ Waiting'
    BY <1>c, <2>3 DEF PollAnswer, Begun, Waiting, latches
  <2> QED BY <2>5, <2>6, <2>7, <2>8, <2>9 DEF TypeInv
<1>d. CASE RunVm
  <2>1. crossed' \in BOOLEAN
    BY <1>d DEF RunVm, SessionTyped
  <2>2. CallBag(vm')
    BY <1>d, RunVmTyped
  <2>3. SessionTyped'
    BY <1>d, <2>1 DEF RunVm, SessionTyped, latches, record
  <2>4. LatchesTyped'
    BY <1>d DEF RunVm, LatchesTyped, PollTypeOK, latches, pollVars
  <2>5. WorldTyped'
    BY <1>d, <2>2, RunVmTyped DEF RunVm, WorldTyped
  <2>6. Begun' /\ Checking' /\ Waiting'
    BY <1>d DEF RunVm, Begun, Checking, Waiting, latches, pollVars
  <2> QED BY <2>3, <2>4, <2>5, <2>6 DEF TypeInv
<1>e. CASE Restart
  <2>1. /\ flag' \in FlagType /\ fillTicks' \in 0..FillTicks
        /\ timer' \in [{"salutation", "valediction", "home"} -> Off..TimeoutTicks]
    BY <1>e, ResetTyped DEF Restart
  <2>2. PollTypeOK'
    <3>1. armed' = FALSE /\ failures' = 0 /\ polls' = [v \in Visits |-> 0]
      BY <1>e DEF Restart
    <3> QED BY <3>1, ResetTyped DEF PollTypeOK
  <2>3. /\ sub' = "Start" /\ param' \in BOOLEAN /\ composes' \subseteq Visits
        /\ restarts' \in 0..MaxRestarts
    <3>1. restarts < MaxRestarts /\ restarts' = restarts + 1
      BY <1>e DEF Restart
    <3>2. sub' = "Start" /\ param' = FALSE /\ composes' = {}
      BY <1>e DEF Restart
    <3>3. restarts' \in 0..MaxRestarts
      BY <3>1 DEF SessionTyped
    <3> QED BY <3>2, <3>3
  <2>4. /\ rollback' = "none" /\ looked' = FALSE /\ hold' = "Discussing" /\ tasks' = <<>> /\ ~busy
        /\ UNCHANGED <<stage, session, busy, ended, met, closings, crossed>>
        /\ UNCHANGED record /\ UNCHANGED world
    BY <1>e DEF Restart
  <2>5. stranded' \subseteq Visits
    BY <1>e DEF Restart, WorldTyped
  <2>6. SessionTyped'
    BY <2>3, <2>4 DEF SessionTyped, SubPhases, record
  <2>7. LatchesTyped' /\ WorldTyped'
    BY <2>1, <2>2, <2>4, <2>5 DEF LatchesTyped, WorldTyped, world
  <2>8. Begun' /\ Checking' /\ Waiting'
    BY <1>e, <2>3, <2>4 DEF Restart, Begun, Checking, Waiting
  <2> QED BY <2>6, <2>7, <2>8 DEF TypeInv
<1> QED BY <1>a, <1>b, <1>c, <1>d, <1>e

LEMMA TypeSinks ==
  ASSUME TypeInv, Death \/ FastTravel \/ Abort
  PROVE  TypeInv'
<1>1. session \in Visits /\ session # NoVisit
  <2>1. CASE Death
    BY <2>1, PollConstants DEF Death, NoVisit
  <2>2. CASE FastTravel
    BY <2>2, Acting DEF FastTravel
  <2>3. CASE Abort
    BY <2>3, Acting DEF Abort
  <2> QED BY <2>1, <2>2, <2>3
<1>2. SessionTyped /\ LatchesTyped /\ WorldTyped /\ Begun /\ Checking /\ Waiting
  BY DEF TypeInv
<1> DEFINE f == [flag EXCEPT !.inFlight = FALSE]
<1>3. flag \in FlagType /\ f \in FlagType
  BY <1>2 DEF LatchesTyped, FlagType
<1>4. \/ /\ UNCHANGED <<flag, away, vm, ended, crossed, pollVars>>
      \/ HardAbortVisit(flag, "aborted") \/ RunReturnHomeShutdown(flag) \/ HardAbortVisit(f, "aborted")
  BY DEF Death, FastTravel, Abort
<1> HIDE DEF f
<1>5. /\ away' \subseteq Visits /\ CallBag(vm') /\ ended' \subseteq Ends
      /\ crossed' \in BOOLEAN /\ flag' \in FlagType /\ PollTypeOK' /\ polls' = polls
  <2>1. CASE UNCHANGED <<flag, away, vm, ended, crossed, pollVars>>
    BY <1>2, <2>1 DEF SessionTyped, LatchesTyped, WorldTyped, PollTypeOK, pollVars
  <2>2. CASE HardAbortVisit(flag, "aborted") \/ RunReturnHomeShutdown(flag)
    BY <1>1, <1>2, <1>3, <2>2, DownTyped
  <2>3. CASE HardAbortVisit(f, "aborted")
    BY <1>1, <1>2, <1>3, <2>3, DownTyped
  <2> QED BY <1>4, <2>1, <2>2, <2>3
<1>6. /\ UNCHANGED beside \/ (/\ stage' = "NOT_RUNNING" /\ stranded' \subseteq Visits
                              /\ UNCHANGED <<session, sub, param, looked, timer, hold, fillTicks, composes,
                                              tasks, busy, quest, restarts, met, closings>>)
      /\ stage' \in {stage, "NOT_RUNNING"} /\ rollback' \in {"none", "now", "unseen"}
      /\ dead' \subseteq Visits
      /\ snap' \in [known : BOOLEAN, anchor : BOOLEAN] /\ nudges' \in 0..NudgeCap
  <2> USE <1>1, <1>2 DEF SessionTyped, WorldTyped
  <2>1. CASE Death
    BY <2>1 DEF Death, record
  <2>2. CASE FastTravel
    BY <2>2 DEF FastTravel, record, Requested
  <2>3. CASE Abort
    <3>1. snap' \in [known : BOOLEAN, anchor : BOOLEAN] /\ nudges' \in 0..NudgeCap
      BY <2>3, VisitConstants DEF Abort, NoSnap
    <3>2. stranded' \subseteq Visits
      BY <2>3 DEF Abort
    <3> QED BY <2>3, <3>1, <3>2 DEF Abort
  <2> QED BY <2>1, <2>2, <2>3
<1>7. SessionTyped'
  BY <1>2, <1>5, <1>6 DEF SessionTyped, beside, Stages
<1>8. LatchesTyped' /\ WorldTyped'
  BY <1>2, <1>5, <1>6 DEF LatchesTyped, WorldTyped, beside
<1>9. Begun' /\ Checking' /\ Waiting'
  BY <1>1, <1>2, <1>6 DEF Begun, Checking, Waiting, beside
<1> QED BY <1>7, <1>8, <1>9 DEF TypeInv

LEMMA TypeStep == TypeInv /\ [Next]_vars => TypeInv'
<1> SUFFICES ASSUME TypeInv, [Next]_vars PROVE TypeInv'
  OBVIOUS
<1>1. CASE UNCHANGED vars
  BY <1>1 DEF vars, latches, record, world, history, pollVars, TypeInv, SessionTyped, LatchesTyped, PollTypeOK,
     WorldTyped, Begun, Checking, Waiting
<1>2. CASE Next
  BY <1>2, TypeCompose, TypeTicks, TypeTasks, TypeRest, TypeSinks DEF Next, Ticks, Checks
<1> QED BY <1>1, <1>2

\* TypeOK, with what it rests on: nobody acts before the first visit, the check
\* under way is the first task, and a fill is given up on in time.
THEOREM VisitTypes == Spec => []TypeOK
<1>1. Spec => []TypeInv
  BY TypeInit, TypeStep, PTL DEF Spec
<1> QED BY <1>1, TypeInvTyped, PTL

-----------------------------------------------------------------------------
(* One goodbye, and what the meeting leaves behind.                        *)

\* The two lines are as said, or unsaid, as before, and the opening line's
\* latch is not let go while Papyrus has the stage to move on.
Kept ==
  /\ flag'.salutation = flag.salutation /\ flag'.valediction = flag.valediction
  /\ flag.latch /\ quest.stage = Salutation => flag'.latch
  /\ UNCHANGED <<param, met, closings>>

\* The ways down touch two latches.
LEMMA DownKeeps ==
  ASSUME NEW f \in FlagType, NEW why \in {"aborted", "broken"},
         RollBackVisit(f) \/ HardAbortVisit(f, why) \/ RunReturnHomeShutdown(f)
  PROVE  \A n \in FlagNames \ {"hardAbort", "terminal"} : flag'[n] = f[n]
<1>1. flag' \in {f, [f EXCEPT !.terminal = TRUE], [f EXCEPT !.hardAbort = TRUE, !.terminal = TRUE]}
  BY DEF RollBackVisit, HardAbortVisit, RunReturnHomeShutdown
<1> QED BY <1>1 DEF FlagType

LEMMA LatchSteps ==
  ASSUME TypeInv, [Next]_vars
  PROVE  \/ OnStart \/ Restart \/ Kept
         \/ \E mode \in Checks : Check(mode) /\ Meets /\ UNCHANGED <<param, closings>>
         \/ \E op \in {"conclude", "continue"} : Verdict(op) /\ SaysGoodbye /\ UNCHANGED <<param, met>>
<1>1. flag \in FlagType /\ Dropped \in FlagType
  BY DEF TypeInv, LatchesTyped, Dropped, FlagType
<1>2. /\ Dropped.salutation = flag.salutation /\ Dropped.valediction = flag.valediction
      /\ Dropped.latch = (flag.latch /\ quest.stage = Salutation)
  BY <1>1 DEF Dropped, FlagType, FlagNames
<1>3. {"salutation", "valediction", "latch"} \subseteq FlagNames \ {"hardAbort", "terminal"}
  BY DEF FlagNames
<1>4. CASE UNCHANGED <<flag, param, met, closings>>
  BY <1>4 DEF Kept
<1>5. CASE \E n \in FlagNames \ {"salutation", "valediction", "latch"}, b \in BOOLEAN :
              flag' = [flag EXCEPT ![n] = b] /\ UNCHANGED <<param, met, closings>>
  BY <1>1, <1>5 DEF Kept, FlagType
<1>6. CASE ComposeSteps \/ TickWatches \/ TickTerminal \/ UNCHANGED vars \/ Cleanup \/ Answer \/ PollAnswer \/ RunVm
  BY <1>4, <1>6 DEF ComposeSteps, TickRolledBack, TickCompose, TickSelects, TickStartQuest, TickWarp, TickVerifyFill,
     TickArm, TickComposed, ComposeTick, TickWatches, TickTerminal, vars, Cleanup, Answer, PollAnswer, RunVm,
     latches, history
<1>7. CASE TickCleanupDone \/ TickCleanup \/ CheckBegins
  <2>1. /\ UNCHANGED <<param, met, closings>>
        /\ flag' \in {[flag EXCEPT !.inFlight = FALSE], [flag EXCEPT !.terminal = TRUE], [flag EXCEPT !.task = FALSE]}
    BY <1>7 DEF TickCleanupDone, TickCleanup, CheckBegins, history
  <2> QED BY <1>5, <2>1 DEF FlagNames
<1>8. ASSUME NEW mode \in Checks, NEW checks \in BOOLEAN, TickRunning(mode, checks) PROVE Kept
  <2>1. UNCHANGED <<param, met, closings>> /\ flag' \in {flag, [flag EXCEPT !.task = TRUE]}
    BY <1>8 DEF TickRunning, history
  <2>3. CASE flag' = flag
    BY <2>1, <2>3 DEF Kept
  <2>4. CASE flag' = [flag EXCEPT !.task = TRUE]
    BY <1>1, <2>1, <2>4 DEF Kept, FlagType, FlagNames
  <2> QED BY <2>1, <2>3, <2>4
<1>9. ASSUME NEW mode \in Checks, Check(mode) PROVE Kept \/ (Meets /\ UNCHANGED <<param, closings>>)
  <2>1. UNCHANGED <<param, closings>>
    BY <1>9 DEF Check
  <2>2. ASSUME NEW g \in {flag, Dropped}, GoesOn(g) \/ GoesDown(g) PROVE Kept
    <3>1. flag'.salutation = g.salutation /\ flag'.valediction = g.valediction /\ flag'.latch = g.latch /\ met' = met
      BY <1>1, <1>3, <2>2, DownKeeps DEF GoesOn, GoesDown
    <3> QED BY <1>2, <2>1, <3>1 DEF Kept
  <2>3. CASE Parts
    BY <1>2, <2>1, <2>3 DEF Parts, Kept
  <2> QED BY <1>9, <2>1, <2>2, <2>3, CheckDoes
<1>10. ASSUME NEW op \in {"conclude", "continue"}, Verdict(op)
       PROVE  Kept \/ (SaysGoodbye /\ UNCHANGED <<param, met>>)
  <2>1. UNCHANGED <<param, met>>
    BY <1>10 DEF Verdict
  <2>2. SaysGoodbye \/ UNCHANGED <<vm, flag, timer, closings>>
    BY <1>10, VerdictDoes
  <2>3. CASE SaysGoodbye
    BY <2>1, <2>3
  <2>4. CASE UNCHANGED <<vm, flag, timer, closings>>
    BY <2>1, <2>4 DEF Kept
  <2> QED BY <2>2, <2>3, <2>4
<1>11. CASE Death \/ FastTravel \/ Abort
  <2> DEFINE f == [flag EXCEPT !.inFlight = FALSE]
  <2>1. /\ f \in FlagType /\ f.salutation = flag.salutation /\ f.valediction = flag.valediction
        /\ f.latch = flag.latch
    BY <1>1 DEF FlagType, FlagNames
  <2>2. \/ flag' = flag
        \/ HardAbortVisit(flag, "aborted") \/ RunReturnHomeShutdown(flag) \/ HardAbortVisit(f, "aborted")
    BY <1>11 DEF Death, FastTravel, Abort
  <2>3. UNCHANGED <<param, met, closings>>
    BY <1>11 DEF Death, FastTravel, Abort, beside
  <2> HIDE DEF f
  <2>4. CASE HardAbortVisit(flag, "aborted") \/ RunReturnHomeShutdown(flag)
    BY <1>1, <1>3, <2>3, <2>4, DownKeeps DEF Kept
  <2>5. CASE HardAbortVisit(f, "aborted")
    BY <1>3, <2>1, <2>3, <2>5, DownKeeps DEF Kept
  <2> QED BY <1>4, <2>2, <2>3, <2>4, <2>5
<1> QED BY <1>6, <1>7, <1>8, <1>9, <1>10, <1>11 DEF Next, Ticks, Tasks, Checks

LEMMA RememberedStep ==
  ASSUME TypeInv, Remembered, [Next]_vars
  PROVE  Remembered'
<1>1. flag \in FlagType /\ Dropped \in FlagType /\ Dropped.valediction = flag.valediction
  BY DEF TypeInv, LatchesTyped, Dropped, FlagType, FlagNames
<1>2. CASE OnStart
  BY <1>2 DEF OnStart, Remembered, Whole, NoFlags, FlagNames
<1>3. CASE Restart
  BY <1>3 DEF Restart, Remembered, Whole
<1>4. CASE Kept
  BY <1>4 DEF Kept, Remembered, Whole
<1>5. CASE Meets /\ UNCHANGED <<param, closings>>
  <2>1. flag'.salutation /\ flag'.valediction = flag.valediction
    BY <1>1, <1>5 DEF Meets, FlagType, FlagNames
  <2> QED BY <1>5, <2>1 DEF Meets, Remembered, Whole
<1>6. CASE SaysGoodbye /\ UNCHANGED <<param, met>>
  <2>1. flag'.valediction /\ flag'.salutation = flag.salutation
    BY <1>1, <1>6 DEF SaysGoodbye, FlagType, FlagNames
  <2> QED BY <1>6, <2>1 DEF SaysGoodbye, Remembered, Whole
<1> QED BY <1>2, <1>3, <1>4, <1>5, <1>6, LatchSteps

LEMMA RememberedHolds == Spec => [](TypeInv /\ Remembered)
<1>1. Init => Remembered
  BY DEF Init, Remembered, Whole, NoFlags, FlagNames
<1> QED BY <1>1, TypeInit, TypeStep, RememberedStep, PTL DEF Spec

\* ClosesOnce: however the verdicts, the nudges and the interruptions of a
\* session fall, the closing line is dispatched once.
THEOREM OneGoodbye == Spec => []ClosesOnce
<1>1. Remembered => ClosesOnce
  BY DEF Remembered, ClosesOnce
<1> QED BY <1>1, RememberedHolds, PTL

-----------------------------------------------------------------------------
(* What a step does to the calls that wait and the tasks in line.           *)

LEMMA Appended ==
  ASSUME NEW S, NEW s \in Seq(S), NEW e \in S, NEW t, t = Append(s, e)
  PROVE  /\ Len(s) \in Nat /\ DOMAIN s = 1..Len(s) /\ DOMAIN t = 1..(Len(s) + 1)
         /\ \A i \in DOMAIN s : t[i] = s[i]
         /\ t[Len(s) + 1] = e
BY AppendProperties, LenProperties

LEMMA Popped ==
  ASSUME NEW S, NEW s \in Seq(S), s # <<>>, NEW t, t = Tail(s)
  PROVE  /\ Len(s) \in Nat \ {0} /\ DOMAIN s = 1..Len(s) /\ DOMAIN t = 1..(Len(s) - 1)
         /\ \A i \in DOMAIN t : t[i] = s[i + 1]
         /\ Head(s) = s[1]
<1>1. Len(s) \in Nat \ {0} /\ DOMAIN s = 1..Len(s)
  BY EmptySeq, LenProperties
<1>2. Tail(s) \in Seq(S) /\ Len(Tail(s)) = Len(s) - 1 /\ Head(s) = s[1]
      /\ \A i \in 1..Len(Tail(s)) : Tail(s)[i] = s[i + 1]
  BY HeadTailProperties
<1>3. DOMAIN Tail(s) = 1..Len(Tail(s))
  BY <1>2, LenProperties
<1> QED BY <1>1, <1>2, <1>3

\* Nothing that was crossed is set right again.
LEMMA Crossing ==
  ASSUME TypeInv, [Next]_vars, Uncrossed'
  PROVE  Uncrossed
<1>1. crossed \in BOOLEAN
  BY DEF TypeInv, SessionTyped
<1>2. ASSUME NEW f, NEW why, RollBackVisit(f) \/ HardAbortVisit(f, why) \/ RunReturnHomeShutdown(f)
      PROVE  ~crossed
  BY <1>1, <1>2 DEF Uncrossed, RollBackVisit, HardAbortVisit, RunReturnHomeShutdown, Dispatch
<1>3. CASE UNCHANGED crossed
  BY <1>3 DEF Uncrossed
<1>4. CASE ComposeSteps \/ TickWatches
  BY <1>1, <1>4 DEF ComposeSteps, TickRolledBack, TickCompose, TickSelects, TickStartQuest, TickWarp, TickVerifyFill,
     TickArm, TickComposed, ComposeTick, TickWatches, history, Dispatch, Uncrossed
<1>5. CASE TickTerminal \/ TickCleanupDone \/ TickCleanup \/ UNCHANGED vars
           \/ \E mode \in Checks, checks \in BOOLEAN : TickRunning(mode, checks)
  BY <1>1, <1>5 DEF TickTerminal, TickCleanupDone, TickCleanup, TickRunning, history, vars, Uncrossed
<1>6. ASSUME NEW mode \in Checks, Check(mode) PROVE ~crossed
  <2>1. CASE \E g \in {flag, Dropped} : GoesOn(g)
    BY <2>1, <1>3 DEF GoesOn, Uncrossed
  <2>2. ASSUME NEW g \in {flag, Dropped}, GoesDown(g) PROVE ~crossed
    BY <2>2, <1>2 DEF GoesDown
  <2>3. CASE Meets \/ Parts
    BY <1>1, <2>3 DEF Meets, Parts, Dispatch, Uncrossed
  <2> QED BY <1>6, <2>1, <2>2, <2>3, CheckDoes
<1>7. CASE CheckBegins \/ Cleanup \/ Answer \/ PollAnswer \/ RunVm \/ Restart \/ OnStart
           \/ \E op \in {"conclude", "continue"} : Verdict(op)
  BY <1>1, <1>7 DEF CheckBegins, Cleanup, Answer, PollAnswer, RunVm, Restart, OnStart, Verdict, history, Uncrossed
<1>8. CASE Death \/ FastTravel \/ Abort
  BY <1>2, <1>3, <1>8 DEF Death, FastTravel, Abort, Uncrossed
<1> QED BY <1>4, <1>5, <1>6, <1>7, <1>8 DEF Next, Ticks, Tasks, Checks, Uncrossed

Sends(C) == \E c \in C : vm' = vm (+) SetToBag({Call(c)}) /\ quest' = quest /\ session' = session
Lines    == {Discuss, Valediction, ReturnHome}

LEMMA DownSends ==
  ASSUME NEW f, NEW why, RollBackVisit(f) \/ HardAbortVisit(f, why) \/ RunReturnHomeShutdown(f)
  PROVE  vm' = vm \/ \E c \in {Rollback, Shutdown} : vm' = vm (+) SetToBag({Call(c)})
BY DEF RollBackVisit, HardAbortVisit, RunReturnHomeShutdown, Dispatch, Send

LEMMA VmSteps ==
  ASSUME TypeInv, [Next]_vars
  PROVE  \/ vm' = vm /\ quest' = quest
         \/ TickStartQuest /\ quest.visit = NoVisit /\ vm' = vm (+) SetToBag({Call(Salutation)})
            /\ quest' = [quest EXCEPT !.visit = session, !.stage = 0] /\ session' = session /\ sub' = "Warping"
         \/ TickWarp /\ quest' = quest /\ session' = session
         \/ RunVm
         \/ Sends(Lines) \/ Sends({Rollback, Shutdown})
         \/ Restart /\ vm' = EmptyBag /\ quest' = quest /\ session' = session
<1>1. CASE TickRolledBack \/ TickCompose \/ TickSelects \/ TickArm \/ TickComposed \/ TickWatches \/ TickTerminal
           \/ TickCleanupDone \/ TickCleanup \/ CheckBegins \/ UNCHANGED vars
  BY <1>1 DEF TickRolledBack, TickCompose, TickSelects, TickArm, TickComposed, TickWatches, TickTerminal, TickCleanupDone,
     TickCleanup, CheckBegins, world, vars
<1>2. CASE TickStartQuest
  BY <1>2 DEF TickStartQuest, ComposeTick, Dispatch, Send
<1>3. CASE TickWarp
  BY <1>3 DEF TickWarp, ComposeTick
<1>4. CASE TickVerifyFill
  BY <1>4 DEF TickVerifyFill, ComposeTick, Dispatch, Send, Sends
<1>5. ASSUME NEW mode \in Checks, NEW checks \in BOOLEAN, TickRunning(mode, checks) PROVE vm' = vm /\ quest' = quest
  BY <1>5 DEF TickRunning, world
<1>6. ASSUME NEW mode \in Checks, Check(mode)
      PROVE  (vm' = vm /\ quest' = quest) \/ Sends(Lines) \/ Sends({Rollback, Shutdown})
  <2>1. quest' = quest /\ session' = session
    BY <1>6 DEF Check
  <2>2. CASE \E g \in {flag, Dropped} : GoesOn(g)
    BY <2>1, <2>2 DEF GoesOn
  <2>3. ASSUME NEW g \in {flag, Dropped}, GoesDown(g) PROVE vm' = vm \/ Sends({Rollback, Shutdown})
    BY <2>1, <2>3, DownSends DEF GoesDown, Sends
  <2>4. CASE Meets \/ Parts
    BY <2>1, <2>4 DEF Meets, Parts, Dispatch, Send, Sends, Lines
  <2> QED BY <1>6, <2>1, <2>2, <2>3, <2>4, CheckDoes
<1>7. ASSUME NEW op \in {"conclude", "continue"}, Verdict(op) PROVE (vm' = vm /\ quest' = quest) \/ Sends(Lines)
  <2>1. quest' = quest /\ session' = session
    BY <1>7 DEF Verdict
  <2> QED BY <1>7, <2>1, VerdictDoes DEF SaysGoodbye, Sends, Lines
<1>8. CASE Cleanup
  BY <1>8 DEF Cleanup, Send, Sends
<1>9. CASE Answer \/ PollAnswer \/ OnStart
  BY <1>9 DEF Answer, PollAnswer, OnStart, world
<1>10. CASE Restart
  BY <1>10 DEF Restart, world
<1>11. CASE Death \/ FastTravel \/ Abort
  <2>1. quest' = quest /\ session' = session
    BY <1>11 DEF Death, FastTravel, Abort, beside
  <2>2. vm' = vm \/ \E c \in {Rollback, Shutdown} : vm' = vm (+) SetToBag({Call(c)})
    BY <1>11, DownSends DEF Death, FastTravel, Abort
  <2> QED BY <2>1, <2>2 DEF Sends
<1> QED BY <1>1, <1>2, <1>3, <1>4, <1>5, <1>6, <1>7, <1>8, <1>9, <1>10, <1>11 DEF Next, ComposeSteps, Ticks, Tasks, Checks

-----------------------------------------------------------------------------
(* Whose is what, kept by every step.                                      *)

LEMMA Beginning ==
  ASSUME TypeInv, [Next]_vars
  PROVE  \/ OnStart \/ RunVm \/ Answer \/ PollAnswer \/ UNCHANGED vars
         \/ session \in Visits /\ session' = session
<1>1. CASE ComposeSteps \/ TickWatches
  <2>1. stage = "COMPOSE" /\ session' = session
    BY <1>1 DEF ComposeSteps, TickRolledBack, TickCompose, TickSelects, TickStartQuest, TickWarp, TickVerifyFill,
       TickArm, TickComposed, ComposeTick, TickWatches
  <2> QED BY <2>1, Acting
<1>2. CASE TickTerminal \/ TickCleanupDone \/ TickCleanup
           \/ \E mode \in Checks, checks \in BOOLEAN : TickRunning(mode, checks)
  BY <1>2, Acting DEF TickTerminal, TickCleanupDone, TickCleanup, TickRunning
<1>3. CASE Tasks
  <2>1. (busy \/ tasks # <<>>) /\ session' = session
    BY <1>3 DEF Tasks, CheckBegins, Check, Verdict, Cleanup
  <2> QED BY <2>1, Acting
<1>4. CASE Death
  BY <1>4 DEF Death, beside
<1>5. CASE FastTravel \/ Abort \/ Restart
  BY <1>5, Acting DEF FastTravel, Abort, Restart, beside
<1> QED BY <1>1, <1>2, <1>3, <1>4, <1>5 DEF Next, Ticks, Checks

\* Every other step leaves the calls where they are and adds to them.
New(e) ==
  /\ session \in Visits /\ session' = session
  /\ \/ \E c \in Lines \cup {FillSender, FillAnchor} : e = Call(c)
     \/ Sends({Rollback, Shutdown}) /\ \E c \in {Rollback, Shutdown} : e = Call(c)
     \/ TickStartQuest /\ sub' = "Warping" /\ e = Call(Salutation)
Behind ==
  /\ BagToSet(vm) \subseteq BagToSet(vm')
  /\ \A e \in BagToSet(vm') :
       \/ e \in BagToSet(vm) /\ vm'[e] = vm[e]
       \/ New(e) /\ (e \notin BagToSet(vm) => vm'[e] = 1)

LEMMA AddsBehind ==
  ASSUME WorldTyped, NEW E, vm' = vm (+) SetToBag(E), \A e \in E : New(e)
  PROVE  Behind
<1>1. IsABag(vm)
  BY DEF WorldTyped, CallBag
<1>2. /\ BagToSet(vm') = BagToSet(vm) \cup E
      /\ \A e \in BagToSet(vm) \ E : vm'[e] = vm[e]
      /\ \A e \in E \ BagToSet(vm) : vm'[e] = 1
  BY <1>1, MoreCalls
<1> QED BY <1>2 DEF Behind

LEMMA VmGrows ==
  ASSUME TypeInv, [Next]_vars, ~RunVm
  PROVE  (Restart /\ vm' = EmptyBag) \/ Behind
<1>1. WorldTyped
  BY DEF TypeInv
<1>2. CASE vm' = vm
  BY <1>2 DEF Behind
<1>3. CASE session \in Visits /\ (Sends(Lines) \/ Sends({Rollback, Shutdown}))
  <2>1. PICK c \in Lines \cup {Rollback, Shutdown} :
          /\ vm' = vm (+) SetToBag({Call(c)}) /\ session' = session
          /\ c \in Lines \/ Sends({Rollback, Shutdown})
    BY <1>3 DEF Sends
  <2>2. New(Call(c))
    BY <1>3, <2>1 DEF New
  <2> QED BY <1>1, <2>1, <2>2, AddsBehind
<1>4. CASE /\ TickStartQuest /\ vm' = vm (+) SetToBag({Call(Salutation)})
           /\ session' = session /\ sub' = "Warping" /\ session \in Visits
  <2>1. New(Call(Salutation))
    BY <1>4 DEF New
  <2> QED BY <1>1, <1>4, <2>1, AddsBehind
<1>5. CASE TickWarp /\ session \in Visits /\ session' = session
  <2>1. \A e \in {Call(c) : c \in Fills} : New(e)
    BY <1>5 DEF New, Fills
  <2>2. vm' = vm \/ vm' = vm (+) SetToBag({Call(c) : c \in Fills})
    BY <1>5 DEF TickWarp
  <2> QED BY <1>1, <1>2, <2>1, <2>2, AddsBehind
<1>6. CASE OnStart \/ Answer \/ PollAnswer \/ UNCHANGED vars
  BY <1>2, <1>6 DEF OnStart, Answer, PollAnswer, vars, world
<1> QED BY <1>2, <1>3, <1>4, <1>5, <1>6, Beginning, VmSteps

\* The calls of the next state, by whose they are.
LEMMA VmCalls ==
  ASSUME TypeInv, [Next]_vars, NEW e \in BagToSet(vm')
  PROVE  (\E c \in BagToSet(vm) : e.visit = c.visit) \/ e.visit = session
<1>1. CASE RunVm
  <2>1. PICK c \in BagToSet(vm) : Runs(c)
    BY <1>1, RunVmCalls DEF TypeInv
  <2> QED BY <2>1 DEF Runs
<1>2. CASE Behind
  BY <1>2 DEF Behind, New, Call
<1>3. CASE vm' = EmptyBag
  BY <1>3, NoCalls
<1> QED BY <1>1, <1>2, <1>3, VmGrows

\* The stages of a session: a new one is composed, and what is over stays over.
LEMMA StageSteps ==
  ASSUME TypeInv, [Next]_vars
  PROVE  \/ OnStart
         \/ /\ session' = session
            /\ stage' = "COMPOSE" => stage = "COMPOSE"
            /\ stage' = "RUNNING" => stage = "RUNNING" \/ (stage = "COMPOSE" /\ sub = "Succeeded")
            /\ stage \in {"CLEANUP", "NOT_RUNNING"} => stage' \in {"CLEANUP", "NOT_RUNNING"}
            /\ stage = "NOT_RUNNING" => stage' = "NOT_RUNNING"
<1>1. CASE ComposeSteps \/ TickWatches
  BY <1>1 DEF ComposeSteps, TickRolledBack, TickCompose, TickSelects, TickStartQuest, TickWarp, TickVerifyFill,
     TickArm, TickComposed, ComposeTick, TickWatches
<1>2. CASE TickTerminal \/ TickCleanupDone \/ TickCleanup \/ UNCHANGED vars
           \/ \E mode \in Checks, checks \in BOOLEAN : TickRunning(mode, checks)
  BY <1>2 DEF TickTerminal, TickCleanupDone, TickCleanup, TickRunning, vars
<1>3. CASE Tasks
  BY <1>3 DEF Tasks, CheckBegins, Check, Verdict, Cleanup
<1>4. CASE Answer \/ PollAnswer \/ RunVm \/ Restart
  BY <1>4 DEF Answer, PollAnswer, RunVm, Restart
<1>5. CASE Death \/ FastTravel \/ Abort
  BY <1>5 DEF Death, FastTravel, Abort, beside
<1> QED BY <1>1, <1>2, <1>3, <1>4, <1>5 DEF Next, Ticks, Checks

\* The tasks and the polls of the next state.
LEMMA TaskSteps ==
  ASSUME TypeInv, [Next]_vars
  PROVE  \/ tasks' = tasks
         \/ /\ tasks # <<>> /\ tasks' = Tail(tasks)
            /\ \/ Cleanup \/ \E mode \in Checks : Check(mode)
               \/ \E op \in {"conclude", "continue"} : Verdict(op)
         \/ Restart /\ tasks' = <<>>
         \/ \E t \in TaskType :
              /\ tasks' = Append(tasks, t) /\ session' = session /\ stage' = stage
              /\ \/ t.visit = session /\ stage = "RUNNING" /\ t.op \in Checks
                 \/ t.visit = session /\ stage = "CLEANUP"
                 \/ polls[t.visit] > 0 /\ t.op \notin Checks \cup {"cleanup"}
<1>1. CASE ComposeSteps \/ TickWatches
  BY <1>1 DEF ComposeSteps, TickRolledBack, TickCompose, TickSelects, TickStartQuest, TickWarp, TickVerifyFill,
     TickArm, TickComposed, ComposeTick, TickWatches
<1>2. CASE TickTerminal \/ TickCleanupDone \/ UNCHANGED vars \/ OnStart \/ RunVm \/ Answer \/ Restart
  BY <1>2 DEF TickTerminal, TickCleanupDone, vars, OnStart, RunVm, Answer, Restart
<1>3. CASE TickCleanup
  <2>1. session \in Visits
    BY <1>3, Acting DEF TickCleanup
  <2>2. Task("cleanup") \in TaskType /\ Task("cleanup").visit = session
    BY <2>1 DEF Task, TaskType
  <2> QED BY <1>3, <2>2 DEF TickCleanup
<1>4. ASSUME NEW mode \in Checks, NEW checks \in BOOLEAN, TickRunning(mode, checks)
      PROVE  \/ tasks' = tasks
             \/ \E t \in TaskType :
                  /\ tasks' = Append(tasks, t) /\ session' = session /\ stage' = stage
                  /\ t.visit = session /\ stage = "RUNNING" /\ t.op \in Checks
  <2>1. session \in Visits
    BY <1>4, Acting DEF TickRunning
  <2>2. Task(mode) \in TaskType /\ Task(mode).visit = session /\ Task(mode).op \in Checks
    BY <2>1 DEF Task, TaskType, Checks
  <2> QED BY <1>4, <2>2 DEF TickRunning
<1>5. CASE Tasks
  <2>1. CASE CheckBegins
    BY <2>1 DEF CheckBegins
  <2>2. ASSUME NEW mode \in Checks, Check(mode) PROVE tasks # <<>> /\ tasks' = Tail(tasks)
    BY <2>2 DEF Check, TypeInv, Checking
  <2>3. ASSUME NEW op \in {"conclude", "continue"}, Verdict(op) PROVE tasks # <<>> /\ tasks' = Tail(tasks)
    BY <2>3 DEF Verdict
  <2>4. CASE Cleanup
    BY <2>4 DEF Cleanup
  <2> QED BY <1>5, <2>1, <2>2, <2>3, <2>4 DEF Tasks, Checks
<1>6. CASE PollAnswer
  <2>1. PICK v \in Visits : \/ \E op \in {"conclude", "continue"} :
                                 /\ PollAnswered(v, TRUE)
                                 /\ tasks' = Append(tasks, [op |-> op, visit |-> v])
                            \/ PollAnswered(v, FALSE) /\ UNCHANGED tasks
    BY <1>6 DEF PollAnswer
  <2>2. polls[v] > 0 /\ session' = session /\ stage' = stage
    BY <1>6, <2>1 DEF PollAnswered, PollAnswer
  <2>3. \A op \in {"conclude", "continue"} :
          /\ [op |-> op, visit |-> v] \in TaskType
          /\ [op |-> op, visit |-> v].visit = v /\ [op |-> op, visit |-> v].op \notin Checks \cup {"cleanup"}
    BY DEF TaskType, Checks
  <2> QED BY <2>1, <2>2, <2>3
<1>7. CASE Death \/ FastTravel \/ Abort
  BY <1>7 DEF Death, FastTravel, Abort, beside
<1> QED BY <1>1, <1>2, <1>3, <1>4, <1>5, <1>6, <1>7 DEF Next, Ticks, Checks

\* A check begins, or was under way.
LEMMA BusySteps ==
  ASSUME TypeInv, [Next]_vars, busy'
  PROVE  busy \/ CheckBegins
<1>1. CASE ComposeSteps \/ TickWatches
  BY <1>1 DEF ComposeSteps, TickRolledBack, TickCompose, TickSelects, TickStartQuest, TickWarp, TickVerifyFill,
     TickArm, TickComposed, ComposeTick, TickWatches
<1>2. CASE TickTerminal \/ TickCleanupDone \/ TickCleanup \/ UNCHANGED vars \/ OnStart \/ RunVm \/ Answer \/ Restart
           \/ PollAnswer \/ \E mode \in Checks, checks \in BOOLEAN : TickRunning(mode, checks)
  BY <1>2 DEF TickTerminal, TickCleanupDone, TickCleanup, TickRunning, vars, OnStart, RunVm, Answer, Restart, PollAnswer
<1>3. CASE Tasks
  BY <1>3 DEF Tasks, Check, Verdict, Cleanup
<1>4. CASE Death \/ FastTravel \/ Abort
  BY <1>4 DEF Death, FastTravel, Abort, beside
<1> QED BY <1>1, <1>2, <1>3, <1>4 DEF Next, Ticks, Checks

LEMMA TasksOf ==
  ASSUME TypeInv, [Next]_vars, NEW i \in DOMAIN tasks'
  PROVE  \/ \E j \in DOMAIN tasks : tasks'[i] = tasks[j]
         \/ /\ tasks'[i] \in TaskType /\ session' = session /\ stage' = stage
            /\ \/ tasks'[i].visit = session /\ stage = "RUNNING" /\ tasks'[i].op \in Checks
               \/ tasks'[i].visit = session /\ stage = "CLEANUP"
               \/ polls[tasks'[i].visit] > 0 /\ tasks'[i].op \notin Checks \cup {"cleanup"}
<1>1. tasks \in Seq(TaskType)
  BY DEF TypeInv, WorldTyped
<1>2. CASE tasks # <<>> /\ tasks' = Tail(tasks)
  <2>1. i + 1 \in DOMAIN tasks /\ tasks'[i] = tasks[i + 1]
    BY <1>1, <1>2, Popped
  <2> QED BY <2>1
<1>3. ASSUME NEW t \in TaskType, tasks' = Append(tasks, t)
      PROVE  (\E j \in DOMAIN tasks : tasks'[i] = tasks[j]) \/ tasks'[i] = t
  <2>1. /\ Len(tasks) \in Nat /\ DOMAIN tasks = 1..Len(tasks) /\ DOMAIN tasks' = 1..(Len(tasks) + 1)
        /\ \A k \in DOMAIN tasks : tasks'[k] = tasks[k]
        /\ tasks'[Len(tasks) + 1] = t
    BY <1>1, <1>3, Appended
  <2>2. i \in DOMAIN tasks \/ i = Len(tasks) + 1
    BY <2>1
  <2> QED BY <2>1, <2>2
<1>4. CASE tasks' = <<>> \/ tasks' = tasks
  BY <1>4
<1> QED BY <1>2, <1>3, <1>4, TaskSteps

LEMMA PollSteps ==
  ASSUME TypeInv, [Next]_vars, NEW v \in Visits
  PROVE  polls'[v] > 0 => polls[v] > 0 \/ (v = session /\ (\E mode \in Checks : Check(mode)))
<1>1. PollTypeOK /\ polls \in [Visits -> Nat]
  BY DEF TypeInv, LatchesTyped, PollTypeOK
<1>2. CASE polls' = polls
  BY <1>2
<1>3. CASE ComposeSteps \/ TickWatches
  BY <1>2, <1>3 DEF ComposeSteps, TickRolledBack, TickCompose, TickSelects, TickStartQuest, TickWarp, TickVerifyFill,
     TickArm, TickComposed, ComposeTick, TickWatches, pollVars
<1>4. CASE TickTerminal \/ TickCleanupDone \/ TickCleanup \/ UNCHANGED vars \/ OnStart \/ RunVm \/ Answer
           \/ CheckBegins \/ Cleanup \/ \E mode \in Checks, checks \in BOOLEAN : TickRunning(mode, checks)
  BY <1>2, <1>4 DEF TickTerminal, TickCleanupDone, TickCleanup, TickRunning, vars, OnStart, RunVm, Answer,
     CheckBegins, Cleanup, pollVars
<1>5. CASE Restart
  BY <1>5 DEF Restart
<1>6. CASE PollAnswer
  BY <1>1, <1>6 DEF PollAnswer, PollAnswered
<1>7. ASSUME NEW mode \in Checks, Check(mode) PROVE polls'[v] > 0 => polls[v] > 0 \/ v = session
  <2>1. session \in Visits /\ SessionTyped /\ LatchesTyped /\ WorldTyped /\ flag \in FlagType /\ Dropped \in FlagType
    BY <1>7, Acting DEF Check, TypeInv, LatchesTyped, Dropped, FlagType
  <2>2. CASE (\E g \in {flag, Dropped} : GoesOn(g)) \/ Meets \/ Parts
    BY <2>2 DEF GoesOn, Meets, Parts, PollsKept
  <2>3. ASSUME NEW g \in {flag, Dropped}, GoesDown(g) PROVE polls' = polls
    <3>1. g \in FlagType
      BY <2>1
    <3> QED BY <2>1, <2>3, <3>1, DownTyped DEF GoesDown
  <2> QED BY <1>2, <1>7, <2>2, <2>3, CheckDoes
<1>8. ASSUME NEW op \in {"conclude", "continue"}, Verdict(op) PROVE polls' = polls
  BY <1>8, VerdictDoes
<1>9. CASE Death \/ FastTravel \/ Abort
  BY <1>2, <1>9 DEF Death, FastTravel, Abort, HardAbortVisit, RunReturnHomeShutdown, Disarm, pollVars
<1> QED BY <1>2, <1>3, <1>4, <1>5, <1>6, <1>7, <1>8, <1>9 DEF Next, Ticks, Tasks, Checks

-----------------------------------------------------------------------------
(* Whose is what, kept by every step.                                      *)

\* Answers wait for those who asked.
LEMMA ComposeCalls ==
  ASSUME TypeInv, [Next]_vars
  PROVE  \/ composes' \subseteq composes
         \/ TickCompose /\ param /\ sub' = "ComposingLLM" /\ composes' = composes \cup {session}
            /\ session' = session /\ stage' = "COMPOSE"
<1>1. CASE TickCompose
  BY <1>1 DEF TickCompose, ComposeTick
<1>2. CASE TickRolledBack \/ TickSelects \/ TickStartQuest \/ TickWarp \/ TickVerifyFill \/ TickArm \/ TickComposed
           \/ TickWatches
  BY <1>2 DEF TickRolledBack, TickSelects, TickStartQuest, TickWarp, TickVerifyFill, TickArm, TickComposed, TickWatches
<1>3. CASE TickTerminal \/ TickCleanupDone \/ TickCleanup \/ UNCHANGED vars
           \/ \E mode \in Checks, checks \in BOOLEAN : TickRunning(mode, checks)
  BY <1>3 DEF TickTerminal, TickCleanupDone, TickCleanup, TickRunning, vars
<1>4. CASE Tasks
  BY <1>4 DEF Tasks, CheckBegins, Check, Verdict, Cleanup
<1>5. CASE Answer \/ PollAnswer \/ RunVm \/ Restart \/ OnStart
  BY <1>5 DEF Answer, PollAnswer, RunVm, Restart, OnStart
<1>6. CASE Death \/ FastTravel \/ Abort
  BY <1>6 DEF Death, FastTravel, Abort, beside
<1> QED BY <1>1, <1>2, <1>3, <1>4, <1>5, <1>6 DEF Next, Ticks, ComposeSteps, Checks

\* Whose quest it is.
LEMMA QuestVisits ==
  ASSUME TypeInv, [Next]_vars
  PROVE  \/ quest' = quest
         \/ RunVm /\ session' = session /\ quest'.visit \in {quest.visit, NoVisit}
         \/ TickStartQuest /\ quest'.visit = session /\ session' = session
<1>1. quest \in [visit : Visits \cup {NoVisit}, stage : QuestStages,
                sender : Visits \cup {NoVisit}, anchor : BOOLEAN]
  BY DEF TypeInv, WorldTyped
<1>2. CASE RunVm
  <2>1. PICK c \in BagToSet(vm) : Runs(c)
    BY <1>2, RunVmCalls DEF TypeInv
  <2>2. quest'.visit \in {quest.visit, NoVisit}
    BY <1>1, <2>1 DEF Runs, NoQuest
  <2> QED BY <1>2, <2>2 DEF RunVm
<1>3. CASE TickStartQuest /\ quest' = [quest EXCEPT !.visit = session, !.stage = 0] /\ session' = session
  BY <1>1, <1>3
<1> QED BY <1>2, <1>3, VmSteps DEF Sends

LEMMA SessionGrows ==
  ASSUME TypeInv, [Next]_vars
  PROVE  session \in Nat /\ session' \in Nat /\ (session' = session \/ (OnStart /\ session' = session + 1))
<1>1. session \in Nat
  BY PollConstants DEF TypeInv, SessionTyped, NoVisit
<1>2. OnStart => session' = session + 1
  BY DEF OnStart
<1>3. OnStart \/ session' = session
  BY StageSteps
<1> QED BY <1>1, <1>2, <1>3

LEMMA NumberedStep ==
  ASSUME TypeInv, Numbered, [Next]_vars
  PROVE  Numbered'
<1>1. session \in Nat /\ session' \in Nat /\ session' >= session /\ Visits \subseteq Nat
  BY SessionGrows, PollConstants
<1>2. /\ \A c \in BagToSet(vm) : c.visit \in Nat /\ c.visit <= session
      /\ tasks \in Seq(TaskType)
      /\ \A i \in DOMAIN tasks : tasks[i].visit \in Nat /\ tasks[i].visit <= session
  <2>1. BagToSet(vm) \subseteq CallType /\ tasks \in Seq(TaskType)
    BY DEF TypeInv, WorldTyped, CallBag
  <2>2. \A c \in BagToSet(vm) : c \in CallType
    BY <2>1
  <2>3. \A i \in DOMAIN tasks : tasks[i] \in TaskType
    BY <2>1, LenProperties
  <2> QED BY <1>1, <2>1, <2>2, <2>3 DEF Numbered, CallType, TaskType
<1>3. \A v \in composes' : v <= session'
  <2>1. \A v \in composes : v \in Nat /\ v <= session
    BY <1>1 DEF TypeInv, SessionTyped, Numbered
  <2> QED BY <1>1, <2>1, ComposeCalls
<1>4. ASSUME NEW e \in BagToSet(vm') PROVE e.visit <= session'
  BY <1>1, <1>2, VmCalls
<1>5. ASSUME NEW v \in Visits, polls'[v] > 0 PROVE v <= session'
  <2>1. polls[v] > 0 \/ v = session
    BY <1>5, PollSteps
  <2> QED BY <1>1, <2>1 DEF Numbered
<1>6. ASSUME NEW i \in DOMAIN tasks' PROVE tasks'[i].visit <= session'
  <2>1. \/ \E j \in DOMAIN tasks : tasks'[i] = tasks[j]
        \/ tasks'[i].visit = session
        \/ tasks'[i].visit \in Visits /\ polls[tasks'[i].visit] > 0
    BY TasksOf DEF TaskType
  <2>2. CASE \E j \in DOMAIN tasks : tasks'[i] = tasks[j]
    <3>1. PICK j \in DOMAIN tasks : tasks'[i] = tasks[j]
      BY <2>2
    <3>2. tasks[j].visit \in Nat /\ tasks[j].visit <= session
      BY <1>2
    <3> QED BY <1>1, <3>1, <3>2
  <2>3. \A v \in Visits : polls[v] > 0 => v <= session /\ v \in Nat
    BY <1>1 DEF Numbered
  <2>4. CASE tasks'[i].visit = session
    BY <1>1, <2>4
  <2>5. CASE tasks'[i].visit \in Visits /\ polls[tasks'[i].visit] > 0
    <3>1. PICK v \in Visits : v = tasks'[i].visit /\ polls[v] > 0
      BY <2>5
    <3>2. v <= session /\ v \in Nat
      BY <2>3, <3>1
    <3> QED BY <1>1, <3>1, <3>2
  <2> QED BY <2>1, <2>2, <2>4, <2>5
<1>7. quest'.visit <= session'
  <2>1. quest.visit \in Nat /\ quest.visit <= session
    <3>1. quest \in [visit : Visits \cup {NoVisit}, stage : QuestStages,
                    sender : Visits \cup {NoVisit}, anchor : BOOLEAN]
      BY DEF TypeInv, WorldTyped
    <3>2. quest.visit \in Visits \cup {0} /\ quest.visit <= session
      BY <3>1 DEF NoVisit, Numbered
    <3>3. \A v \in Visits \cup {0} : v \in Nat
      BY PollConstants
    <3> QED BY <3>2, <3>3, Zenon
  <2>2. quest'.visit \in {quest.visit, session, 0}
    BY QuestVisits DEF NoVisit
  <2> QED BY <1>1, <2>1, <2>2
<1> QED BY <1>3, <1>4, <1>5, <1>6, <1>7 DEF Numbered

LEMMA CheckIsOurs ==
  ASSUME TypeInv, OwnTasks, NEW mode \in Checks, Check(mode)
  PROVE  stage # "COMPOSE" /\ session \in Visits
<1>1. tasks \in Seq(TaskType) /\ tasks # <<>> /\ Head(tasks).visit = session
  BY DEF TypeInv, WorldTyped, Checking, OwnTasks, Check
<1>2. 1 \in DOMAIN tasks /\ Head(tasks) = tasks[1]
  BY <1>1, Popped
<1> QED BY <1>1, <1>2, Acting DEF OwnTasks

LEMMA OwnTasksStep ==
  ASSUME TypeInv, Numbered, OwnTasks, [Next]_vars, Uncrossed'
  PROVE  OwnTasks'
<1>1. session \in Nat /\ Visits \subseteq Nat
  BY SessionGrows, PollConstants
<1>2. tasks \in Seq(TaskType) /\ \A i \in DOMAIN tasks : tasks[i] \in TaskType
  <2>1. tasks \in Seq(TaskType)
    BY DEF TypeInv, WorldTyped
  <2> QED BY <2>1, LenProperties
<1>3. \A i \in DOMAIN tasks : tasks[i].visit # session + 1
  <2> SUFFICES ASSUME NEW i \in DOMAIN tasks PROVE tasks[i].visit # session + 1
    OBVIOUS
  <2>1. tasks[i].visit \in Nat /\ tasks[i].visit <= session
    BY <1>1, <1>2 DEF TaskType, Numbered
  <2> QED BY <1>1, <2>1
<1>4. ASSUME NEW i \in DOMAIN tasks', tasks'[i].visit = session'
      PROVE  /\ stage' # "COMPOSE"
             /\ tasks'[i].op = "cleanup" => stage' \in {"CLEANUP", "NOT_RUNNING"}
  <2>1. CASE \E j \in DOMAIN tasks : tasks'[i] = tasks[j]
    <3>1. PICK j \in DOMAIN tasks : tasks'[i] = tasks[j]
      BY <2>1
    <3>2. session' = session /\ ~OnStart
      BY <1>1, <1>3, <1>4, <3>1, SessionGrows DEF OnStart
    <3>3. stage # "COMPOSE" /\ (tasks[j].op = "cleanup" => stage \in {"CLEANUP", "NOT_RUNNING"})
      BY <1>4, <3>1, <3>2 DEF OwnTasks
    <3> QED BY <3>1, <3>2, <3>3, StageSteps
  <2>2. CASE /\ tasks'[i] \in TaskType /\ session' = session /\ stage' = stage
             /\ \/ tasks'[i].visit = session /\ stage = "RUNNING" /\ tasks'[i].op \in Checks
                \/ tasks'[i].visit = session /\ stage = "CLEANUP"
                \/ polls[tasks'[i].visit] > 0 /\ tasks'[i].op \notin Checks \cup {"cleanup"}
    BY <1>4, <2>2 DEF OwnTasks, Checks
  <2> QED BY <2>1, <2>2, TasksOf
<1>5. ASSUME stage' = "COMPOSE" PROVE polls'[session'] = 0
  <2>1. polls \in [Visits -> Nat] /\ polls' \in [Visits -> Nat]
    BY TypeStep DEF TypeInv, LatchesTyped, PollTypeOK
  <2>2. CASE OnStart
    <3>1. session' = session + 1 /\ session + 1 \in Visits /\ polls' = polls
      BY <2>2 DEF OnStart, pollVars
    <3>2. ~(polls[session + 1] > 0)
      BY <1>1, <3>1 DEF Numbered
    <3> QED BY <2>1, <3>1, <3>2
  <2>3. CASE ~OnStart
    <3>1. stage = "COMPOSE" /\ session' = session
      BY <1>5, <2>3, StageSteps
    <3>2. session \in Visits
      BY <3>1, Acting
    <3>3. ~ \E mode \in Checks : Check(mode)
      BY <3>1, CheckIsOurs
    <3>4. ~(polls'[session] > 0)
      BY <3>1, <3>2, <3>3, PollSteps DEF OwnTasks
    <3> QED BY <2>1, <3>1, <3>2, <3>4
  <2> QED BY <2>2, <2>3
<1>6. ASSUME busy' PROVE Head(tasks').visit = session'
  <2>1. CASE CheckBegins
    BY <2>1 DEF CheckBegins, Uncrossed
  <2>2. CASE busy /\ ~CheckBegins
    <3>1. Head(tasks).visit = session
      BY <2>2 DEF OwnTasks
    <3>2. tasks # <<>> /\ Head(tasks).op \in Checks /\ WorldTyped
      BY <2>2 DEF TypeInv, Checking, Checks
    <3>3. ~(\E mode \in Checks : Check(mode)) /\ ~Cleanup /\ ~(\E op \in {"conclude", "continue"} : Verdict(op)) /\ ~Restart
      BY <1>6, <3>2, <2>2 DEF Check, Cleanup, Verdict, Restart, Checks
    <3>4. ~OnStart
      BY <2>2 DEF OnStart, Uncrossed
    <3>5. tasks' = tasks \/ \E t \in TaskType : tasks' = Append(tasks, t)
      BY <2>2, <3>3, <3>4, TaskSteps
    <3>6. session' = session
      BY <3>4, StageSteps
    <3> QED BY <3>1, <3>2, <3>5, <3>6, HeadKept
  <2>3. CASE ~busy /\ ~CheckBegins
    BY <1>6, <2>3, BusySteps
  <2> QED BY <2>1, <2>2, <2>3
<1> QED BY <1>4, <1>5, <1>6 DEF OwnTasks

LEMMA AskingStep ==
  ASSUME TypeInv, Numbered, Asking, [Next]_vars, Uncrossed'
  PROVE  Asking'
<1>1. CASE OnStart
  <2>1. session' = session + 1 /\ session \in Nat /\ composes' = composes /\ composes \subseteq Nat
    BY <1>1, SessionGrows, PollConstants DEF OnStart, TypeInv, SessionTyped
  <2>2. session' \notin composes'
    BY <2>1 DEF Numbered
  <2> QED BY <1>1, <2>2 DEF OnStart, Asking
<1>2. CASE ComposeSteps \/ TickWatches
  <2>1. stage = "COMPOSE" /\ session' = session /\ param' = param
    BY <1>2 DEF ComposeSteps, TickRolledBack, TickCompose, TickSelects, TickStartQuest, TickWarp, TickVerifyFill,
       TickArm, TickComposed, ComposeTick, TickWatches
  <2>2. CASE TickCompose
    BY <2>1, <2>2 DEF TickCompose, ComposeTick, Asking
  <2>3. CASE TickRolledBack \/ TickSelects \/ TickStartQuest \/ TickWarp \/ TickVerifyFill \/ TickArm
    <3>1. sub # "ComposingLLM" /\ composes' = composes
      BY <2>3 DEF TickRolledBack, TickSelects, TickStartQuest, TickWarp, TickVerifyFill, TickArm, ComposeTick, Honoured
    <3>2. TickRolledBack => sub' = "Failed"
      BY DEF TickRolledBack
    <3>3. ~TickRolledBack => sub \notin {"Start", "Failed"}
      BY <2>3 DEF TickSelects, TickStartQuest, TickWarp, TickVerifyFill, TickArm, ComposeTick
    <3> QED BY <2>1, <3>1, <3>2, <3>3 DEF Asking
  <2>4. CASE TickComposed
    BY <2>1, <2>4 DEF TickComposed, ComposeTick, Asking
  <2>5. CASE TickWatches
    BY <2>5 DEF TickWatches, Asking
  <2> QED BY <1>2, <2>2, <2>3, <2>4, <2>5 DEF ComposeSteps
<1>3. CASE TickTerminal \/ TickCleanupDone \/ TickCleanup \/ UNCHANGED vars
           \/ \E mode \in Checks, checks \in BOOLEAN : TickRunning(mode, checks)
  BY <1>3 DEF TickTerminal, TickCleanupDone, TickCleanup, TickRunning, vars, Asking
<1>4. CASE Tasks
  BY <1>4 DEF Tasks, CheckBegins, Check, Verdict, Cleanup, Asking
<1>5. CASE Answer
  <2>1. PICK v \in composes : composes' = composes \ {v} /\ (v = session \/ stage = "NOT_RUNNING")
    BY <1>5 DEF Answer, Uncrossed
  <2>2. UNCHANGED <<stage, session, param>>
    BY <1>5 DEF Answer
  <2> QED BY <2>1, <2>2 DEF Asking
<1>6. CASE PollAnswer \/ RunVm
  BY <1>6 DEF PollAnswer, RunVm, Asking
<1>7. CASE Death \/ FastTravel \/ Abort
  BY <1>7 DEF Death, FastTravel, Abort, beside, Asking
<1>8. CASE Restart
  BY <1>8 DEF Restart, Asking
<1> QED BY <1>1, <1>2, <1>3, <1>4, <1>5, <1>6, <1>7, <1>8 DEF Next, Ticks, Checks

\* What can happen while a visit is composed: its own ticks and answer, its
\* visitor's death, Papyrus and a restart; the rest touches nothing of it.
Idle == UNCHANGED <<session, sub, param, flag, snap, timer, quest, vm, away, dead, stranded>>

LEMMA Composing ==
  ASSUME TypeInv, Whose, [Next]_vars, Uncrossed', stage' = "COMPOSE", ~OnStart
  PROVE  /\ stage = "COMPOSE" /\ session \in Visits /\ session' = session
         /\ ComposeSteps \/ Answer \/ RunVm \/ Death \/ Restart \/ Idle
<1>1. stage = "COMPOSE" /\ session' = session
  BY StageSteps
<1>2. session \in Visits
  BY <1>1, Acting
<1>3. ~(\E mode \in Checks : Check(mode))
  BY <1>1, CheckIsOurs DEF Whose
<1>4. CASE TickWatches \/ TickTerminal \/ TickCleanupDone \/ TickCleanup \/ UNCHANGED vars
           \/ PollAnswer \/ \E mode \in Checks, checks \in BOOLEAN : TickRunning(mode, checks)
  BY <1>1, <1>2, <1>4 DEF TickWatches, TickTerminal, TickCleanupDone, TickCleanup, TickRunning, vars, PollAnswer, latches,
     record, world, history, Idle
<1>5. tasks \in Seq(TaskType) /\ (tasks # <<>> => Head(tasks).visit # session)
  <2>1. tasks \in Seq(TaskType)
    BY DEF TypeInv, WorldTyped
  <2>2. tasks # <<>> => 1 \in DOMAIN tasks /\ Head(tasks) = tasks[1]
    BY <2>1, Popped
  <2> QED BY <1>1, <2>1, <2>2 DEF Whose, OwnTasks
<1>6. ~CheckBegins /\ ~Cleanup
  BY <1>5 DEF CheckBegins, Cleanup, Uncrossed
<1>7. ASSUME NEW op \in {"conclude", "continue"}, Verdict(op) PROVE Idle
  <2>1. quest.stage # Discuss
    BY <1>5, <1>7 DEF Verdict, Uncrossed
  <2> QED BY <1>7, <2>1 DEF Verdict, Idle
<1>8. ~Abort
  BY DEF Abort
<1>9. CASE FastTravel
  BY <1>1, <1>2, <1>9 DEF FastTravel, Whose, NotYet, beside, record, Idle
<1> QED BY <1>1, <1>2, <1>3, <1>4, <1>6, <1>7, <1>8, <1>9 DEF Next, Ticks, Tasks, Checks

\* What a death does to the visit it ends.
LEMMA DeathDoes ==
  ASSUME TypeInv, Death
  PROVE  /\ session \in dead' /\ dead' = dead \cup {session} /\ session \notin dead /\ UNCHANGED <<sub, param, quest>>
         /\ \/ UNCHANGED <<flag, away, vm>>
            \/ quest.sender = session /\ HardAbortVisit(flag, "aborted") /\ flag'.salutation = flag.salutation
<1>1. flag \in FlagType /\ "salutation" \in FlagNames \ {"hardAbort", "terminal"}
  BY DEF TypeInv, LatchesTyped, FlagNames
<1>2. HardAbortVisit(flag, "aborted") => flag'.salutation = flag.salutation
  BY <1>1, DownKeeps
<1> QED BY <1>2 DEF Death, beside

LEMMA NotYetStep ==
  ASSUME TypeInv, Whose, SenderOfQuest, [Next]_vars, Uncrossed, Uncrossed'
  PROVE  NotYet'
<1> SUFFICES ASSUME stage' = "COMPOSE"
             PROVE  /\ ~flag'.salutation
                    /\ flag'.terminal => session' \in dead'
                    /\ param' /\ sub' \in Before =>
                         /\ quest'.visit # session' /\ ~flag'.hardAbort
                         /\ \A e \in BagToSet(vm') : e.visit # session'
  BY DEF NotYet
<1>1. session \in Nat /\ Visits \subseteq Nat /\ NoVisit \notin Visits
  BY SessionGrows, PollConstants DEF NoVisit
<1>2. \A c \in BagToSet(vm) : c \in CallType
  BY DEF TypeInv, WorldTyped, CallBag
<1>3. CASE OnStart
  <2>1. session' = session + 1 /\ vm' = vm /\ quest' = quest /\ flag' = [NoFlags EXCEPT !.inFlight = TRUE]
    BY <1>3 DEF OnStart, world
  <2>2. ~flag'.salutation /\ ~flag'.terminal /\ ~flag'.hardAbort
    BY <2>1 DEF NoFlags, FlagNames
  <2>3. quest.visit # session + 1
    <3>1. quest.visit \in Visits \cup {NoVisit}
      <4>1. quest \in [visit : Visits \cup {NoVisit}, stage : QuestStages,
                      sender : Visits \cup {NoVisit}, anchor : BOOLEAN]
        BY DEF TypeInv, WorldTyped
      <4> QED BY <4>1
    <3>2. quest.visit \in Nat
      <4>1. Visits \subseteq Nat /\ NoVisit \in Nat
        BY <1>1 DEF NoVisit
      <4> QED BY <3>1, <4>1
    <3> QED BY <1>1, <3>2 DEF Whose, Numbered
  <2>4. ASSUME NEW c \in BagToSet(vm) PROVE c.visit # session + 1
    <3>1. c.visit \in Nat /\ c.visit <= session
      BY <1>1, <1>2 DEF CallType, Whose, Numbered
    <3> QED BY <1>1, <3>1
  <2> QED BY <2>1, <2>2, <2>3, <2>4
<1>4. CASE ~OnStart
  <2>1. /\ stage = "COMPOSE" /\ session \in Visits /\ session' = session
        /\ ComposeSteps \/ Answer \/ RunVm \/ Death \/ Restart \/ Idle
    BY <1>4, Composing
  <2>2. ~flag.salutation /\ (flag.terminal => session \in dead)
    BY <2>1 DEF Whose, NotYet
  <2> DEFINE Clear == /\ quest.visit # session /\ ~flag.hardAbort
                      /\ \A c \in BagToSet(vm) : c.visit # session
  <2>3. param /\ sub \in Before => Clear /\ quest.sender # session
    BY <1>1, <2>1 DEF Whose, NotYet, SenderOfQuest
  <2>4. CASE Restart
    BY <2>4 DEF Restart, NoFlags, FlagNames
  <2>5. CASE Idle
    BY <2>1, <2>2, <2>3, <2>5 DEF Idle
  <2>6. CASE Death
    BY <2>1, <2>2, <2>3, <2>6, DeathDoes
  <2>7. CASE RunVm
    <3>1. UNCHANGED <<session, sub, param, flag, dead>>
      BY <2>7 DEF RunVm, latches
    <3>2. ASSUME param /\ sub \in Before PROVE quest'.visit # session
      <4>1. quest' = quest \/ quest'.visit \in {quest.visit, NoVisit} \/ sub' = "Warping"
        BY <2>7, QuestVisits DEF TickStartQuest, RunVm
      <4> QED BY <1>1, <2>1, <2>3, <3>1, <3>2, <4>1 DEF Before
    <3>3. ASSUME param /\ sub \in Before, NEW e \in BagToSet(vm') PROVE e.visit # session
      <4>1. PICK c \in BagToSet(vm) : Runs(c)
        BY <2>7, RunVmCalls DEF TypeInv
      <4> QED BY <2>3, <3>3, <4>1 DEF Runs
    <3> QED BY <2>1, <2>2, <2>3, <3>1, <3>2, <3>3
  <2>8. CASE Answer
    <3>1. UNCHANGED <<session, param, flag, quest, vm, dead>>
      BY <2>8 DEF Answer, latches, world
    <3>2. sub = "ComposingLLM"
      BY <2>1, <2>8 DEF Answer, Uncrossed, Whose, Asking
    <3> QED BY <2>1, <2>2, <2>3, <3>1, <3>2 DEF Before
  <2>9. CASE ComposeSteps
    <3>1. UNCHANGED <<param, flag, dead>>
      BY <2>9 DEF ComposeSteps, TickRolledBack, TickCompose, TickSelects, TickStartQuest, TickWarp, TickVerifyFill,
         TickArm, TickComposed, ComposeTick, world
    <3>2. ASSUME sub' \in Before PROVE sub \in Before /\ UNCHANGED <<quest, vm>>
      BY <2>9, <3>2 DEF ComposeSteps, TickRolledBack, TickCompose, TickSelects, TickStartQuest, TickWarp, TickVerifyFill,
         TickArm, TickComposed, ComposeTick, world, Before
    <3> QED BY <2>1, <2>2, <2>3, <3>1, <3>2
  <2> QED BY <2>1, <2>4, <2>5, <2>6, <2>7, <2>8, <2>9
<1> QED BY <1>3, <1>4

-----------------------------------------------------------------------------
(* The opening line, kept by every step.                                   *)

\* What RunVm runs is meant for the quest as it stands.
LEMMA RunsOwn ==
  ASSUME TypeInv, RunVm, Uncrossed'
  PROVE  /\ \E c \in BagToSet(vm) :
              /\ Runs(c) /\ c.visit \in Visits
              /\ quest.visit = c.visit \/ (quest.visit = NoVisit /\ c.call \in Stops)
         /\ UNCHANGED <<stage, session, sub, param, flag, snap, timer, away, dead, stranded>>
<1>1. PICK c \in BagToSet(vm) : Runs(c)
  BY RunVmCalls DEF TypeInv
<1>2. c.visit \in Visits /\ (quest.visit = c.visit \/ (quest.visit = NoVisit /\ c.call \in Stops))
  BY <1>1 DEF Runs, CallType, Uncrossed
<1> QED BY <1>1, <1>2 DEF RunVm, latches, record

\* The first stage is called for where the quest is started.
LEMMA NewSalutation ==
  ASSUME NEW e, New(e), e.call = Salutation
  PROVE  TickStartQuest /\ sub' = "Warping"
BY DEF New, Call, Salutation, Lines, Discuss, Valediction, ReturnHome, FillSender, FillAnchor, Rollback, Shutdown

LEMMA UntouchedStep ==
  ASSUME TypeInv, Whose, Untouched, [Next]_vars, Uncrossed, Uncrossed'
  PROVE  Untouched'
<1> SUFFICES ASSUME NEW e \in BagToSet(vm'), e.call = Salutation, e.visit = session'
             PROVE  vm'[e] = 1 /\ quest'.stage # Salutation /\ quest'.visit \in {NoVisit, session'}
  BY DEF Untouched
<1>1. /\ quest \in [visit : Visits \cup {NoVisit}, stage : QuestStages,
                    sender : Visits \cup {NoVisit}, anchor : BOOLEAN]
      /\ \A c \in BagToSet(vm) : c.visit \in Visits /\ c.visit \in Nat
      /\ session \in Nat /\ NoVisit \notin Visits
  <2>1. \A c \in BagToSet(vm) : c \in CallType
    BY DEF TypeInv, WorldTyped, CallBag
  <2>2. quest \in [visit : Visits \cup {NoVisit}, stage : QuestStages,
                   sender : Visits \cup {NoVisit}, anchor : BOOLEAN]
    BY DEF TypeInv, WorldTyped
  <2> QED BY <2>1, <2>2, SessionGrows, PollConstants DEF CallType, NoVisit
<1>2. CASE RunVm
  <2>1. PICK c \in BagToSet(vm) : Runs(c)
    BY <1>2, RunVmCalls DEF TypeInv
  <2>2. Salutation \notin Stops /\ session' = session
    BY <1>2 DEF RunVm, Stops, Salutation, Rollback, Shutdown, StopQuest
  <2>3. /\ e \in BagToSet(vm) /\ (vm[e] = 1 => vm'[e] = 1 /\ e # c)
        /\ quest'.stage # Salutation \/ quest'.stage = quest.stage \/ c.call = Salutation
    BY <1>1, <2>1, <2>2 DEF Runs, NoQuest, Salutation
  <2>4. vm[e] = 1 /\ quest.stage # Salutation /\ quest.visit \in {NoVisit, session}
    BY <2>2, <2>3 DEF Untouched
  <2>5. c.call = Salutation => c.visit = quest.visit
    BY <2>1, <2>2 DEF Runs, Uncrossed
  <2>6. c.call # Salutation
    <3> SUFFICES ASSUME c.call = Salutation PROVE FALSE
      OBVIOUS
    <3>1. c.visit = session
      BY <1>1, <2>1, <2>4, <2>5
    <3>2. c = e
      <4>1. c \in CallType /\ e \in CallType
        BY <2>1, <2>3 DEF Runs, TypeInv, WorldTyped, CallBag
      <4> QED BY <2>2, <3>1, <4>1 DEF CallType
    <3> QED BY <2>3, <2>4, <3>2
  <2>7. quest'.visit \in {NoVisit, quest.visit}
    BY <1>1, <2>1 DEF Runs, NoQuest
  <2> QED BY <2>2, <2>3, <2>4, <2>6, <2>7
<1>3. CASE ~RunVm
  <2>1. Behind
    BY <1>3, VmGrows, NoCalls
  <2>2. CASE e \in BagToSet(vm) /\ vm'[e] = vm[e] /\ ~New(e)
    <3>1. session' = session
      <4>1. e.visit <= session
        BY <2>2 DEF Whose, Numbered
      <4> QED BY <1>1, <2>2, <4>1, SessionGrows
    <3>2. vm[e] = 1 /\ quest.stage # Salutation /\ quest.visit \in {NoVisit, session}
      BY <2>2, <3>1 DEF Untouched
    <3>3. CASE quest' = quest
      BY <2>2, <3>1, <3>2, <3>3
    <3>4. CASE quest' = [quest EXCEPT !.visit = session, !.stage = 0]
      BY <1>1, <2>2, <3>1, <3>2, <3>4 DEF Salutation
    <3> QED BY <1>3, <3>3, <3>4, VmSteps DEF Sends
  <2>3. CASE New(e) /\ (e \notin BagToSet(vm) => vm'[e] = 1)
    <3>1. TickStartQuest /\ sub' = "Warping"
      BY <2>3, NewSalutation
    <3>2. stage = "COMPOSE" /\ sub = "StartingQuest" /\ session' = session
      BY <3>1 DEF TickStartQuest, ComposeTick
    <3>3. e \notin BagToSet(vm)
      BY <3>2 DEF Whose, Asking, NotYet, Before
    <3>4. quest' = [quest EXCEPT !.visit = session, !.stage = 0]
      BY <3>1 DEF TickStartQuest, Uncrossed
    <3>5. quest'.stage = 0 /\ quest'.visit = session
      BY <1>1, <3>4
    <3> QED BY <2>3, <3>2, <3>3, <3>5 DEF Salutation
  <2> QED BY <2>1, <2>2, <2>3 DEF Behind
<1> QED BY <1>2, <1>3

LEMMA SaidStep ==
  ASSUME TypeInv, Whose, Untouched, Said, [Next]_vars, Uncrossed, Uncrossed'
  PROVE  Said'
<1> SUFFICES ASSUME flag'.salutation
             PROVE  /\ ~OurOwn({Salutation})'
                    /\ quest'.visit \in {NoVisit, session'}
                    /\ quest'.stage = Salutation => flag'.latch
  BY DEF Said
<1>1. /\ quest \in [visit : Visits \cup {NoVisit}, stage : QuestStages,
                    sender : Visits \cup {NoVisit}, anchor : BOOLEAN]
      /\ flag \in FlagType /\ Dropped \in FlagType
  BY DEF TypeInv, WorldTyped, LatchesTyped, Dropped, FlagType
<1>2. ~OnStart /\ ~Restart
  BY DEF OnStart, Restart, NoFlags, FlagNames
<1>3. session' = session
  BY <1>2, StageSteps
<1>4. CASE \E mode \in Checks : Check(mode) /\ Meets
  <2>1. quest' = quest /\ ~RunVm
    BY <1>4 DEF Check, RunVm
  <2>2. ~OurOwn({Salutation})
    BY <1>4 DEF Meets, OurOwn, Untouched, Salutation
  <2>3. ASSUME NEW e \in BagToSet(vm'), e.call = Salutation, e.visit = session PROVE FALSE
    <3>1. ~TickStartQuest
      BY <1>4, CheckIsOurs DEF Whose, TickStartQuest, ComposeTick
    <3>2. e \in BagToSet(vm)
      BY <1>2, <2>1, <2>3, <3>1, VmGrows, NewSalutation DEF Behind
    <3> QED BY <2>2, <2>3, <3>2 DEF OurOwn
  <2>4. flag'.latch
    BY <1>1, <1>4 DEF Meets, FlagType, FlagNames
  <2>5. quest.visit \in {NoVisit, session}
    BY <1>4 DEF Meets, Dispatch, Uncrossed
  <2> QED BY <1>3, <2>1, <2>3, <2>4, <2>5 DEF OurOwn
<1>5. CASE Kept \/ \E op \in {"conclude", "continue"} : Verdict(op) /\ SaysGoodbye
  <2>1. flag.salutation /\ (flag.latch /\ quest.stage = Salutation => flag'.latch)
    <3>1. SaysGoodbye => flag'.salutation = flag.salutation /\ flag'.latch = flag.latch
      BY <1>1 DEF SaysGoodbye, FlagType, FlagNames
    <3> QED BY <1>5, <3>1 DEF Kept
  <2>2. /\ ~OurOwn({Salutation}) /\ quest.visit \in {NoVisit, session}
        /\ quest.stage = Salutation => flag.latch
    BY <2>1 DEF Said
  <2>3. ~TickStartQuest
    BY <2>1 DEF TickStartQuest, ComposeTick, Whose, NotYet
  <2>4. ASSUME NEW e \in BagToSet(vm'), e.call = Salutation, e.visit = session PROVE FALSE
    <3>1. Salutation \notin Stops
      BY DEF Stops, Salutation, Rollback, Shutdown, StopQuest
    <3>2. CASE RunVm
      <4>1. PICK c \in BagToSet(vm) : Runs(c)
        BY <3>2, RunVmCalls DEF TypeInv
      <4>2. e \in BagToSet(vm)
        BY <2>4, <3>1, <4>1 DEF Runs
      <4> QED BY <2>2, <2>4, <4>2 DEF OurOwn
    <3>3. CASE ~RunVm
      <4>1. e \in BagToSet(vm)
        BY <1>2, <2>3, <2>4, <3>3, VmGrows, NewSalutation DEF Behind
      <4> QED BY <2>2, <2>4, <4>1 DEF OurOwn
    <3> QED BY <3>2, <3>3
  <2>5. quest'.visit \in {NoVisit, session}
    BY <2>2, <2>3, QuestVisits
  <2>6. ASSUME quest'.stage = Salutation PROVE flag'.latch
    <3>1. CASE quest' = quest
      BY <2>1, <2>2, <2>6, <3>1
    <3>2. CASE RunVm
      <4>1. PICK c \in BagToSet(vm) :
              /\ Runs(c) /\ c.visit \in Visits
              /\ quest.visit = c.visit \/ (quest.visit = NoVisit /\ c.call \in Stops)
        BY <3>2, RunsOwn
      <4>2. flag' = flag
        BY <3>2, RunsOwn
      <4>3. quest'.stage = quest.stage \/ c.call = Salutation
        BY <1>1, <2>6, <4>1 DEF Runs, NoQuest, Salutation
      <4>4. c.call # Salutation
        BY <2>2, <4>1, PollConstants DEF OurOwn, Stops, Salutation, Rollback, Shutdown, StopQuest, NoVisit
      <4> QED BY <2>2, <2>6, <4>2, <4>3, <4>4
    <3> QED BY <2>3, <3>1, <3>2, QuestVisits
  <2> QED BY <1>3, <2>4, <2>5, <2>6 DEF OurOwn
<1> QED BY <1>2, <1>4, <1>5, LatchSteps

-----------------------------------------------------------------------------
(* A visit is undone only while it is unmet.                               *)

\* UnmetIsUndone, from what the latches remember.
LEMMA UndoneStep ==
  ASSUME TypeInv, Remembered, Uncrossed => Said, [Next]_vars
  PROVE  Uncrossed /\ Whole /\ session' = session /\ "rolledback" \in ended' \ ended => ~met
<1> SUFFICES ASSUME Uncrossed, Whole, "rolledback" \in ended', "rolledback" \notin ended
             PROVE  ~flag.salutation
  BY DEF Remembered
<1>1. flag \in FlagType /\ quest.stage = Salutation => Dropped.latch = flag.latch
  BY DEF Dropped, FlagType, FlagNames
<1>2. flag \in FlagType
  BY DEF TypeInv, LatchesTyped
<1>3. ~OnStart
  BY DEF OnStart
<1>4. ended' # ended
  OBVIOUS
<1>5. ~(ComposeSteps \/ TickWatches \/ TickTerminal \/ TickCleanupDone \/ TickCleanup \/ UNCHANGED vars)
  BY <1>4 DEF ComposeSteps, TickRolledBack, TickCompose, TickSelects, TickStartQuest, TickWarp, TickVerifyFill,
     TickArm, TickComposed, ComposeTick, TickWatches, TickTerminal, TickCleanupDone, TickCleanup, vars, history
<1>6. ~(Answer \/ PollAnswer \/ RunVm \/ Restart \/ CheckBegins \/ Cleanup)
  BY <1>4 DEF Answer, PollAnswer, RunVm, Restart, CheckBegins, Cleanup, history
<1>7. ~(\E mode \in Checks, checks \in BOOLEAN : TickRunning(mode, checks))
  BY <1>4 DEF TickRunning, history
<1>8. ~(\E op \in {"conclude", "continue"} : Verdict(op))
  BY <1>4 DEF Verdict
<1>9. \A f : /\ ~HardAbortVisit(f, "aborted") /\ ~HardAbortVisit(f, "broken")
             /\ ~RunReturnHomeShutdown(f)
  BY <1>4 DEF HardAbortVisit, RunReturnHomeShutdown
<1>10. ~(Death \/ FastTravel \/ Abort)
  BY <1>4, <1>9 DEF Death, FastTravel, Abort
<1>11. PICK mode \in Checks : Check(mode)
  BY <1>3, <1>5, <1>6, <1>7, <1>8, <1>10 DEF Next, Ticks, Tasks, Checks
<1>12. ~Meets /\ ~Parts /\ \A g : ~GoesOn(g)
  BY <1>4 DEF Meets, Parts, GoesOn
<1>13. PICK g \in {flag, Dropped} : GoesDown(g)
  BY <1>11, <1>12, CheckDoes
<1>14. ~flag.salutation \/ (quest.stage = Salutation /\ ~g.latch)
  BY <1>9, <1>13 DEF GoesDown
<1> QED BY <1>1, <1>2, <1>14 DEF Said

-----------------------------------------------------------------------------
(* Who is where, kept by every step.                                       *)

\* A visit is brought down, or goes on.
Down(f, why) == RollBackVisit(f) \/ HardAbortVisit(f, why) \/ RunReturnHomeShutdown(f)
BroughtDown ==
  \E f \in FlagType, why \in {"aborted", "broken"} :
    f.hardAbort = flag.hardAbort /\ f.terminal = flag.terminal /\ Down(f, why)
Steady ==
  /\ flag'.hardAbort = flag.hardAbort
  /\ flag'.terminal = flag.terminal \/ (TickCleanup /\ flag'.terminal)
  /\ away' = away \/ TickWarp
  /\ snap' = snap \/ TickStartQuest \/ TickCleanupDone \/ Cleanup \/ Answer
  /\ vm' = vm \/ Sends(Lines) \/ RunVm \/ TickStartQuest \/ TickWarp \/ TickVerifyFill \/ Cleanup
  /\ stage' = stage \/ TickComposed \/ TickTerminal \/ TickCleanupDone

LEMMA EndSteps ==
  ASSUME TypeInv, [Next]_vars
  PROVE  \/ OnStart \/ Restart \/ Steady
         \/ BroughtDown /\ quest' = quest /\ session' = session /\ (Abort \/ (stage' = stage /\ snap' = snap))
<1>1. flag \in FlagType /\ Dropped \in FlagType
  BY DEF TypeInv, LatchesTyped, Dropped, FlagType
<1>2. Dropped.hardAbort = flag.hardAbort /\ Dropped.terminal = flag.terminal
  BY <1>1 DEF Dropped, FlagType, FlagNames
<1>3. CASE ComposeSteps \/ TickWatches
  BY <1>3 DEF ComposeSteps, TickRolledBack, TickCompose, TickSelects, TickStartQuest, TickWarp, TickVerifyFill,
     TickArm, TickComposed, ComposeTick, TickWatches, record, world, Steady
<1>4. CASE TickTerminal \/ RunVm \/ Answer \/ PollAnswer \/ UNCHANGED vars
  BY <1>4 DEF TickTerminal, RunVm, Answer, PollAnswer, vars, latches, record, world, Steady
<1>5. CASE TickCleanupDone \/ TickCleanup \/ CheckBegins
  <2>1. CASE TickCleanupDone
    BY <1>1, <2>1 DEF TickCleanupDone, world, FlagType, FlagNames, Steady
  <2>2. CASE TickCleanup
    BY <1>1, <2>2 DEF TickCleanup, record, world, FlagType, FlagNames, Steady
  <2>3. CASE CheckBegins
    BY <1>1, <2>3 DEF CheckBegins, record, world, FlagType, FlagNames, Steady
  <2> QED BY <1>5, <2>1, <2>2, <2>3
<1>6. ASSUME NEW mode \in Checks, NEW checks \in BOOLEAN, TickRunning(mode, checks) PROVE Steady
  <2>1. UNCHANGED <<stage, snap, vm, away>> /\ flag' \in {flag, [flag EXCEPT !.task = TRUE]}
    BY <1>6 DEF TickRunning, record, world
  <2>2. flag'.hardAbort = flag.hardAbort /\ flag'.terminal = flag.terminal
    BY <1>1, <2>1 DEF FlagType, FlagNames
  <2> QED BY <2>1, <2>2 DEF Steady
<1>7. CASE Cleanup
  BY <1>7 DEF Cleanup, latches, Steady
<1>8. ASSUME NEW op \in {"conclude", "continue"}, Verdict(op) PROVE Steady
  <2>1. UNCHANGED <<stage, snap, away, quest, session>>
    BY <1>8 DEF Verdict
  <2>2. SaysGoodbye \/ UNCHANGED <<vm, flag>>
    BY <1>8, VerdictDoes
  <2>3. SaysGoodbye => Sends(Lines)
    BY <2>1 DEF SaysGoodbye, Sends, Lines
  <2>4. SaysGoodbye => flag'.hardAbort = flag.hardAbort /\ flag'.terminal = flag.terminal
    BY <1>1 DEF SaysGoodbye, FlagType, FlagNames
  <2> QED BY <2>1, <2>2, <2>3, <2>4 DEF Steady
<1>9. ASSUME NEW mode \in Checks, Check(mode)
      PROVE  Steady \/ (BroughtDown /\ quest' = quest /\ session' = session /\ stage' = stage /\ snap' = snap)
  <2>1. UNCHANGED <<stage, snap, quest, session>>
    BY <1>9 DEF Check
  <2>2. ASSUME NEW g \in {flag, Dropped}, GoesOn(g) PROVE Steady
    BY <1>2, <2>1, <2>2 DEF GoesOn, Steady
  <2>3. ASSUME NEW g \in {flag, Dropped}, GoesDown(g) PROVE BroughtDown
    BY <1>1, <1>2, <2>3 DEF GoesDown, BroughtDown, Down
  <2>4. CASE Meets
    <3>1. Sends(Lines) /\ away' = away
      BY <2>1, <2>4 DEF Meets, Dispatch, Send, Sends, Lines
    <3>2. flag'.hardAbort = Dropped.hardAbort /\ flag'.terminal = Dropped.terminal
      BY <1>1, <2>4 DEF Meets, FlagType, FlagNames
    <3> QED BY <1>2, <2>1, <3>1, <3>2 DEF Steady
  <2>5. CASE Parts
    <3>1. Sends(Lines) /\ away' = away /\ flag' = Dropped
      BY <2>1, <2>5 DEF Parts, Dispatch, Send, Sends, Lines
    <3> QED BY <1>2, <2>1, <3>1 DEF Steady
  <2> QED BY <1>9, <2>1, <2>2, <2>3, <2>4, <2>5, CheckDoes
<1>10. CASE Death \/ FastTravel
  <2>1. UNCHANGED <<stage, snap, quest, session>>
    BY <1>10 DEF Death, FastTravel, beside, record
  <2>2. UNCHANGED <<flag, away, vm>> \/ HardAbortVisit(flag, "aborted") \/ RunReturnHomeShutdown(flag)
    BY <1>10 DEF Death, FastTravel
  <2>3. CASE UNCHANGED <<flag, away, vm>>
    BY <2>1, <2>3 DEF Steady
  <2> QED BY <1>1, <2>1, <2>2, <2>3 DEF BroughtDown, Down
<1>11. CASE Abort
  <2> DEFINE f == [flag EXCEPT !.inFlight = FALSE]
  <2>1. f \in FlagType /\ f.hardAbort = flag.hardAbort /\ f.terminal = flag.terminal
    BY <1>1 DEF FlagType, FlagNames
  <2>2. HardAbortVisit(f, "aborted") /\ quest' = quest /\ session' = session
    BY <1>11 DEF Abort
  <2> HIDE DEF f
  <2> QED BY <1>11, <2>1, <2>2 DEF BroughtDown, Down
<1> QED BY <1>3, <1>4, <1>5, <1>6, <1>7, <1>8, <1>9, <1>10, <1>11 DEF Next, Ticks, Tasks, Checks

\* The dead stay dead, and a visitor given up stays so.
LEMMA LostSteps ==
  ASSUME TypeInv, [Next]_vars
  PROVE  dead \subseteq dead' /\ stranded \subseteq stranded'
<1>1. CASE ComposeSteps \/ TickWatches
  BY <1>1 DEF ComposeSteps, TickRolledBack, TickCompose, TickSelects, TickStartQuest, TickWarp, TickVerifyFill,
     TickArm, TickComposed, ComposeTick, TickWatches, world, history
<1>2. CASE TickTerminal \/ TickCleanupDone \/ TickCleanup \/ UNCHANGED vars \/ OnStart \/ RunVm \/ Answer
           \/ PollAnswer \/ Restart \/ \E mode \in Checks, checks \in BOOLEAN : TickRunning(mode, checks)
  BY <1>2 DEF TickTerminal, TickCleanupDone, TickCleanup, TickRunning, vars, OnStart, RunVm, Answer, PollAnswer,
     Restart, world, history
<1>3. CASE Tasks
  BY <1>3 DEF Tasks, CheckBegins, Check, Verdict, Cleanup, world
<1>4. CASE Death \/ FastTravel \/ Abort
  BY <1>4 DEF Death, FastTravel, Abort, beside
<1> QED BY <1>1, <1>2, <1>3, <1>4 DEF Next, Ticks, Checks

LEMMA QuestTyped ==
  ASSUME TypeInv
  PROVE  /\ quest \in [visit : Visits \cup {NoVisit}, stage : QuestStages,
                       sender : Visits \cup {NoVisit}, anchor : BOOLEAN]
         /\ IsABag(vm) /\ BagToSet(vm) \subseteq CallType
         /\ NoVisit \notin Visits
BY PollConstants DEF TypeInv, WorldTyped, CallBag, NoVisit

\* The two fills go to the visit whose quest it is.
LEMMA SenderStep ==
  ASSUME TypeInv, SenderOfQuest, [Next]_vars, Uncrossed'
  PROVE  SenderOfQuest'
<1>1. quest \in [visit : Visits \cup {NoVisit}, stage : QuestStages,
                sender : Visits \cup {NoVisit}, anchor : BOOLEAN]
  BY QuestTyped
<1>2. CASE quest' = quest
  BY <1>2 DEF SenderOfQuest
<1>3. CASE quest.visit = NoVisit /\ quest' = [quest EXCEPT !.visit = session, !.stage = 0]
  BY <1>1, <1>3 DEF SenderOfQuest
<1>4. CASE RunVm
  <2>1. PICK c \in BagToSet(vm) : Runs(c) /\ (quest.visit = c.visit \/ c.call \in Stops)
    BY <1>4, RunsOwn
  <2>2. FillSender \notin Stops
    BY DEF FillSender, Stops, Rollback, Shutdown, StopQuest
  <2> QED BY <1>1, <2>1, <2>2 DEF Runs, SenderOfQuest, NoQuest
<1> QED BY <1>2, <1>3, <1>4, VmSteps DEF Sends

LEMMA AwayStep ==
  ASSUME TypeInv, Away, LookedAfter, [Next]_vars
  PROVE  Away'
<1>1. dead \subseteq dead' /\ stranded \subseteq stranded'
  BY LostSteps
<1>2. CASE OnStart
  <2>1. away' = away /\ stage = "NOT_RUNNING"
    BY <1>2 DEF OnStart, world
  <2>2. away \subseteq dead \cup stranded
    BY <2>1 DEF Away, LookedAfter, Out
  <2> QED BY <1>1, <2>1, <2>2 DEF Away
<1>3. CASE ~OnStart
  <2>1. session' = session
    BY <1>3, StageSteps
  <2>2. CASE Restart
    BY <1>1, <2>1, <2>2 DEF Restart, world, Away
  <2>3. CASE Steady
    BY <1>1, <2>1, <2>3 DEF Steady, TickWarp, ComposeTick, Away
  <2>4. CASE BroughtDown
    <3>1. away' \subseteq away
      BY <2>4 DEF BroughtDown, Down, RollBackVisit, HardAbortVisit, RunReturnHomeShutdown, SentHomeAlive, SentHome
    <3> QED BY <1>1, <2>1, <3>1 DEF Away
  <2> QED BY <1>3, <2>2, <2>3, <2>4, EndSteps
<1> QED BY <1>2, <1>3

\* A hard abort is terminal.
LEMMA AbortStep ==
  ASSUME TypeInv, flag.hardAbort => flag.terminal, [Next]_vars
  PROVE  flag'.hardAbort => flag'.terminal
<1>1. CASE OnStart \/ Restart
  BY <1>1 DEF OnStart, Restart, NoFlags, FlagNames
<1>2. CASE Steady
  BY <1>2 DEF Steady
<1>3. ASSUME NEW f \in FlagType, NEW why \in {"aborted", "broken"},
             f.hardAbort = flag.hardAbort, f.terminal = flag.terminal, Down(f, why)
      PROVE  flag'.hardAbort => flag'.terminal
  <2>1. flag' \in {f, [f EXCEPT !.terminal = TRUE], [f EXCEPT !.hardAbort = TRUE, !.terminal = TRUE]}
    BY <1>3 DEF Down, RollBackVisit, HardAbortVisit, RunReturnHomeShutdown
  <2> QED BY <1>3, <2>1 DEF FlagType, FlagNames
<1> QED BY <1>1, <1>2, <1>3, EndSteps DEF BroughtDown

\* A visit that is brought down brings its visitor home.
LEMMA HomeAgain ==
  ASSUME TypeInv, NEW f, NEW why, Down(f, why), ~f.hardAbort,
         snap.known, quest.sender = session, session \in Visits, session \notin dead
  PROVE  session \notin away'
<1>1. quest.sender # NoVisit
  BY QuestTyped
<1>2. SentHome = away \ {session} /\ SentHomeAlive = away \ {session}
  BY <1>1 DEF SentHome, SentHomeAlive
<1> QED BY <1>2 DEF Down, RollBackVisit, HardAbortVisit, RunReturnHomeShutdown

\* What Papyrus runs leaves a held quest held.
LEMMA HeldRuns ==
  ASSUME TypeInv, Held, session \in Visits, RunVm, Uncrossed'
  PROVE  /\ Held' /\ session' = session
         /\ quest.sender = session => quest'.sender = session
<1>1. quest \in [visit : Visits \cup {NoVisit}, stage : QuestStages,
                sender : Visits \cup {NoVisit}, anchor : BOOLEAN]
      /\ NoVisit \notin Visits
  BY QuestTyped
<1>2. session' = session /\ snap' = snap
  BY RunsOwn
<1>3. PICK c \in BagToSet(vm) : Runs(c) /\ (quest.visit = c.visit \/ (quest.visit = NoVisit /\ c.call \in Stops))
  BY RunsOwn
<1>4. c.visit = session /\ c.call \notin Stops /\ StopQuest \in Stops
  BY <1>1, <1>3 DEF Held, OurOwn, Stops
<1>5. \/ quest' \in {quest, [quest EXCEPT !.sender = session]} \/ quest' = [quest EXCEPT !.anchor = TRUE]
      \/ quest' = [quest EXCEPT !.stage = c.call]
  BY <1>3, <1>4 DEF Runs
<1>6. quest'.visit = session /\ (quest.sender = session => quest'.sender = session)
  BY <1>1, <1>5 DEF Held
<1>7. ~OurOwn(Stops)'
  <2> SUFFICES ASSUME NEW e \in BagToSet(vm'), e.call \in Stops, e.visit = session PROVE FALSE
    BY <1>2 DEF OurOwn, Stops
  <2>1. e \in BagToSet(vm)
    BY <1>3, <1>4 DEF Runs
  <2> QED BY <2>1 DEF Held, OurOwn
<1> QED BY <1>2, <1>6, <1>7 DEF Held

\* The calls a visit makes on its way do not stop its quest.
LEMMA HeldSends ==
  ASSUME TypeInv, session \in Visits, session' = session, ~OurOwn(Stops),
         vm' = vm \/ Sends(Lines) \/ TickWarp \/ vm' = vm (+) SetToBag({Call(Salutation)})
  PROVE  ~OurOwn(Stops)'
<1>1. \A c \in Lines \cup {Salutation, FillSender, FillAnchor} : Call(c).call \notin Stops
  BY DEF Call, Lines, Discuss, Valediction, ReturnHome, Salutation, FillSender, FillAnchor, Stops,
     Rollback, Shutdown, StopQuest
<1>2. ASSUME NEW E, vm' = vm (+) SetToBag(E), \A e \in E : e.call \notin Stops
      PROVE  ~OurOwn(Stops)'
  <2>1. BagToSet(vm') = BagToSet(vm) \cup E
    BY <1>2, QuestTyped, MoreCalls
  <2> QED BY <1>2, <2>1 DEF OurOwn, Stops
<1>3. CASE vm' = vm
  BY <1>3 DEF OurOwn, Stops
<1>4. CASE TickWarp
  <2>1. \A e \in {Call(c) : c \in Fills} : e.call \notin Stops
    BY <1>1 DEF Fills
  <2> QED BY <1>2, <1>3, <1>4, <2>1 DEF TickWarp
<1>5. ASSUME NEW c \in Lines \cup {Salutation}, vm' = vm (+) SetToBag({Call(c)}) PROVE ~OurOwn(Stops)'
  <2>1. \A e \in {Call(c)} : e.call \notin Stops
    BY <1>1
  <2> QED BY <1>2, <1>5, <2>1
<1> QED BY <1>3, <1>4, <1>5 DEF Sends

LEMMA OnTheWayStep ==
  ASSUME TypeInv, Whose, SenderOfQuest, OnTheWay, [Next]_vars, Uncrossed, Uncrossed'
  PROVE  OnTheWay'
<1> SUFFICES ASSUME stage' = "COMPOSE", sub' \in After, session' \notin dead'
             PROVE  Held' /\ (sub' = "Succeeded" => quest'.sender = session')
  BY DEF OnTheWay, After
<1>1. ~OnStart
  BY DEF OnStart, After
<1>2. /\ stage = "COMPOSE" /\ session \in Visits /\ session' = session
      /\ ComposeSteps \/ Answer \/ RunVm \/ Death \/ Restart \/ Idle
  BY <1>1, Composing
<1>3. session \notin dead
  BY <1>2, LostSteps
<1>4. CASE Answer \/ Restart \/ Death
  <2>1. ~Answer /\ ~Restart
    BY DEF Answer, Restart, After
  <2> QED BY <1>2, <1>4, <2>1, DeathDoes
<1>5. CASE RunVm
  <2>1. UNCHANGED sub
    BY <1>5 DEF RunVm
  <2>2. Held /\ (sub = "Succeeded" => quest.sender = session)
    BY <1>2, <1>3, <2>1 DEF OnTheWay
  <2> QED BY <1>2, <1>5, <2>1, <2>2, HeldRuns
<1>6. CASE Idle
  BY <1>2, <1>3, <1>6 DEF Idle, OnTheWay, Held, OurOwn
<1>7. CASE TickStartQuest
  <2>1. sub = "StartingQuest" /\ sub' = "Warping" /\ snap'.known /\ quest.visit = NoVisit
        /\ vm' = vm (+) SetToBag({Call(Salutation)}) /\ quest' = [quest EXCEPT !.visit = session, !.stage = 0]
    BY <1>2, <1>7 DEF TickStartQuest, ComposeTick, After, Uncrossed, Dispatch, Send
  <2>2. ~OurOwn(Stops)
    BY <1>2, <2>1 DEF Whose, Asking, NotYet, Before, OurOwn
  <2>3. quest'.visit = session
    BY <2>1, QuestTyped
  <2>4. ~OurOwn(Stops)'
    BY <1>2, <2>1, <2>2, HeldSends
  <2> QED BY <1>2, <2>1, <2>3, <2>4 DEF Held
<1>8. CASE TickWarp \/ TickVerifyFill \/ TickArm
  <2>1. sub \in {"Warping", "VerifyingFill", "Arming"} /\ UNCHANGED <<snap, quest>>
    BY <1>8 DEF TickWarp, TickVerifyFill, TickArm, ComposeTick, record
  <2>2. Held
    BY <1>2, <1>3, <2>1 DEF OnTheWay, After
  <2>3. vm' = vm \/ TickWarp
    BY <1>8 DEF TickVerifyFill, TickArm, After
  <2>4. ~OurOwn(Stops)'
    BY <1>2, <2>2, <2>3, HeldSends DEF Held
  <2>5. sub' = "Succeeded" => quest.sender # NoVisit
    BY <1>8 DEF TickWarp, TickVerifyFill, TickArm, ComposeTick
  <2> QED BY <1>2, <2>1, <2>2, <2>4, <2>5 DEF Held, SenderOfQuest
<1>9. CASE TickRolledBack \/ TickCompose \/ TickSelects \/ TickComposed
  <2>1. sub' \notin After \/ stage' # "COMPOSE"
    BY <1>9 DEF TickRolledBack, TickCompose, TickSelects, TickComposed, After
  <2> QED BY <2>1
<1> QED BY <1>2, <1>4, <1>5, <1>6, <1>7, <1>8, <1>9 DEF ComposeSteps

LEMMA LookedAfterStep ==
  ASSUME TypeInv, Whose, Whereabouts, [Next]_vars, Uncrossed, Uncrossed'
  PROVE  LookedAfter'
<1> SUFFICES ASSUME Out'
             PROVE  /\ Held' /\ ~flag'.terminal
                    /\ \/ stage' = "COMPOSE" /\ sub' \in After \ {"Warping"}
                       \/ stage' = "RUNNING" /\ quest'.sender = session'
  BY DEF LookedAfter
<1>1. LookedAfter /\ Away /\ OnTheWay /\ SenderOfQuest /\ (flag.hardAbort => flag.terminal)
  BY DEF Whereabouts
<1>2. session' \in away' /\ session' \notin dead' /\ session' \notin stranded'
      /\ session' \notin dead /\ session' \notin stranded
  BY LostSteps DEF Out
<1>3. ~OnStart
  <2> SUFFICES ASSUME OnStart PROVE FALSE
    OBVIOUS
  <2>1. away' = away /\ stage = "NOT_RUNNING" /\ session' = session + 1 /\ session \in Nat
    BY SessionGrows DEF OnStart, world
  <2>2. session \in away /\ session' = session
    BY <1>1, <1>2, <2>1 DEF Away
  <2> QED BY <2>1, <2>2
<1>4. session' = session
  BY <1>3, StageSteps
<1>5. TickWarp \/ Out
  <2>1. CASE Restart
    BY <1>2, <1>4, <2>1 DEF Restart, world, Out
  <2>2. CASE Steady
    BY <1>2, <1>4, <2>2 DEF Steady, Out
  <2>3. CASE BroughtDown
    <3>1. away' \subseteq away
      BY <2>3 DEF BroughtDown, Down, RollBackVisit, HardAbortVisit, RunReturnHomeShutdown, SentHomeAlive, SentHome
    <3> QED BY <1>2, <1>4, <3>1 DEF Out
  <2> QED BY <1>3, <2>1, <2>2, <2>3, EndSteps
<1>6. CASE TickWarp
  <2>1. stage = "COMPOSE" /\ sub = "Warping" /\ UNCHANGED <<stage, flag, snap, quest>>
    BY <1>6 DEF TickWarp, ComposeTick, record
  <2>2. Held /\ session \in Visits
    BY <1>1, <1>2, <1>4, <2>1, Acting DEF OnTheWay, After
  <2>3. ~flag.terminal
    BY <1>2, <1>4, <2>1 DEF Whose, NotYet
  <2>4. ~OurOwn(Stops)'
    BY <1>4, <1>6, <2>2, HeldSends DEF Held
  <2>5. sub' = "VerifyingFill"
    BY <1>1, <1>2, <1>4, <1>6, <2>1 DEF TickWarp, LookedAfter, Out
  <2> QED BY <1>4, <2>1, <2>2, <2>3, <2>4, <2>5 DEF Held, After
<1>7. CASE Out /\ ~TickWarp /\ stage = "COMPOSE"
  <2>1. Held /\ ~flag.terminal /\ ~flag.hardAbort /\ sub \in After \ {"Warping"}
    BY <1>1, <1>7 DEF LookedAfter
  <2>2. session \in Visits
    BY <1>7, Acting
  <2>3. CASE stage' = "COMPOSE"
    <3>1. ComposeSteps \/ Answer \/ RunVm \/ Death \/ Restart \/ Idle
      BY <1>3, <2>3, Composing
    <3>2. CASE RunVm
      BY <1>7, <2>1, <2>2, <3>2, HeldRuns, RunsOwn
    <3>3. CASE Death
      BY <1>2, <1>4, <3>3, DeathDoes
    <3>4. CASE Restart
      BY <1>2, <1>4, <1>7, <3>4 DEF Restart, Out
    <3>5. CASE Answer
      <4>1. sub = "ComposingLLM"
        BY <1>7, <3>5 DEF Answer, Uncrossed, Whose, Asking
      <4> QED BY <2>1, <4>1 DEF After
    <3>6. CASE Idle
      BY <1>4, <2>1, <2>3, <3>6 DEF Idle, Held, OurOwn
    <3>7. CASE ComposeSteps
      <4>1. TickVerifyFill \/ TickArm
        BY <1>7, <2>1, <2>3, <3>7 DEF ComposeSteps, TickRolledBack, TickCompose, TickSelects, TickStartQuest,
           TickComposed, ComposeTick, Honoured, After
      <4>2. UNCHANGED <<flag, snap, quest>> /\ vm' = vm /\ sub' \in {"VerifyingFill", "Arming", "Succeeded"}
        BY <1>2, <1>4, <4>1 DEF TickVerifyFill, TickArm, ComposeTick, record
      <4> QED BY <1>4, <2>1, <2>3, <4>2 DEF Held, OurOwn, After
    <3> QED BY <3>1, <3>2, <3>3, <3>4, <3>5, <3>6, <3>7
  <2>4. CASE stage' # "COMPOSE"
    <3>1. CASE TickComposed
      <4>1. stage' = "RUNNING" /\ sub = "Succeeded" /\ UNCHANGED <<flag, snap, quest, vm>>
        BY <2>1, <3>1 DEF TickComposed, ComposeTick, After, record
      <4>2. quest.sender = session
        BY <1>1, <1>2, <1>4, <1>7, <4>1 DEF OnTheWay, After
      <4> QED BY <1>4, <2>1, <4>1, <4>2 DEF Held, OurOwn
    <3>2. CASE Abort
      <4> DEFINE f == [flag EXCEPT !.inFlight = FALSE]
      <4>1. HardAbortVisit(f, "aborted")
            /\ (session \in away /\ quest.sender = NoVisit => session \in stranded')
        BY <3>2 DEF Abort
      <4>2. ~f.hardAbort
        BY <2>1 DEF TypeInv, LatchesTyped, FlagType, FlagNames
      <4> HIDE DEF f
      <4>3. quest.sender = session
        BY <1>1, <1>2, <1>4, <1>7, <2>1, <4>1 DEF SenderOfQuest, Held, Out
      <4> QED BY <1>2, <1>4, <2>1, <2>2, <4>1, <4>2, <4>3, HomeAgain DEF Down, Held
    <3>3. ~TickTerminal /\ ~TickCleanupDone
      BY <1>7 DEF TickTerminal, TickCleanupDone
    <3> QED BY <1>3, <1>7, <2>4, <3>1, <3>2, <3>3, EndSteps DEF Steady, Restart
  <2> QED BY <2>3, <2>4
<1>8. CASE Out /\ ~TickWarp /\ stage # "COMPOSE"
  <2>1. Held /\ ~flag.terminal /\ ~flag.hardAbort /\ stage = "RUNNING" /\ quest.sender = session
    BY <1>1, <1>8 DEF LookedAfter
  <2>2. session \in Visits
    BY <2>1, Acting
  <2>3. CASE RunVm
    BY <2>1, <2>2, <2>3, HeldRuns, RunsOwn
  <2>4. CASE Restart
    <3>1. UNCHANGED <<stage, quest, snap>> /\ vm' = vm /\ ~flag'.terminal
      BY <2>4 DEF Restart, record, world, NoFlags, FlagNames
    <3> QED BY <1>4, <2>1, <3>1 DEF Held, OurOwn
  <2>5. CASE BroughtDown
    <3>1. PICK f \in FlagType, why \in {"aborted", "broken"} : f.hardAbort = flag.hardAbort /\ Down(f, why)
      BY <2>5 DEF BroughtDown
    <3> QED BY <1>2, <1>4, <2>1, <2>2, <3>1, HomeAgain DEF Held
  <2>6. CASE Steady /\ ~RunVm
    <3>1. ~Cleanup
      <4>1. tasks \in Seq(TaskType) /\ (tasks # <<>> => 1 \in DOMAIN tasks /\ Head(tasks) = tasks[1])
        <5>1. tasks \in Seq(TaskType)
          BY DEF TypeInv, WorldTyped
        <5> QED BY <5>1, Popped
      <4> QED BY <2>1, <4>1 DEF Cleanup, Uncrossed, Whose, OwnTasks
    <3>2. ~Answer
      BY <2>1 DEF Answer, Uncrossed, Whose, Asking
    <3>3. ~TickStartQuest /\ ~TickVerifyFill /\ ~TickComposed /\ ~TickTerminal /\ ~TickCleanup /\ ~TickCleanupDone
      BY <2>1 DEF TickStartQuest, TickVerifyFill, TickComposed, ComposeTick, TickTerminal, TickCleanup, TickCleanupDone
    <3>4. /\ stage' = stage /\ snap' = snap /\ ~flag'.terminal
          /\ vm' = vm \/ Sends(Lines)
      BY <1>8, <2>1, <2>6, <3>1, <3>2, <3>3 DEF Steady
    <3>5. quest' = quest
      BY <2>6, <3>3, QuestVisits
    <3>6. ~OurOwn(Stops)'
      BY <1>4, <2>1, <2>2, <3>4, HeldSends DEF Held
    <3> QED BY <1>4, <2>1, <3>4, <3>5, <3>6 DEF Held
  <2> QED BY <1>3, <2>3, <2>4, <2>5, <2>6, EndSteps
<1> QED BY <1>5, <1>6, <1>7, <1>8

LEMMA StoppedStays ==
  ASSUME TypeInv, Stopped, [Next]_vars, ~Restart
  PROVE  Stopped' \/ TickStartQuest
<1>1. CASE ~RunVm
  <2>1. quest' = quest \/ TickStartQuest
    BY <1>1, QuestVisits
  <2>2. Asked(Stops) => Asked(Stops)'
    BY <1>1, VmGrows DEF Behind, Asked, Stops
  <2> QED BY <2>1, <2>2 DEF Stopped
<1>2. CASE RunVm /\ quest.visit = NoVisit
  <2>1. quest'.visit = NoVisit \/ TickStartQuest
    BY <1>2, QuestVisits
  <2> QED BY <2>1 DEF Stopped
<1>3. CASE RunVm /\ quest.visit # NoVisit
  <2>1. PICK c \in BagToSet(vm) : Runs(c)
    BY <1>3, RunVmCalls DEF TypeInv
  <2>2. CASE c.call \in Stops
    BY <2>1, <2>2 DEF Runs, Stopped, NoQuest
  <2>3. CASE c.call \notin Stops
    <3>1. PICK e \in BagToSet(vm) : e.call \in Stops
      BY <1>3 DEF Stopped, Asked
    <3>2. e \in BagToSet(vm')
      BY <2>1, <2>3, <3>1 DEF Runs
    <3> QED BY <3>1, <3>2 DEF Stopped, Asked, Stops
  <2> QED BY <2>2, <2>3
<1> QED BY <1>1, <1>2, <1>3

\* Whoever brings a visit down asks for its quest to be stopped.
LEMMA DownStops ==
  ASSUME TypeInv, NEW f, NEW why, HardAbortVisit(f, why), ~f.hardAbort, session \in Visits
  PROVE  Stopped'
<1>1. vm' = vm (+) SetToBag({Call(Shutdown)}) /\ IsABag(vm)
  BY QuestTyped DEF HardAbortVisit, Dispatch, Send
<1>2. Call(Shutdown) \in BagToSet(vm')
  BY <1>1, MoreCalls
<1> QED BY <1>2 DEF Stopped, Asked, Stops, Call

LEMMA StoppingStep ==
  ASSUME TypeInv, Whose, Stopping, [Next]_vars, Uncrossed, Uncrossed'
  PROVE  Stopping'
<1> SUFFICES ASSUME stage' = "NOT_RUNNING" \/ flag'.hardAbort
             PROVE  Stopped'
  BY DEF Stopping
<1>1. ~OnStart /\ ~Restart
  BY DEF OnStart, Restart, NoFlags, FlagNames
<1>2. ASSUME stage = "NOT_RUNNING" \/ flag.hardAbort PROVE Stopped'
  <2>1. Stopped
    BY <1>2 DEF Stopping
  <2>2. ~TickStartQuest \/ quest' = quest
    <3>1. TickStartQuest => stage = "COMPOSE" /\ sub = "StartingQuest"
      BY DEF TickStartQuest, ComposeTick
    <3> QED BY <1>2, <3>1 DEF Whose, Asking, NotYet, Before
  <2>3. Stopped' \/ (TickStartQuest /\ quest' = quest)
    BY <1>1, <2>1, <2>2, StoppedStays
  <2>4. CASE TickStartQuest
    <3>1. stage = "COMPOSE" /\ sub = "StartingQuest"
      BY <2>4 DEF TickStartQuest, ComposeTick
    <3> QED BY <1>2, <3>1 DEF Whose, Asking, NotYet, Before
  <2> QED BY <2>3, <2>4
<1>3. CASE stage # "NOT_RUNNING" /\ ~flag.hardAbort
  <2>1. CASE Steady
    <3>1. TickCleanupDone
      BY <1>3, <2>1 DEF Steady, TickComposed, TickTerminal
    <3>2. quest.visit = NoVisit /\ quest' = quest
      BY <3>1 DEF TickCleanupDone, Uncrossed, world
    <3> QED BY <3>2 DEF Stopped
  <2>2. CASE BroughtDown /\ quest' = quest /\ session' = session /\ (Abort \/ (stage' = stage /\ snap' = snap))
    <3>1. session \in Visits
      BY <1>3, Acting
    <3>2. CASE Abort
      <4> DEFINE f == [flag EXCEPT !.inFlight = FALSE]
      <4>1. HardAbortVisit(f, "aborted")
        BY <3>2 DEF Abort
      <4>2. ~f.hardAbort
        BY <1>3 DEF TypeInv, LatchesTyped, FlagType, FlagNames
      <4> HIDE DEF f
      <4> QED BY <3>1, <4>1, <4>2, DownStops
    <3>3. CASE stage' = stage
      <4>1. PICK f \in FlagType, why \in {"aborted", "broken"} : f.hardAbort = flag.hardAbort /\ Down(f, why)
        BY <2>2 DEF BroughtDown
      <4>2. ~RollBackVisit(f) /\ ~RunReturnHomeShutdown(f)
        <5>1. flag'.hardAbort
          BY <1>3, <3>3
        <5>2. RollBackVisit(f) \/ RunReturnHomeShutdown(f) => flag' = [f EXCEPT !.terminal = TRUE]
          BY DEF RollBackVisit, RunReturnHomeShutdown
        <5>3. [f EXCEPT !.terminal = TRUE].hardAbort = f.hardAbort
          BY DEF FlagType, FlagNames
        <5> QED BY <1>3, <4>1, <5>1, <5>2, <5>3
      <4> QED BY <1>3, <3>1, <4>1, <4>2, DownStops DEF Down
    <3> QED BY <2>2, <3>2, <3>3
  <2> QED BY <1>1, <2>1, <2>2, EndSteps
<1> QED BY <1>2, <1>3

-----------------------------------------------------------------------------
(* What the three theorems say.                                            *)

LEMMA VisitInit == Init => VisitInv
<1> SUFFICES ASSUME Init PROVE VisitInv
  OBVIOUS
<1>1. ~flag.salutation /\ ~flag.hardAbort /\ ~flag.terminal
  BY DEF Init, NoFlags, FlagNames
<1>2. Whose /\ Opening
  BY <1>1, NoCalls, PollConstants DEF Init, PollInit, Whose, Numbered, OwnTasks, Asking, NotYet, Opening, Untouched, Said,
     NoQuest, NoVisit
<1>3. Whereabouts /\ Stopping
  BY <1>1 DEF Init, Whereabouts, SenderOfQuest, Away, OnTheWay, LookedAfter, Stopping, Stopped, NoQuest, Out
<1> QED BY <1>2, <1>3 DEF VisitInv

LEMMA VisitStep ==
  ASSUME TypeInv, VisitInv, [Next]_vars
  PROVE  VisitInv'
<1> SUFFICES ASSUME Uncrossed' PROVE (Whose /\ Opening /\ Whereabouts /\ Stopping)'
  BY DEF VisitInv
<1>1. Uncrossed /\ Whose /\ Opening /\ Whereabouts /\ Stopping
  BY Crossing DEF VisitInv
<1>2. /\ SenderOfQuest /\ Away /\ OnTheWay /\ LookedAfter /\ (flag.hardAbort => flag.terminal)
      /\ Untouched /\ Said
  BY <1>1 DEF Whereabouts, Opening
<1>3. Whose'
  BY <1>1, <1>2, NumberedStep, OwnTasksStep, AskingStep, NotYetStep DEF Whose
<1>4. Opening'
  BY <1>1, <1>2, UntouchedStep, SaidStep DEF Opening
<1>5. SenderOfQuest' /\ Away' /\ OnTheWay' /\ LookedAfter' /\ (flag'.hardAbort => flag'.terminal)
  BY <1>1, <1>2, SenderStep, AwayStep, OnTheWayStep, LookedAfterStep, AbortStep
<1>6. Whereabouts'
  BY <1>5 DEF Whereabouts
<1>7. Stopping'
  BY <1>1, StoppingStep
<1> QED BY <1>3, <1>4, <1>6, <1>7

LEMMA VisitHolds == Spec => [](TypeInv /\ Remembered /\ VisitInv)
BY VisitInit, VisitStep, RememberedHolds, TypeInit, TypeStep, PTL DEF Spec

\* LeavesNothingBehind: however a visit ends, its quest is stopped or about to
\* be, and its visitor is home, unless dead or given up on where they stand.
THEOREM NothingLeftBehind == Spec => []LeavesNothingBehind
<1>1. TypeInv /\ VisitInv => LeavesNothingBehind
  <2> SUFFICES ASSUME VisitInv, Uncrossed, stage = "NOT_RUNNING"
               PROVE  /\ away \subseteq dead \cup stranded
                      /\ quest.visit = NoVisit \/ \E c \in BagToSet(vm) : c.call \in {Rollback, Shutdown, StopQuest}
    BY DEF LeavesNothingBehind
  <2>1. Whereabouts /\ Stopping
    BY DEF VisitInv
  <2>2. away \subseteq dead \cup stranded
    BY <2>1 DEF Whereabouts, Away, LookedAfter, Out
  <2> QED BY <2>1, <2>2 DEF Stopping, Stopped, Asked, Stops
<1> QED BY <1>1, VisitHolds, PTL

\* UnmetIsUndone: a rollback, whoever asked for it and when, is acted on only
\* while the opening line has not been said.
THEOREM UndoneUnmet == Spec => UnmetIsUndone
<1>1. VisitInv => (Uncrossed => Said)
  BY DEF VisitInv, Opening
<1>2. TypeInv /\ Remembered /\ VisitInv /\ [Next]_vars =>
        [Uncrossed /\ Whole /\ session' = session /\ "rolledback" \in ended' \ ended => ~met]_vars
  BY <1>1, UndoneStep
<1> QED BY <1>2, VisitHolds, PTL DEF Spec, UnmetIsUndone
=============================================================================
