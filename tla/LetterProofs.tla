---------------------------- MODULE LetterProofs ----------------------------
(***************************************************************************)
(* The letter beat over its pool, for any number of slots, letters and     *)
(* restarts and every setting of its timers: types; that whoever the beat  *)
(* promotes it demotes; that a slot held for a letter is never forgotten,  *)
(* and that the courier carries no letter the pool has given up.           *)
(*                                                                         *)
(* TypeOK is not inductive: a call is for a letter only because a session  *)
(* has one, and a sweep's calls are a sequence only because there are      *)
(* finitely many copies of letters to fetch (IInv).  The two facts about   *)
(* letters need to know where every letter of every slot is (LInv): that   *)
(* a session's own letter is nowhere before its dispatch (Numbered,        *)
(* SubPhaseFits, Fresh), that only the slot in flight waits for its quest  *)
(* (Underway), and, slot by slot, that a letter is in one place, that no   *)
(* call meant for an earlier letter is meant for the one on its way, and   *)
(* that a quest with nobody waiting for it is about to be stopped          *)
(* (SlotFits).                                                             *)
(***************************************************************************)
EXTENDS NPCLetterBeat, WellFoundedInduction, FiniteSetTheorems, SequenceTheorems, TLAPS

SessionHasLetter == stage # "NOT_RUNNING" => session \in Letters
CopiesFinite == IsFiniteSet(copies)

\* The sender on record is of the letter of this session; whoever is at the
\* designated rank is that sender, from the dispatch to the clean-up.
SenderIsOurs ==
  Uncrossed =>
    /\ sender \in {NoLetter, session}
    /\ designated # NoLetter => designated = sender /\ stage \notin {"NOT_RUNNING", "CLEANED"}

IInv == TypeOK /\ SessionHasLetter /\ CopiesFinite /\ SenderIsOurs

-----------------------------------------------------------------------------
(* What a CHOOSE of the least finds: the lowest free slot.                 *)

LessThan == {ss \in Nat \X Nat : ss[1] < ss[2]}

\* A set of numbers has a least one.
LEMMA LeastExists ==
  ASSUME NEW S \in SUBSET Nat, S # {}
  PROVE  \E m \in S : \A n \in S : m <= n
<1>1. IsWellFoundedOn(LessThan, Nat)
  BY NatLessThanWellFounded DEF OpToRel, LessThan
<1>2. PICK m \in S : \A n \in S : ~ (<<n, m>> \in LessThan)
  BY <1>1, WFMin
<1>3. \A n \in S : ~ (n < m)
  BY <1>2 DEF LessThan
<1> QED BY <1>3

-----------------------------------------------------------------------------
(* Lemmas about the operators of the pool.                                 *)

\* SetToSeq lists a finite set.
LEMMA SetToSeqType ==
  ASSUME NEW S, IsFiniteSet(S)
  PROVE  SetToSeq(S) \in Seq(S)
<1>1. /\ Cardinality(S) \in Nat
      /\ ExistsBijection(1 .. Cardinality(S), S)
  BY FS_CardinalityType
<1>2. PICK f : f \in Bijection(1 .. Cardinality(S), S)
  BY <1>1 DEF ExistsBijection
<1>3. f \in [1 .. Cardinality(S) -> S] /\ IsInjective(f)
  BY <1>2 DEF Bijection, Injection
<1>4. SetToSeq(S) \in [1 .. Cardinality(S) -> S]
  BY <1>3 DEF SetToSeq
<1> QED BY <1>1, <1>4

\* What a queue holds after an element is added, after its head is taken, and
\* after the elements of a set are added.
LEMMA AppendRange ==
  ASSUME NEW S, NEW q \in Seq(S), NEW e
  PROVE  Range(Append(q, e)) = Range(q) \cup {e}
<1>1. /\ Len(Append(q, e)) = Len(q) + 1
      /\ \A i \in 1 .. Len(q) : Append(q, e)[i] = q[i]
      /\ Append(q, e)[Len(q) + 1] = e
      /\ DOMAIN Append(q, e) = 1 .. Len(q) + 1 /\ DOMAIN q = 1 .. Len(q)
      /\ Len(q) \in Nat
  OBVIOUS
<1>2. 1 .. Len(q) + 1 = (1 .. Len(q)) \cup {Len(q) + 1}
  BY <1>1
<1> QED BY <1>1, <1>2 DEF Range

LEMMA TailRange ==
  ASSUME NEW S, NEW q \in Seq(S), q # <<>>
  PROVE  Range(q) = Range(Tail(q)) \cup {Head(q)}
<1> DEFINE t == Tail(q)
<1>1. /\ DOMAIN t = 1 .. Len(q) - 1 /\ DOMAIN q = 1 .. Len(q) /\ Len(q) \in Nat \ {0}
      /\ \A i \in 1 .. Len(q) - 1 : t[i] = q[i + 1]
      /\ Head(q) = q[1]
  OBVIOUS
<1> HIDE DEF t
<1>2. \A i \in 1 .. Len(q) : i = 1 \/ (i - 1 \in 1 .. Len(q) - 1 /\ q[i] = t[i - 1])
  BY <1>1
<1>3. \A i \in 1 .. Len(q) - 1 : i + 1 \in 1 .. Len(q)
  BY <1>1
<1>4. Range(t) \cup {q[1]} \subseteq Range(q)
  BY <1>1, <1>3 DEF Range
<1>5. Range(q) \subseteq Range(t) \cup {q[1]}
  <2> SUFFICES ASSUME NEW i \in 1 .. Len(q)
               PROVE  q[i] \in Range(t) \cup {q[1]}
    BY <1>1 DEF Range
  <2>1. CASE i = 1
    BY <2>1
  <2>2. CASE i - 1 \in 1 .. Len(q) - 1 /\ q[i] = t[i - 1]
    BY <1>1, <2>2 DEF Range
  <2> QED BY <1>2, <2>1, <2>2
<1> QED BY <1>1, <1>4, <1>5 DEF t

LEMMA SetToSeqRange ==
  ASSUME NEW S, IsFiniteSet(S)
  PROVE  Range(SetToSeq(S)) = S
<1> DEFINE n == Cardinality(S)
<1>1. n \in Nat /\ ExistsBijection(1 .. n, S)
  BY FS_CardinalityType
<1>2. PICK f : f \in Bijection(1 .. n, S)
  BY <1>1 DEF ExistsBijection
<1>3. f \in [1 .. n -> S] /\ IsInjective(f)
  BY <1>2 DEF Bijection, Injection
<1>4. SetToSeq(S) \in [1 .. n -> S] /\ IsInjective(SetToSeq(S))
  BY <1>3 DEF SetToSeq
<1>5. SetToSeq(S) \in Injection(1 .. n, S)
  BY <1>4 DEF Injection, IsInjective
<1>6. Cardinality(1 .. n) = n
  BY <1>1, FS_Interval
<1>7. SetToSeq(S) \in Surjection(1 .. n, S)
  BY <1>5, <1>6, FS_Injection
<1>8. DOMAIN SetToSeq(S) = 1 .. n
  BY <1>4
<1> HIDE DEF n
<1>9. \A t \in S : \E i \in 1 .. n : SetToSeq(S)[i] = t
  BY <1>7 DEF Surjection
<1> QED BY <1>4, <1>8, <1>9 DEF Range

LEMMA ConcatRange ==
  ASSUME NEW S, NEW q \in Seq(S), NEW r \in Seq(S)
  PROVE  Range(q \o r) = Range(q) \cup Range(r)
<1>1. /\ Len(q \o r) = Len(q) + Len(r) /\ Len(q) \in Nat /\ Len(r) \in Nat
      /\ \A i \in 1 .. Len(q) : (q \o r)[i] = q[i]
      /\ \A i \in 1 .. Len(q) + Len(r) : i > Len(q) => (q \o r)[i] = r[i - Len(q)]
      /\ DOMAIN (q \o r) = 1 .. Len(q) + Len(r) /\ DOMAIN q = 1 .. Len(q) /\ DOMAIN r = 1 .. Len(r)
  OBVIOUS
<1>2. \A i \in 1 .. Len(q) + Len(r) : i \in 1 .. Len(q) \/ (i > Len(q) /\ i - Len(q) \in 1 .. Len(r))
  BY <1>1
<1>3. Range(q \o r) \subseteq Range(q) \cup Range(r)
  BY <1>1, <1>2 DEF Range
<1>4. \A i \in 1 .. Len(r) : /\ i + Len(q) \in 1 .. Len(q) + Len(r) /\ i + Len(q) > Len(q)
                             /\ (i + Len(q)) - Len(q) = i
  BY <1>1
<1>5. \A i \in 1 .. Len(r) : (q \o r)[i + Len(q)] = r[i]
  BY <1>1, <1>4
<1>6. \A i \in 1 .. Len(q) : i \in 1 .. Len(q) + Len(r)
  BY <1>1
<1>7. Range(q) \subseteq Range(q \o r)
  BY <1>1, <1>6 DEF Range
<1>8. Range(r) \subseteq Range(q \o r)
  <2>1. \A i \in 1 .. Len(r) : r[i] \in {(q \o r)[j] : j \in 1 .. Len(q) + Len(r)}
    BY <1>4, <1>5
  <2> QED BY <1>1, <2>1 DEF Range
<1> QED BY <1>3, <1>7, <1>8

\* The slot Allocate takes is one of the pool's: it looks for the lowest free
\* slot, or for the one stamped longest ago.
LEMMA OldestIn ==
  ASSUME PoolTypeOK, NEW S \in SUBSET Slots, S # {}
  PROVE  Oldest(S) \in S
<1>1. {stamps[s] : s \in S} \in SUBSET Nat /\ {stamps[s] : s \in S} # {}
  BY DEF PoolTypeOK
<1>2. PICK m \in {stamps[s] : s \in S} : \A n \in {stamps[s] : s \in S} : m <= n
  BY <1>1, LeastExists
<1>3. \E s \in S : \A t \in S : stamps[s] <= stamps[t]
  BY <1>2
<1> QED BY <1>3 DEF Oldest

LEMMA AllocateIn ==
  ASSUME PoolTypeOK, CanAllocate
  PROVE  Allocate \in Slots /\ slot[Allocate].state # "PendingDelivery"
<1>1. \A st \in States : In(st) \in SUBSET Slots
  BY DEF In
<1>2. CASE In("Free") # {}
  <2>1. In("Free") \in SUBSET Nat
    BY <1>1, PoolConstants DEF States
  <2>2. \E s \in In("Free") : \A t \in In("Free") : s <= t
    BY <1>2, <2>1, LeastExists
  <2>3. Allocate \in In("Free")
    BY <1>2, <2>2 DEF Allocate
  <2> QED BY <2>3 DEF In
<1>3. CASE In("Free") = {} /\ In("Read") # {}
  <2>1. Allocate \in In("Read")
    BY <1>1, <1>3, OldestIn DEF Allocate, States
  <2> QED BY <2>1 DEF In
<1>4. CASE In("Free") = {} /\ In("Read") = {}
  <2>1. In("InInventory") # {}
    BY <1>4 DEF CanAllocate, In, PoolTypeOK, States
  <2>2. Allocate \in In("InInventory")
    BY <1>1, <1>4, <2>1, OldestIn DEF Allocate, States
  <2> QED BY <2>2 DEF In
<1> QED BY <1>2, <1>3, <1>4

LEMMA StampedType ==
  ASSUME PoolTypeOK, NEW s \in Slots
  PROVE  Stamped(s) \in [Slots -> Nat]
<1>1. Cardinality(Slots) \in Nat
  BY PoolConstants, FS_CardinalityType
<1>2. \A t \in Slots : stamps[t] > stamps[s] => stamps[t] - 1 \in Nat
  BY DEF PoolTypeOK
<1> QED BY <1>1, <1>2 DEF Stamped, PoolTypeOK

\* A crossing is never forgotten.
LEMMA CrossedStays ==
  ASSUME [Next]_vars, crossed' = "none"
  PROVE  crossed = "none"
BY DEF Next, Tick, Tasks, PoolStep, RunVm, OnStart, Abort, Answer, QuestFills, Restart,
  TickCompose, TickDispatch, TickPoll, TickSucceeded, TickFailed, TickStaged, TickVerify,
  TickCleanup, TickDone, Cleanup, DispatchFails, DispatchDeclined, DispatchLaunches,
  DispatchCrosses, CheckCourier, SweepQueued, Sweep, OpenBook, CloseBook, CourierHandsOver,
  PlayerStores, PlayerDrops, PlayerTakes, MoveTo, Arrived, Discarded, Crosses, RunQueue, RunShutdown,
  RunRelease, vars, poolVars

-----------------------------------------------------------------------------
(* The pool's types: one step per action that touches it.                  *)

\* Only a start, a dispatch and a clean-up of the beat touch the pool's slots.
LEMMA PoolFrame ==
  ASSUME [Next]_vars
  PROVE  \/ Cleanup(success) \/ Cleanup(FALSE)
         \/ DispatchDeclined \/ DispatchLaunches \/ QuestFills \/ Sweep \/ Restart
         \/ PoolStep \/ RunVm
         \/ UNCHANGED <<lifecycle, world, open, events>>
BY DEF Next, Tick, Tasks, OnStart, Abort, Answer, TickCompose, TickDispatch, TickPoll,
  TickSucceeded, TickFailed, TickStaged, TickVerify, TickCleanup, TickDone, DispatchFails,
  CheckCourier, SweepQueued, vars, poolVars

CallType == [op : {"queue", "shutdown", "release"}, slot : Slots,
             letter : Letters \cup {NoLetter}]

LEMMA CallIsTyped ==
  ASSUME NEW op \in {"queue", "shutdown", "release"}, NEW s \in Slots,
         NEW n \in Letters \cup {NoLetter}
  PROVE  Call(op, s, n) \in CallType
BY DEF Call, CallType

LEMMA CrossedTyped ==
  ASSUME TypeOK, [Next]_vars
  PROVE  crossed' \in Crossings
BY DEF Crossings, TypeOK, PoolTypeOK, Next, Tick, Tasks, PoolStep, RunVm, OnStart, Abort,
  Answer, QuestFills, Restart, TickCompose, TickDispatch, TickPoll, TickSucceeded, TickFailed,
  TickStaged, TickVerify, TickCleanup, TickDone, Cleanup, DispatchFails, DispatchDeclined,
  DispatchLaunches, DispatchCrosses, CheckCourier, SweepQueued, Sweep, OpenBook, CloseBook,
  CourierHandsOver, PlayerStores, PlayerDrops, PlayerTakes, MoveTo, Arrived, Discarded,
  Crosses, RunQueue, RunShutdown, RunRelease, vars, poolVars

\* What the pool's own types and the finiteness of its copies come to.
PoolData ==
  /\ slot \in [Slots -> [state : States, letter : Letters \cup {NoLetter}]]
  /\ stamps \in [Slots -> Nat]
  /\ open \in Slots \cup {NoSlot}
  /\ events \in Seq([move : Moves, slot : Slots, letter : Letters])
  /\ copies \subseteq Copies
  /\ quest \in [Slots -> [running : BOOLEAN, ref : Letters \cup {NoLetter}]]
  /\ vm \in Seq(CallType)
  /\ IsFiniteSet(copies)

LEMMA PoolDataIs == TypeOK /\ CopiesFinite <=> TypeOK /\ PoolData
BY DEF TypeOK, PoolTypeOK, PoolData, CallType, CopiesFinite

LEMMA EvictionTyped ==
  ASSUME PoolTypeOK, PoolData, NEW s \in Slots
  PROVE  /\ EvictCalls(s) \in Seq(CallType)
         /\ AfterEviction(s) \subseteq Copies /\ IsFiniteSet(AfterEviction(s))
         /\ EvictedQuest(s) \in [running : BOOLEAN, ref : Letters \cup {NoLetter}]
<1>1. EvictCalls(s) \in Seq(CallType)
  BY CallIsTyped, AppendProperties DEF EvictCalls, PoolData
<1>2. AfterEviction(s) \subseteq copies
  BY DEF AfterEviction
<1>3. IsFiniteSet(AfterEviction(s))
  BY <1>2, FS_Subset DEF PoolData
<1>4. EvictedQuest(s) \in [running : BOOLEAN, ref : Letters \cup {NoLetter}]
  BY DEF EvictedQuest, NoQuest, PoolData
<1> QED BY <1>1, <1>2, <1>3, <1>4 DEF PoolData

LEMMA CleanupTyped ==
  ASSUME TypeOK, PoolData, NEW ok, Cleanup(ok)
  PROVE  PoolData'
<1>1. CASE inFlight # NoSlot /\ ~ok
  <2>1. inFlight \in Slots
    BY <1>1 DEF TypeOK
  <2>2. Freed(inFlight) \in [Slots -> [state : States, letter : Letters \cup {NoLetter}]]
    BY <2>1 DEF Freed, PoolData, States
  <2>3. Append(vm, Call("shutdown", inFlight, quest[inFlight].ref)) \in Seq(CallType)
    BY <2>1, CallIsTyped, AppendProperties DEF PoolData
  <2> QED BY <1>1, <2>2, <2>3 DEF Cleanup, PoolData
<1>2. CASE ~(inFlight # NoSlot /\ ~ok)
  BY <1>2 DEF Cleanup, PoolData
<1> QED BY <1>1, <1>2

LEMMA DispatchTyped ==
  ASSUME TypeOK, PoolData, DispatchDeclined \/ DispatchLaunches
  PROVE  PoolData'
<1> DEFINE s == Allocate
<1>1. PoolTypeOK /\ CanAllocate /\ composition \in Letters
  BY DEF TypeOK, DispatchDeclined, DispatchLaunches
<1>2. s \in Slots
  BY <1>1, AllocateIn
<1>3. /\ Populated(s, composition) \in [Slots -> [state : States, letter : Letters \cup {NoLetter}]]
      /\ Stamped(s) \in [Slots -> Nat]
  BY <1>1, <1>2, StampedType DEF Populated, PoolData, States
<1>4. /\ EvictCalls(s) \in Seq(CallType)
      /\ AfterEviction(s) \subseteq Copies /\ IsFiniteSet(AfterEviction(s))
      /\ EvictedQuest(s) \in [running : BOOLEAN, ref : Letters \cup {NoLetter}]
  BY <1>1, <1>2, EvictionTyped
<1> HIDE DEF s
<1>5. CASE DispatchDeclined
  <2>1. /\ slot' = [Populated(s, composition) EXCEPT ![s].state = "Free"]
        /\ stamps' = Stamped(s) /\ copies' = AfterEviction(s) /\ vm' = EvictCalls(s)
        /\ quest' = [quest EXCEPT ![s] = EvictedQuest(s)]
        /\ open' = open /\ events' = events
    BY <1>5 DEF DispatchDeclined, s
  <2>2. slot' \in [Slots -> [state : States, letter : Letters \cup {NoLetter}]]
    BY <1>2, <1>3, <2>1 DEF States
  <2> QED BY <1>2, <1>3, <1>4, <2>1, <2>2 DEF PoolData
<1>6. CASE DispatchLaunches
  <2>1. /\ slot' = Populated(s, composition)
        /\ stamps' = Stamped(s) /\ copies' = AfterEviction(s) /\ vm' = EvictCalls(s)
        /\ quest' = [quest EXCEPT ![s] = [EvictedQuest(s) EXCEPT !.running = TRUE]]
        /\ open' = open /\ events' = events
    BY <1>6 DEF DispatchLaunches, s
  <2>2. quest' \in [Slots -> [running : BOOLEAN, ref : Letters \cup {NoLetter}]]
    BY <1>2, <1>4, <2>1 DEF PoolData
  <2> QED BY <1>2, <1>3, <1>4, <2>1, <2>2 DEF PoolData
<1> QED BY <1>5, <1>6

LEMMA QuestFillsTyped ==
  ASSUME TypeOK, PoolData, QuestFills
  PROVE  PoolData'
<1>1. PICK s \in Slots : /\ quest' = [quest EXCEPT ![s].ref = designated]
                         /\ vm' = Append(vm, Call("queue", s, designated))
  BY DEF QuestFills
<1>2. designated \in Letters
  BY DEF QuestFills, TypeOK
<1>3. vm' \in Seq(CallType)
  BY <1>1, <1>2, CallIsTyped, AppendProperties DEF PoolData
<1>4. quest' \in [Slots -> [running : BOOLEAN, ref : Letters \cup {NoLetter}]]
  BY <1>1, <1>2 DEF PoolData
<1> QED BY <1>3, <1>4 DEF QuestFills, PoolData, lifecycle

\* The calls of Papyrus not yet run, and the letters on the move, as sets.
Sent  == Range(vm)
Moved == {<<events[i].slot, events[i].letter>> : i \in DOMAIN events}

\* The calls a sweep makes: it releases the letter of every orphaned quest,
\* and every copy the courier carries of a slot it found free.
SweepCalls ==
  {Call("release", s, quest[s].ref) : s \in {s \in sweep.orphans : quest[s].ref # NoLetter}}
    \cup {Call("release", c.slot, c.letter) :
            c \in {c \in copies : c.slot \in sweep.free /\ c.at = "courier"}}

LEMMA SweepSends ==
  ASSUME TypeOK, PoolData, Sweep
  PROVE  /\ Sent' = Sent \cup SweepCalls
         /\ SetToSeq(SweepCalls) \in Seq(CallType) /\ Range(SetToSeq(SweepCalls)) = SweepCalls
         /\ vm' = vm \o SetToSeq(SweepCalls)
<1> DEFINE orphans == {s \in sweep.orphans : quest[s].ref # NoLetter}
           stale == {c \in copies : c.slot \in sweep.free /\ c.at = "courier"}
           so == {Call("release", s, quest[s].ref) : s \in orphans}
           ss == {Call("release", c.slot, c.letter) : c \in stale}
<1>1. orphans \subseteq Slots /\ stale \subseteq copies
  BY DEF TypeOK
<1>2. SweepCalls \subseteq CallType
  BY <1>1, CallIsTyped DEF PoolData, Copies, SweepCalls
<1>3. IsFiniteSet(SweepCalls)
  <2>1. IsFiniteSet(orphans) /\ IsFiniteSet(stale)
    BY <1>1, FS_Subset, PoolConstants DEF PoolData
  <2> DEFINE fo == [s \in orphans |-> Call("release", s, quest[s].ref)]
             fs == [c \in stale |-> Call("release", c.slot, c.letter)]
  <2>2. fo \in Surjection(orphans, so) /\ fs \in Surjection(stale, ss)
    BY Zenon DEF Surjection
  <2>3. SweepCalls = so \cup ss
    BY DEF SweepCalls
  <2>4. IsFiniteSet(so) /\ IsFiniteSet(ss)
    <3> HIDE DEF orphans, stale, so, ss, fo, fs
    <3> QED BY <2>1, <2>2, FS_Surjection
  <2> QED BY <2>3, <2>4, FS_Union
<1>4. SetToSeq(SweepCalls) \in Seq(CallType)
  <2>1. SetToSeq(SweepCalls) \in Seq(SweepCalls)
    BY <1>3, SetToSeqType
  <2> QED BY <1>2, <2>1, SeqMonotonic
<1>5. vm' = vm \o SetToSeq(SweepCalls)
  BY DEF Sweep, SweepCalls
<1>6. Range(SetToSeq(SweepCalls)) = SweepCalls
  BY <1>3, SetToSeqRange
<1> QED BY <1>4, <1>5, <1>6, ConcatRange DEF PoolData, Sent

LEMMA SweepTyped ==
  ASSUME TypeOK, PoolData, Sweep
  PROVE  PoolData'
<1>1. vm' = vm \o SetToSeq(SweepCalls) /\ SetToSeq(SweepCalls) \in Seq(CallType)
  BY SweepSends
<1>2. vm' \in Seq(CallType)
  BY <1>1, ConcatProperties DEF PoolData
<1>3. copies' \subseteq copies
  BY DEF Sweep
<1>4. IsFiniteSet(copies')
  BY <1>3, FS_Subset DEF PoolData
<1>5. quest' \in [Slots -> [running : BOOLEAN, ref : Letters \cup {NoLetter}]]
  BY DEF Sweep, PoolData, NoQuest
<1> QED BY <1>2, <1>3, <1>4, <1>5 DEF Sweep, PoolData, lifecycle

LEMMA RestartTyped ==
  ASSUME TypeOK, PoolData, Restart
  PROVE  PoolData'
<1>1. \A s \in Slots : Freed(s)[s] \in [state : States, letter : Letters \cup {NoLetter}]
  BY DEF Freed, PoolData, States
<1>2. slot' \in [Slots -> [state : States, letter : Letters \cup {NoLetter}]]
  BY <1>1 DEF Restart, PoolData
<1> QED BY <1>2, EmptySeq DEF Restart, PoolData, world

LEMMA MoveTyped ==
  ASSUME PoolData, NEW c \in copies, NEW place \in Places, NEW move \in Moves,
         MoveTo(c, place, move)
  PROVE  PoolData'
<1>1. c \in Copies
  BY DEF PoolData
<1>2. copies' \subseteq Copies
  BY <1>1 DEF MoveTo, PoolData, Copies
<1>3. IsFiniteSet(copies')
  <2>1. IsFiniteSet(copies \ {c})
    BY FS_Subset DEF PoolData
  <2> QED BY <2>1, FS_AddElement DEF MoveTo
<1>4. [move |-> move, slot |-> c.slot, letter |-> c.letter]
         \in [move : Moves, slot : Slots, letter : Letters]
  BY <1>1 DEF Copies
<1>5. events' \in Seq([move : Moves, slot : Slots, letter : Letters])
  BY <1>4, AppendProperties DEF MoveTo, PoolData
<1> QED BY <1>2, <1>3, <1>5 DEF MoveTo, PoolData, lifecycle

LEMMA EventIsTyped ==
  ASSUME PoolData, events # <<>>
  PROVE  /\ Head(events) \in [move : Moves, slot : Slots, letter : Letters]
         /\ Tail(events) \in Seq([move : Moves, slot : Slots, letter : Letters])
BY HeadTailProperties DEF PoolData

LEMMA PoolStepTyped ==
  ASSUME TypeOK, PoolData, PoolStep
  PROVE  PoolData'
<1>1. CASE OpenBook
  BY <1>1 DEF OpenBook, PoolData, Copies, lifecycle, world
<1>2. CASE CloseBook
  <2>1. open \in Slots
    BY <1>2 DEF CloseBook, PoolData
  <2>2. Stamped(open) \in [Slots -> Nat]
    BY <2>1, StampedType DEF TypeOK
  <2> QED BY <1>2, <2>1, <2>2 DEF CloseBook, PoolData, States, world
<1>3. CASE CourierHandsOver \/ PlayerStores \/ PlayerDrops \/ PlayerTakes
  BY <1>3, MoveTyped
     DEF CourierHandsOver, PlayerStores, PlayerDrops, PlayerTakes, Places, Moves
<1>4. CASE Arrived
  <2>1. Head(events).slot \in Slots /\ Tail(events) \in Seq([move : Moves, slot : Slots, letter : Letters])
    BY <1>4, EventIsTyped DEF Arrived
  <2>2. Stamped(Head(events).slot) \in [Slots -> Nat]
    BY <2>1, StampedType DEF TypeOK
  <2>3. /\ \/ slot' = slot /\ stamps' = stamps
           \/ /\ slot' = [slot EXCEPT ![Head(events).slot].state = "InInventory"]
              /\ stamps' = Stamped(Head(events).slot)
        /\ events' = Tail(events)
        /\ UNCHANGED <<copies, quest, vm, open>>
    BY <1>4, Zenon DEF Arrived, world, lifecycle
  <2> QED BY <2>1, <2>2, <2>3 DEF PoolData, States
<1>5. CASE Discarded
  <2> DEFINE e == Head(events)
  <2>1. e.slot \in Slots /\ Tail(events) \in Seq([move : Moves, slot : Slots, letter : Letters])
    BY <1>5, EventIsTyped DEF Discarded
  <2>2. vm' \in Seq(CallType)
    BY <1>5, <2>1, CallIsTyped, AppendProperties DEF Discarded, PoolData
  <2>3. copies' \subseteq copies
    BY <1>5 DEF Discarded
  <2>4. IsFiniteSet(copies')
    BY <2>3, FS_Subset DEF PoolData
  <2>5. Freed(e.slot) \in [Slots -> [state : States, letter : Letters \cup {NoLetter}]]
    BY <2>1 DEF Freed, PoolData, States
  <2> QED BY <1>5, <2>1, <2>2, <2>3, <2>4, <2>5 DEF Discarded, PoolData
<1> QED BY <1>1, <1>2, <1>3, <1>4, <1>5 DEF PoolStep

LEMMA VmTyped ==
  ASSUME PoolData, RunVm
  PROVE  PoolData'
<1>1. Head(vm) \in CallType /\ Tail(vm) \in Seq(CallType)
  BY HeadTailProperties DEF RunVm, RunQueue, RunShutdown, RunRelease, PoolData
<1>2. Head(vm).slot \in Slots
  BY <1>1 DEF CallType
<1>3. CASE RunQueue
  <2> DEFINE s == Head(vm).slot
             copy == [slot |-> s, letter |-> quest[s].ref, at |-> "courier"]
  <2>1. quest[s].ref # NoLetter => copy \in Copies
    BY <1>2 DEF PoolData, Copies, Places
  <2>2. IsFiniteSet(copies \cup {copy})
    BY FS_AddElement DEF PoolData
  <2>3. copies' = copies \/ (quest[s].ref # NoLetter /\ copies' = copies \cup {copy})
    BY <1>3 DEF RunQueue
  <2>4. quest' \in [Slots -> [running : BOOLEAN, ref : Letters \cup {NoLetter}]]
    <3>1. quest' = quest \/ quest' = [quest EXCEPT ![s] = NoQuest]
      BY <1>3 DEF RunQueue
    <3>2. NoQuest \in [running : BOOLEAN, ref : Letters \cup {NoLetter}]
      BY DEF NoQuest
    <3> QED BY <1>2, <3>1, <3>2 DEF PoolData
  <2> QED BY <1>1, <1>3, <2>1, <2>2, <2>3, <2>4 DEF RunQueue, PoolData, lifecycle
<1>4. CASE RunShutdown \/ RunRelease
  <2>1. copies' \subseteq copies
    BY <1>4 DEF RunShutdown, RunRelease, OffCourier
  <2>2. IsFiniteSet(copies')
    BY <2>1, FS_Subset DEF PoolData
  <2>3. quest' \in [Slots -> [running : BOOLEAN, ref : Letters \cup {NoLetter}]]
    <3>1. CASE RunShutdown
      <4>1. quest' = [quest EXCEPT ![Head(vm).slot] = NoQuest]
        BY <3>1 DEF RunShutdown
      <4>2. NoQuest \in [running : BOOLEAN, ref : Letters \cup {NoLetter}]
        BY DEF NoQuest
      <4> QED BY <1>2, <4>1, <4>2 DEF PoolData
    <3>2. CASE RunRelease
      BY <3>2 DEF RunRelease, PoolData
    <3> QED BY <1>4, <3>1, <3>2
  <2> QED BY <1>1, <1>4, <2>1, <2>2, <2>3 DEF RunShutdown, RunRelease, PoolData, lifecycle
<1> QED BY <1>3, <1>4 DEF RunVm

LEMMA PoolTyped ==
  ASSUME TypeOK, CopiesFinite, [Next]_vars
  PROVE  PoolTypeOK' /\ CopiesFinite'
<1>1. PoolData
  BY PoolDataIs
<1>2. PoolData'
  <2>1. CASE UNCHANGED <<lifecycle, world, open, events>>
    BY <1>1, <2>1 DEF PoolData, lifecycle, world
  <2> QED BY <1>1, <2>1, PoolFrame, CleanupTyped, DispatchTyped, QuestFillsTyped, SweepTyped,
             RestartTyped, PoolStepTyped, VmTyped
<1> QED BY <1>2, CrossedTyped DEF PoolData, PoolTypeOK, CallType, CopiesFinite

-----------------------------------------------------------------------------
(* The beat's types.                                                       *)

TaskType == [op : {"dispatch", "check", "sweep"}, session : Nat]

BeatData ==
  /\ stage \in Stages /\ session \in Nat /\ restarts \in Nat /\ sub \in SubPhases
  /\ subTicks \in Nat /\ runTicks \in Nat
  /\ check \in [inFlight : BOOLEAN, ready : BOOLEAN, present : BOOLEAN]
  /\ param \in BOOLEAN /\ success \in BOOLEAN
  /\ {composition, sender, designated} \subseteq Letters \cup {NoLetter}
  /\ inFlight \in Slots \cup {NoSlot}
  /\ calls \subseteq Letters
  /\ tasks \in Seq(TaskType)
  /\ sweep \in [orphans : SUBSET Slots, free : SUBSET Slots]

LEMMA BeatDataIs == TypeOK <=> PoolTypeOK /\ BeatData
BY DEF TypeOK, BeatData, TaskType

LEMMA TaskIsTyped ==
  ASSUME BeatData, NEW op \in {"dispatch", "check", "sweep"}
  PROVE  Append(tasks, Task(op)) \in Seq(TaskType)
<1>1. Task(op) \in TaskType
  BY DEF Task, TaskType, BeatData
<1> QED BY <1>1, AppendProperties DEF BeatData

\* Taking a task off the queue.
LEMMA TaskTaken ==
  ASSUME BeatData, NEW op, TaskIs(op)
  PROVE  /\ tasks' \in Seq(TaskType)
         /\ sweep' \in [orphans : SUBSET Slots, free : SUBSET Slots]
<1>1. Tail(tasks) \in Seq(TaskType)
  BY HeadTailProperties DEF TaskIs, BeatData
<1> QED BY <1>1 DEF TaskIs, BeatData, NoSweep

LEMMA ResetTyped ==
  ASSUME ResetSession
  PROVE  /\ {composition', sender'} \subseteq Letters \cup {NoLetter}
         /\ inFlight' \in Slots \cup {NoSlot}
         /\ subTicks' \in Nat /\ runTicks' \in Nat /\ success' \in BOOLEAN
BY DEF ResetSession

LEMMA TickTyped ==
  ASSUME BeatData, SessionHasLetter, Tick
  PROVE  BeatData'
<1>1. CASE TickCompose
  <2>1. session \in Letters
    BY <1>1 DEF TickCompose, Composing, SessionHasLetter
  <2> QED BY <1>1, <2>1 DEF TickCompose, BeatData, SubPhases, request, flight, queue
<1>2. CASE TickDispatch
  BY <1>2, TaskIsTyped DEF TickDispatch, BeatData, SubPhases, request, flight
<1>3. CASE TickPoll
  <2>1. sub' \in SubPhases
    BY <1>3 DEF TickPoll, AfterCheck, SubPhases, BeatData
  <2>2. subTicks' \in Nat
    BY <1>3 DEF TickPoll, BeatData
  <2> QED BY <1>3, <2>1, <2>2 DEF TickPoll, BeatData, request, flight, queue
<1>4. CASE TickSucceeded \/ TickFailed \/ TickStaged \/ TickDone
  <2>1. /\ stage' \in Stages /\ success' \in BOOLEAN
        /\ UNCHANGED <<session, restarts, sub, subTicks, param, composition, inFlight, sender,
                       designated, calls, tasks, sweep>>
    BY <1>4 DEF TickSucceeded, TickFailed, TickStaged, TickDone, BeatData, Stages, request,
                flight, queue, ticking
  <2>2. runTicks' \in Nat
    BY <1>4 DEF TickSucceeded, TickFailed, TickStaged, TickDone, BeatData, ticking
  <2>3. check' \in [inFlight : BOOLEAN, ready : BOOLEAN, present : BOOLEAN]
    BY <1>4 DEF TickSucceeded, TickFailed, TickStaged, TickDone, BeatData, ticking
  <2> QED BY <2>1, <2>2, <2>3 DEF BeatData
<1>5. CASE TickVerify
  <2>1. runTicks' \in Nat
    BY <1>5 DEF TickVerify, BeatData
  <2>2. stage' \in Stages /\ sub' \in SubPhases /\ success' \in BOOLEAN
    BY <1>5 DEF TickVerify, BeatData, Stages, SubPhases
  <2>3. check' \in [inFlight : BOOLEAN, ready : BOOLEAN, present : BOOLEAN]
    BY <1>5 DEF TickVerify, BeatData
  <2>4. tasks' \in Seq(TaskType)
    BY <1>5, TaskIsTyped DEF TickVerify, BeatData
  <2> QED BY <1>5, <2>1, <2>2, <2>3, <2>4 DEF TickVerify, BeatData, request, flight
<1>6. CASE TickCleanup
  <2>1. designated' \in Letters \cup {NoLetter}
    BY <1>6 DEF TickCleanup, Cleanup, BeatData
  <2> QED BY <1>6, <2>1 DEF TickCleanup, BeatData, Stages, request, flight, queue, ticking
<1> QED BY <1>1, <1>2, <1>3, <1>4, <1>5, <1>6 DEF Tick

LEMMA TasksTyped ==
  ASSUME TypeOK, BeatData, Tasks
  PROVE  BeatData'
<1>1. CASE DispatchFails
  BY <1>1, TaskTaken DEF DispatchFails, BeatData, SubPhases, request, flight
<1>2. CASE DispatchDeclined \/ DispatchLaunches
  <2>1. PoolTypeOK /\ CanAllocate
    BY <1>2 DEF TypeOK, DispatchDeclined, DispatchLaunches
  <2>2. inFlight' \in Slots
    BY <1>2, <2>1, AllocateIn DEF DispatchDeclined, DispatchLaunches
  <2>3. designated' \in Letters \cup {NoLetter} /\ sender' = composition
    BY <1>2 DEF DispatchDeclined, DispatchLaunches, BeatData
  <2>4. tasks' \in Seq(TaskType) /\ sweep' \in [orphans : SUBSET Slots, free : SUBSET Slots]
    BY <1>2, TaskTaken DEF DispatchDeclined, DispatchLaunches
  <2>5. subTicks' \in Nat /\ sub' \in SubPhases
    BY <1>2 DEF DispatchDeclined, DispatchLaunches, SubPhases
  <2>6. UNCHANGED <<stage, session, restarts, runTicks, check, request, success, calls>>
    BY <1>2 DEF DispatchDeclined, DispatchLaunches
  <2> QED BY <2>2, <2>3, <2>4, <2>5, <2>6 DEF BeatData, request
<1>3. CASE CheckCourier
  BY <1>3, TaskTaken DEF CheckCourier, BeatData, request, flight
<1>4. CASE Sweep
  BY <1>4, TaskTaken DEF Sweep, BeatData, request, flight, ticking
<1> QED BY <1>1, <1>2, <1>3, <1>4 DEF Tasks

LEMMA RestartBeatTyped ==
  ASSUME BeatData, Restart
  PROVE  BeatData'
<1>1. PICK aged \in SUBSET In("PendingDelivery") :
        LET gone == {s \in In("InInventory") \cup In("Read") :
                       ~\E c \in copies : c.slot = s /\ c.at = "player"}
            free == In("Free") \cup aged \cup gone
        IN  /\ sweep' = [orphans |-> aged, free |-> free]
            /\ tasks' = <<>>
  BY DEF Restart
<1>2. sweep' \in [orphans : SUBSET Slots, free : SUBSET Slots]
  BY <1>1 DEF In
<1>4. tasks' \in Seq(TaskType)
  BY <1>1, EmptySeq
<1>5. /\ stage' \in Stages /\ sub' \in SubPhases /\ param' \in BOOLEAN
      /\ check' \in [inFlight : BOOLEAN, ready : BOOLEAN, present : BOOLEAN]
      /\ restarts' \in Nat /\ calls' \subseteq Letters
      /\ UNCHANGED <<session, designated>>
  <2>1. /\ restarts' = restarts + 1
        /\ stage' = IF stage = "CLEANED" THEN "CLEANUP" ELSE stage
        /\ param' = FALSE /\ sub' = "Start" /\ check' = NoCheck /\ calls' = {}
        /\ UNCHANGED <<session, designated>>
    BY Zenon DEF Restart
  <2>2. NoCheck \in [inFlight : BOOLEAN, ready : BOOLEAN, present : BOOLEAN]
    BY DEF NoCheck
  <2>3. stage' \in Stages /\ restarts' \in Nat
    BY <2>1 DEF BeatData, Stages
  <2>4. sub' \in SubPhases /\ param' \in BOOLEAN /\ calls' \subseteq Letters
    BY <2>1 DEF SubPhases
  <2> QED BY <2>1, <2>2, <2>3, <2>4
<1>6. ResetSession
  BY DEF Restart
<1> QED BY <1>2, <1>4, <1>5, <1>6, ResetTyped DEF BeatData

LEMMA BeatTyped ==
  ASSUME TypeOK, SessionHasLetter, [Next]_vars
  PROVE  BeatData'
<1>1. BeatData
  BY BeatDataIs
<1>2. CASE OnStart
  BY <1>1, <1>2, ResetTyped DEF OnStart, BeatData, Stages, SubPhases, queue
<1>3. CASE Abort
  <2>1. designated' \in Letters \cup {NoLetter}
    BY <1>1, <1>3 DEF Abort, Cleanup, BeatData
  <2> QED BY <1>1, <1>3, <2>1, ResetTyped DEF Abort, BeatData, Stages, SubPhases, queue
<1>4. CASE Answer
  <2>1. /\ calls' \subseteq calls /\ sub' \in SubPhases /\ param' = param
        /\ composition' \in Letters \cup {NoLetter} /\ subTicks' \in Nat
    BY <1>1, <1>4 DEF Answer, BeatData, SubPhases, request
  <2> QED BY <1>1, <1>4, <2>1 DEF Answer, BeatData, flight, queue
<1>5. CASE QuestFills \/ ((PoolStep \/ RunVm) /\ UNCHANGED beatVars) \/ UNCHANGED vars
  <2>1. UNCHANGED beatVars
    BY <1>5 DEF QuestFills, vars
  <2> QED BY <1>1, <2>1 DEF beatVars, BeatData, ticking, request, flight, queue
<1>6. CASE SweepQueued
  <2>1. tasks' \in Seq(TaskType)
    BY <1>1, <1>6, TaskIsTyped DEF SweepQueued
  <2> QED BY <1>1, <1>6, <2>1 DEF SweepQueued, BeatData, ticking, request, flight
<1> QED BY <1>1, <1>2, <1>3, <1>4, <1>5, <1>6, TickTyped, TasksTyped, RestartBeatTyped DEF Next

-----------------------------------------------------------------------------
(* Sessions and senders.                                                   *)

LEMMA SessionsHaveLetters ==
  ASSUME SessionHasLetter, [Next]_vars
  PROVE  SessionHasLetter'
BY DEF SessionHasLetter, Next, Tick, Tasks, OnStart, Abort, Answer, QuestFills, Restart,
  TickCompose, TickDispatch, TickPoll, TickSucceeded, TickFailed, TickStaged, TickVerify,
  TickCleanup, TickDone, DispatchFails, DispatchDeclined, DispatchLaunches, CheckCourier,
  SweepQueued, Sweep, Composing, vars, beatVars

\* A dispatch that crosses nothing is of the session's own letter.
LEMMA DispatchIsOurs ==
  ASSUME DispatchDeclined \/ DispatchLaunches, Uncrossed'
  PROVE  stage = "COMPOSE" /\ composition = session
BY DEF DispatchDeclined, DispatchLaunches, DispatchCrosses, Uncrossed

LEMMA SendersStayOurs ==
  ASSUME TypeOK, SessionHasLetter, SenderIsOurs, [Next]_vars
  PROVE  SenderIsOurs'
<1> SUFFICES ASSUME Uncrossed'
             PROVE  /\ sender' \in {NoLetter, session'}
                    /\ designated' # NoLetter =>
                         designated' = sender' /\ stage' \notin {"NOT_RUNNING", "CLEANED"}
  BY DEF SenderIsOurs
<1>1. /\ sender \in {NoLetter, session}
      /\ designated # NoLetter => designated = sender /\ stage \notin {"NOT_RUNNING", "CLEANED"}
  BY CrossedStays DEF SenderIsOurs, Uncrossed
<1>2. CASE OnStart
  BY <1>1, <1>2 DEF OnStart, ResetSession
<1>3. CASE Abort
  BY <1>1, <1>3 DEF Abort, Cleanup, ResetSession
<1>4. CASE TickCleanup
  BY <1>1, <1>4 DEF TickCleanup, Cleanup, flight
<1>5. CASE TickCompose \/ TickDispatch \/ TickPoll \/ TickSucceeded \/ TickFailed
             \/ TickStaged \/ TickVerify \/ TickDone
  BY <1>1, <1>5 DEF TickCompose, TickDispatch, TickPoll, TickSucceeded, TickFailed, TickStaged,
                    TickVerify, TickDone, Composing, flight
<1>6. CASE DispatchDeclined \/ DispatchLaunches
  <2>1. stage = "COMPOSE" /\ composition = session
    BY <1>6, DispatchIsOurs
  <2>2. /\ sender' = composition /\ UNCHANGED <<stage, session>>
        /\ designated' \in {designated, NoLetter, composition}
    BY <1>6 DEF DispatchDeclined, DispatchLaunches
  <2> QED BY <1>1, <2>1, <2>2
<1>7. CASE DispatchFails \/ CheckCourier \/ SweepQueued \/ Sweep \/ Answer
  BY <1>1, <1>7 DEF DispatchFails, CheckCourier, SweepQueued, Sweep, Answer, flight
<1>8. CASE Restart
  <2>1. designated = NoLetter
    BY <1>8 DEF Restart, Uncrossed
  <2> QED BY <1>8, <2>1 DEF Restart, ResetSession
<1>9. CASE QuestFills \/ ((PoolStep \/ RunVm) /\ UNCHANGED beatVars) \/ UNCHANGED vars
  <2>1. UNCHANGED beatVars
    BY <1>9 DEF QuestFills, vars
  <2> QED BY <1>1, <2>1 DEF beatVars, flight
<1> QED BY <1>2, <1>3, <1>4, <1>5, <1>6, <1>7, <1>8, <1>9 DEF Next, Tick, Tasks

-----------------------------------------------------------------------------
LEMMA InitHolds == Init => IInv
<1> SUFFICES ASSUME Init PROVE IInv
  OBVIOUS
<1>1. PoolTypeOK
  BY EmptySeq DEF Init, PoolInit, PoolTypeOK, States, NoQuest, Crossings
<1>2. TypeOK
  BY <1>1, EmptySeq DEF Init, TypeOK, Stages, SubPhases, NoCheck, NoSweep
<1>3. CopiesFinite
  BY FS_EmptySet DEF Init, PoolInit, CopiesFinite
<1> QED BY <1>2, <1>3 DEF Init, IInv, SessionHasLetter, SenderIsOurs

LEMMA StepHolds == IInv /\ [Next]_vars => IInv'
BY PoolTyped, BeatTyped, BeatDataIs, SessionsHaveLetters, SendersStayOurs DEF IInv,
   TypeOK, BeatData, TaskType

LEMMA InvariantHolds == Spec => []IInv
BY InitHolds, StepHolds, PTL DEF Spec

\* The letter beat and its pool keep their types under every interleaving of
\* ticks, answers, game-thread tasks, Papyrus calls, the player's hands and
\* restarts; with it, that a slot evicted for a letter is one of the pool's.
THEOREM TypeCorrect == Spec => []TypeOK
<1>1. IInv => TypeOK
  BY DEF IInv
<1> QED BY <1>1, InvariantHolds, PTL

\* Whoever ReassignDesignatedSender puts at rank 4 is the sender of the
\* session's own letter and is demoted by every way out of it, as long as no
\* late answer, task or save has crossed two sessions.
THEOREM SendersAreReleased == Spec => []SenderReleased
<1>1. IInv => SenderReleased
  BY DEF IInv, SenderIsOurs, SenderReleased, Uncrossed
<1> QED BY <1>1, InvariantHolds, PTL

-----------------------------------------------------------------------------
(* Where a letter can be: named by a call, by an event, or on a copy.      *)

LEMMA SentAppend ==
  ASSUME PoolData, NEW c, vm' = Append(vm, c)
  PROVE  Sent' = Sent \cup {c}
BY AppendRange DEF PoolData, Sent

LEMMA SentTail ==
  ASSUME PoolData, vm # <<>>, vm' = Tail(vm)
  PROVE  Sent = Sent' \cup {Head(vm)} /\ Head(vm) \in CallType
BY TailRange, HeadTailProperties DEF PoolData, Sent

LEMMA SentTyped ==
  ASSUME PoolData
  PROVE  Sent \subseteq CallType /\ Moved \subseteq Slots \X Letters
<1>1. \A i \in DOMAIN vm : vm[i] \in CallType
  BY ElementOfSeq DEF PoolData
<1>2. \A i \in DOMAIN events : events[i].slot \in Slots /\ events[i].letter \in Letters
  <2> DEFINE E == [move : Moves, slot : Slots, letter : Letters]
  <2>1. \A e \in E : e.slot \in Slots /\ e.letter \in Letters
    OBVIOUS
  <2>2. events \in Seq(E)
    BY DEF PoolData
  <2> HIDE DEF E
  <2> QED BY <2>1, <2>2, ElementOfSeq
<1> QED BY <1>1, <1>2 DEF Sent, Moved, Range

\* The events are followed the same way.
Pair(e) == <<e.slot, e.letter>>

LEMMA MovedIs == Moved = {Pair(e) : e \in Range(events)}
BY DEF Moved, Pair, Range

LEMMA MovedAppend ==
  ASSUME PoolData, NEW e, events' = Append(events, e)
  PROVE  Moved' = Moved \cup {<<e.slot, e.letter>>}
<1>1. Range(events') = Range(events) \cup {e}
  BY AppendRange DEF PoolData
<1>2. Moved = {Pair(d) : d \in Range(events)} /\ Moved' = {Pair(d) : d \in Range(events')}
  BY MovedIs DEF Moved, Pair, Range
<1> QED BY <1>1, <1>2 DEF Pair

LEMMA MovedTail ==
  ASSUME PoolData, events # <<>>, events' = Tail(events)
  PROVE  Moved = Moved' \cup {<<Head(events).slot, Head(events).letter>>}
<1>1. Range(events) = Range(events') \cup {Head(events)}
  BY TailRange DEF PoolData
<1>2. Moved = {Pair(d) : d \in Range(events)} /\ Moved' = {Pair(d) : d \in Range(events')}
  BY MovedIs DEF Moved, Pair, Range
<1> QED BY <1>1, <1>2 DEF Pair

LEMMA Framed ==
  /\ vm' = vm => Sent' = Sent
  /\ events' = events => Moved' = Moved
BY DEF Sent, Moved

-----------------------------------------------------------------------------
(* Letters are numbered as they are written.                               *)

\* The letters the pool, the engine and Papyrus know of.
Known ==
  {quest[s].ref : s \in Slots} \cup {c.letter : c \in Sent} \cup {m[2] : m \in Moved}
    \cup {c.letter : c \in copies}

\* No step of the pool or of the engine makes up a letter: the only new one is
\* of the sender at the designated rank.
LEMMA KnownGrows ==
  ASSUME TypeOK, PoolData, [Next]_vars
  PROVE  Known' \subseteq Known \cup {NoLetter, designated}
<1> DEFINE K == Known \cup {NoLetter, designated}
<1> SUFFICES /\ \A s \in Slots : quest'[s].ref \in K
             /\ \A c \in Sent' : c.letter \in K
             /\ \A m \in Moved' : m[2] \in K
             /\ \A c \in copies' : c.letter \in K
  BY DEF Known
<1>1. /\ \A s \in Slots : quest[s].ref \in K
      /\ \A c \in Sent : c.letter \in K
      /\ \A m \in Moved : m[2] \in K
      /\ \A c \in copies : c.letter \in K
      /\ NoLetter \in K /\ designated \in K
  BY DEF Known
<1> HIDE DEF K
<1>2. \A op, s, n : Call(op, s, n).letter = n
  BY DEF Call
<1>3. Sent \subseteq CallType /\ Moved \subseteq Slots \X Letters
  BY SentTyped
<1>4. CASE \E ok : Cleanup(ok)
  <2>1. UNCHANGED <<quest, copies, events>>
    BY <1>4 DEF Cleanup
  <2>2. vm' = vm \/ (inFlight \in Slots /\ vm' = Append(vm, Call("shutdown", inFlight, quest[inFlight].ref)))
    BY <1>4 DEF Cleanup, TypeOK
  <2>3. Sent' = Sent \/ (inFlight \in Slots /\ Sent' = Sent \cup {Call("shutdown", inFlight, quest[inFlight].ref)})
    BY <2>2, SentAppend, Framed
  <2> QED BY <1>1, <1>2, <2>1, <2>3, Framed
<1>5. CASE DispatchDeclined \/ DispatchLaunches
  <2> DEFINE s == Allocate
  <2>1. s \in Slots
    BY <1>5, AllocateIn DEF TypeOK, DispatchDeclined, DispatchLaunches
  <2>2. /\ copies' \subseteq copies
        /\ vm' = vm \/ vm' = Append(vm, Call("release", s, quest[s].ref))
        /\ events' = events
        /\ \A t \in Slots : quest'[t].ref \in {quest[t].ref, NoLetter}
    <3>1. EvictedQuest(s).ref \in {quest[s].ref, NoLetter}
      BY DEF EvictedQuest, NoQuest
    <3>2. AfterEviction(s) \subseteq copies
          /\ EvictCalls(s) \in {vm, Append(vm, Call("release", s, quest[s].ref))}
      BY DEF AfterEviction, EvictCalls
    <3>3. /\ copies' = AfterEviction(s) /\ vm' = EvictCalls(s) /\ events' = events
          /\ \/ quest' = [quest EXCEPT ![s] = EvictedQuest(s)]
             \/ quest' = [quest EXCEPT ![s] = [EvictedQuest(s) EXCEPT !.running = TRUE]]
      BY <1>5 DEF DispatchDeclined, DispatchLaunches
    <3>4. EvictedQuest(s) \in [running : BOOLEAN, ref : Letters \cup {NoLetter}]
      BY <2>1, EvictionTyped DEF TypeOK
    <3> HIDE DEF s
    <3> QED BY <2>1, <3>1, <3>2, <3>3, <3>4 DEF PoolData
  <2> HIDE DEF s
  <2>3. Sent' = Sent \/ Sent' = Sent \cup {Call("release", s, quest[s].ref)}
    BY <2>2, SentAppend, Framed
  <2> QED BY <1>1, <1>2, <2>1, <2>2, <2>3, Framed
<1>6. CASE QuestFills
  <2>1. PICK s \in Slots : /\ quest' = [quest EXCEPT ![s].ref = designated]
                           /\ vm' = Append(vm, Call("queue", s, designated))
    BY <1>6 DEF QuestFills
  <2>2. Sent' = Sent \cup {Call("queue", s, designated)}
    BY <2>1, SentAppend
  <2>3. UNCHANGED <<copies, events>>
    BY <1>6 DEF QuestFills
  <2> QED BY <1>1, <1>2, <2>1, <2>2, <2>3, Framed DEF PoolData
<1>7. CASE Sweep
  <2>1. Sent' = Sent \cup SweepCalls
    BY <1>7, SweepSends
  <2>2. \A c \in SweepCalls : c.letter \in K
    BY <1>1, <1>2 DEF SweepCalls, TypeOK
  <2>3. copies' \subseteq copies /\ events' = events
        /\ \A s \in Slots : quest'[s].ref \in {quest[s].ref, NoLetter}
    BY <1>7 DEF Sweep, NoQuest
  <2> QED BY <1>1, <2>1, <2>2, <2>3, Framed
<1>8. CASE Restart
  <2>1. UNCHANGED world /\ events' = <<>>
    BY <1>8 DEF Restart
  <2>2. Moved' = {}
    BY <2>1 DEF Moved
  <2> QED BY <1>1, <2>1, <2>2, Framed DEF world
<1>9. CASE PoolStep
  <2>1. CASE OpenBook \/ CloseBook
    BY <1>1, <2>1, Framed DEF OpenBook, CloseBook, world
  <2>2. CASE CourierHandsOver \/ PlayerStores \/ PlayerDrops \/ PlayerTakes
    <3>1. PICK c \in copies, place \in Places, move \in Moves : MoveTo(c, place, move)
      BY <2>2 DEF CourierHandsOver, PlayerStores, PlayerDrops, PlayerTakes, Places, Moves
    <3>2. /\ UNCHANGED <<quest, vm>>
          /\ copies' = (copies \ {c}) \cup {[c EXCEPT !.at = place]}
          /\ Moved' = Moved \cup {<<c.slot, c.letter>>}
      BY <3>1, MovedAppend DEF MoveTo
    <3>3. [c EXCEPT !.at = place].letter = c.letter
      BY DEF PoolData, Copies
    <3>4. \A d \in copies' : d.letter \in K
      BY <1>1, <3>2, <3>3
    <3>5. \A m \in Moved' : m[2] \in K
      BY <1>1, <3>2
    <3> QED BY <1>1, <3>2, <3>4, <3>5, Framed
  <2>3. CASE Arrived
    <3>1. UNCHANGED world /\ Moved' \subseteq Moved
      BY <2>3, MovedTail DEF Arrived
    <3> QED BY <1>1, <3>1, Framed DEF world
  <2>4. CASE Discarded
    <3>1. Moved' \subseteq Moved /\ copies' \subseteq copies /\ quest' = quest
      BY <2>4, MovedTail DEF Discarded
    <3>2. Head(events).slot \in Slots
      BY <2>4, EventIsTyped DEF Discarded
    <3>3. Sent' = Sent \cup {Call("shutdown", Head(events).slot, quest[Head(events).slot].ref)}
      BY <2>4, SentAppend DEF Discarded
    <3> QED BY <1>1, <1>2, <3>1, <3>2, <3>3
  <2> QED BY <1>9, <2>1, <2>2, <2>3, <2>4 DEF PoolStep
<1>10. CASE RunVm
  <2>1. vm # <<>> /\ vm' = Tail(vm) /\ events' = events
    BY <1>10 DEF RunVm, RunQueue, RunShutdown, RunRelease
  <2>2. Sent' \subseteq Sent /\ Head(vm).slot \in Slots
    BY <2>1, SentTail DEF CallType
  <2>3. \A s \in Slots : quest'[s].ref \in {quest[s].ref, NoLetter}
    <3>1. quest' = quest \/ quest' = [quest EXCEPT ![Head(vm).slot] = NoQuest]
      BY <1>10 DEF RunVm, RunQueue, RunShutdown, RunRelease
    <3>2. quest \in [Slots -> [running : BOOLEAN, ref : Letters \cup {NoLetter}]] /\ NoQuest.ref = NoLetter
      BY DEF PoolData, NoQuest
    <3> HIDE DEF K
    <3> QED BY <2>2, <3>1, <3>2
  <2>4. \A c \in copies' : c \in copies \/ c.letter = quest[Head(vm).slot].ref
    BY <1>10 DEF RunVm, RunQueue, RunShutdown, RunRelease, OffCourier
  <2> QED BY <1>1, <2>1, <2>2, <2>3, <2>4, Framed
<1>11. CASE UNCHANGED <<lifecycle, world, open, events>>
  BY <1>1, <1>11, Framed DEF world
<1> QED BY <1>4, <1>5, <1>6, <1>7, <1>8, <1>9, <1>10, <1>11, PoolFrame

Numbered ==
  /\ calls \cup {composition, designated} \cup Known \subseteq 0 .. session
  /\ \A i \in DOMAIN tasks : tasks[i].session <= session

\* Between the start of a session and its dispatch, the session's own letter
\* is nowhere.
Early  == {"Start", "ComposingLLM", "LLMResultReady", "DispatchRequested"}
Unsent == stage = "COMPOSE" /\ param /\ sub \in Early
Fresh  == Unsent => session \notin Known \cup {designated}

\* What the sub-phase says of the call and of the task it waits for: of this
\* session's dispatches, none is queued but the one awaited.
DispatchesFit(p) ==
  \A i \in DOMAIN tasks : tasks[i] = Task("dispatch") =>
    /\ p = "DispatchRequested"
    /\ \A j \in DOMAIN tasks : tasks[j] = Task("dispatch") => i = j

SubPhaseFits ==
  stage = "COMPOSE" =>
    /\ sub \in Early => inFlight = NoSlot
    /\ sub \in Early \ {"Start"} => param
    /\ session \in calls => sub = "ComposingLLM"
    /\ DispatchesFit(sub)

\* What a step does to the tasks: adds one of this session, takes the first,
\* or, over a restart, leaves none.
LEMMA TaskStep ==
  ASSUME TypeOK, BeatData, [Next]_vars
  PROVE  \/ tasks' = tasks
         \/ \E op : tasks' = Append(tasks, Task(op)) /\ session' = session
         \/ tasks # <<>> /\ tasks' = Tail(tasks) /\ session' = session
         \/ tasks' = <<>> /\ session' = session
<1>1. CASE TickDispatch \/ TickVerify \/ SweepQueued
  BY <1>1 DEF TickDispatch, TickVerify, SweepQueued
<1>2. CASE Tasks
  BY <1>2 DEF Tasks, DispatchFails, DispatchDeclined, DispatchLaunches, CheckCourier, Sweep, TaskIs
<1>3. CASE Restart
  BY <1>3 DEF Restart
<1>4. CASE OnStart \/ Abort \/ Answer
  BY <1>4 DEF OnStart, Abort, Answer, queue
<1>5. CASE TickCompose \/ TickPoll \/ TickSucceeded \/ TickFailed \/ TickStaged \/ TickCleanup
             \/ TickDone
  BY <1>5 DEF TickCompose, TickPoll, TickSucceeded, TickFailed, TickStaged, TickCleanup, TickDone,
              queue
<1>6. CASE QuestFills \/ ((PoolStep \/ RunVm) /\ UNCHANGED beatVars) \/ UNCHANGED vars
  BY <1>6 DEF QuestFills, vars, beatVars, queue
<1> QED BY <1>1, <1>2, <1>3, <1>4, <1>5, <1>6 DEF Next, Tick

\* Only a dispatch puts a new sender at the designated rank, and only a start
\* begins a session.
LEMMA SessionStep ==
  ASSUME TypeOK, BeatData, [Next]_vars
  PROVE  \/ OnStart
         \/ /\ session' = session
            /\ calls' \subseteq calls \cup {session}
            /\ composition' \in {composition, NoLetter} \cup calls
            /\ \/ designated' \in {designated, NoLetter}
               \/ DispatchLaunches /\ designated' = composition
<1>1. CASE Tick
  BY <1>1 DEF Tick, TickCompose, TickDispatch, TickPoll, TickSucceeded, TickFailed, TickStaged,
              TickVerify, TickCleanup, TickDone, Cleanup, request
<1>2. CASE Abort \/ Answer
  BY <1>2 DEF Abort, Answer, Cleanup, ResetSession, request
<1>3. CASE Tasks
  BY <1>3 DEF Tasks, DispatchFails, DispatchDeclined, DispatchLaunches, CheckCourier, Sweep, request
<1>4. CASE Restart \/ SweepQueued
  BY <1>4 DEF Restart, ResetSession, SweepQueued, request
<1>5. CASE QuestFills \/ ((PoolStep \/ RunVm) /\ UNCHANGED beatVars) \/ UNCHANGED vars
  BY <1>5 DEF QuestFills, vars, beatVars, request
<1> QED BY <1>1, <1>2, <1>3, <1>4, <1>5 DEF Next

LEMMA NumbersHold ==
  ASSUME TypeOK, PoolData, BeatData, SessionHasLetter, Numbered, [Next]_vars
  PROVE  Numbered'
<1>1. session \in Nat /\ session' \in Nat /\ session <= session' /\ session \in 0 .. session
  <2>1. session' \in {session, session + 1}
    BY SessionStep DEF OnStart
  <2> QED BY <2>1 DEF BeatData
<1>2. calls \cup {composition, designated, NoLetter} \cup Known \subseteq 0 .. session
  BY <1>1 DEF Numbered, NoLetter
<1>3. 0 .. session \subseteq 0 .. session'
  BY <1>1
<1>4. calls' \cup {composition', designated'} \subseteq 0 .. session
  <2>1. CASE OnStart
    BY <1>2, <2>1 DEF OnStart, ResetSession
  <2>2. CASE ~OnStart
    BY <1>1, <1>2, <2>2, SessionStep
  <2> QED BY <2>1, <2>2
<1>5. Known' \subseteq 0 .. session
  BY <1>2, KnownGrows
<1>6. \A i \in DOMAIN tasks' : tasks'[i].session <= session'
  <2>1. \A i \in DOMAIN tasks : tasks[i].session <= session /\ tasks[i].session \in Nat
    <3>1. \A i \in DOMAIN tasks : tasks[i] \in TaskType
      BY ElementOfSeq DEF BeatData
    <3> QED BY <3>1 DEF Numbered, TaskType
  <2>2. CASE tasks' = tasks
    BY <1>1, <2>1, <2>2
  <2>3. ASSUME NEW op, tasks' = Append(tasks, Task(op)), session' = session
        PROVE  \A i \in DOMAIN tasks' : tasks'[i].session <= session'
    <3>1. \A i \in DOMAIN tasks' : tasks'[i] = Task(op) \/ (i \in DOMAIN tasks /\ tasks'[i] = tasks[i])
      BY <2>3 DEF BeatData
    <3>2. Task(op).session = session
      BY DEF Task
    <3> QED BY <1>1, <2>1, <2>3, <3>1, <3>2
  <2>4. CASE tasks # <<>> /\ tasks' = Tail(tasks) /\ session' = session
    <3>1. \A i \in DOMAIN tasks' : i + 1 \in DOMAIN tasks /\ tasks'[i] = tasks[i + 1]
      BY <2>4 DEF BeatData
    <3> QED BY <2>1, <2>4, <3>1
  <2>5. CASE tasks' = <<>>
    BY <2>5
  <2> QED BY <2>2, <2>3, <2>4, <2>5, TaskStep
<1> QED BY <1>3, <1>4, <1>5, <1>6 DEF Numbered

\* A dispatch that crosses nothing is the one its sub-phase waits for, and no
\* other is queued.
LEMMA DispatchWasDue ==
  ASSUME TypeOK, BeatData, SubPhaseFits, TaskIs("dispatch"), DispatchCrosses, Uncrossed'
  PROVE  /\ stage = "COMPOSE" /\ composition = session
         /\ sub = "DispatchRequested" /\ inFlight = NoSlot /\ param /\ session \notin calls
         /\ \A i \in DOMAIN tasks' : tasks'[i] # Task("dispatch")
<1>1. stage = "COMPOSE" /\ composition = session /\ Head(tasks).session = session
  BY DEF DispatchCrosses, Uncrossed
<1>2. tasks # <<>> /\ Head(tasks).op = "dispatch" /\ tasks' = Tail(tasks) /\ Head(tasks) = tasks[1]
      /\ 1 \in DOMAIN tasks
  BY DEF TaskIs, BeatData
<1>3. tasks[1] = Task("dispatch")
  <2>1. tasks[1] \in TaskType
    BY <1>2, ElementOfSeq DEF BeatData
  <2> QED BY <1>1, <1>2, <2>1 DEF TaskType, Task
<1>4. sub = "DispatchRequested" /\ \A j \in DOMAIN tasks : tasks[j] = Task("dispatch") => 1 = j
  BY <1>1, <1>2, <1>3 DEF SubPhaseFits, DispatchesFit
<1>5. \A i \in DOMAIN tasks' : i + 1 \in DOMAIN tasks /\ tasks'[i] = tasks[i + 1] /\ 1 # i + 1
  BY <1>2 DEF BeatData
<1>6. \A i \in DOMAIN tasks' : tasks'[i] # Task("dispatch")
  BY <1>4, <1>5
<1> QED BY <1>1, <1>4, <1>6 DEF SubPhaseFits, Early

\* A step that queues no task and may take one leaves that so.
LEMMA DispatchesStay ==
  ASSUME BeatData, NEW p, DispatchesFit(p), session' = session,
         tasks' = tasks \/ (tasks # <<>> /\ tasks' = Tail(tasks))
  PROVE  /\ DispatchesFit(p)'
         /\ p # "DispatchRequested" => \A i \in DOMAIN tasks' : tasks'[i] # Task("dispatch")
<1>1. Task("dispatch")' = Task("dispatch")
  BY DEF Task
<1>2. CASE tasks' = tasks
  BY <1>1, <1>2 DEF DispatchesFit
<1>3. CASE tasks # <<>> /\ tasks' = Tail(tasks)
  <2>1. \A i \in DOMAIN tasks' : i + 1 \in DOMAIN tasks /\ tasks'[i] = tasks[i + 1] /\ i \in Nat
    BY <1>3 DEF BeatData
  <2>2. \A i, j \in DOMAIN tasks' : i + 1 = j + 1 => i = j
    BY <2>1
  <2> QED BY <1>1, <2>1, <2>2 DEF DispatchesFit
<1> QED BY <1>2, <1>3

LEMMA SubPhasesFit ==
  ASSUME TypeOK, BeatData, Numbered, SubPhaseFits, [Next]_vars, Uncrossed'
  PROVE  SubPhaseFits'
<1> SUFFICES ASSUME stage' = "COMPOSE"
             PROVE  /\ sub' \in Early => inFlight' = NoSlot
                    /\ sub' \in Early \ {"Start"} => param'
                    /\ session' \in calls' => sub' = "ComposingLLM"
                    /\ DispatchesFit(sub)'
  BY DEF SubPhaseFits, DispatchesFit
<1>1. stage = "COMPOSE" => /\ sub \in Early => inFlight = NoSlot
                           /\ sub \in Early \ {"Start"} => param
                           /\ session \in calls => sub = "ComposingLLM"
                           /\ DispatchesFit(sub)
  BY DEF SubPhaseFits
<1>2. CASE OnStart
  <2>1. session' = session + 1 /\ session' \notin calls' /\ tasks' = tasks
    BY <1>2 DEF OnStart, queue, Numbered, BeatData
  <2>2. \A i \in DOMAIN tasks' : tasks'[i] # [op |-> "dispatch", session |-> session']
    BY <2>1 DEF Numbered, BeatData
  <2>3. \A i \in DOMAIN tasks' : tasks'[i] # Task("dispatch")'
    BY <2>2 DEF Task
  <2> QED BY <1>2, <2>1, <2>3 DEF OnStart, ResetSession, Early, DispatchesFit
<1>3. CASE TickCompose
  <2>1. /\ stage = "COMPOSE" /\ sub = "Start" /\ UNCHANGED <<tasks, session, inFlight, param>>
        /\ (param /\ sub' = "ComposingLLM") \/ (sub' = "Failed" /\ calls' = calls)
    BY <1>3 DEF TickCompose, Composing, queue, flight, request
  <2>2. DispatchesFit(sub)'
    BY <1>1, <2>1, DispatchesStay DEF DispatchesFit
  <2> QED BY <1>1, <2>1, <2>2 DEF Early
<1>4. CASE TickDispatch
  <2>1. /\ stage = "COMPOSE" /\ sub = "LLMResultReady" /\ sub' = "DispatchRequested"
        /\ UNCHANGED <<session, inFlight, param, calls>> /\ tasks' = Append(tasks, Task("dispatch"))
    BY <1>4 DEF TickDispatch, Composing, flight, request
  <2>2. \A i \in DOMAIN tasks : tasks[i] # Task("dispatch")
    BY <1>1, <2>1 DEF DispatchesFit
  <2>3. \A i \in DOMAIN tasks' : (i \in DOMAIN tasks /\ tasks'[i] = tasks[i]) \/ i = Len(tasks) + 1
    BY <2>1 DEF BeatData
  <2>4. DispatchesFit(sub)'
    BY <2>1, <2>2, <2>3 DEF DispatchesFit, Task
  <2> QED BY <1>1, <2>1, <2>4 DEF Early
<1>5. CASE TickPoll
  <2>1. /\ stage = "COMPOSE" /\ sub \in {"PollingSender", "PollingLetterRef"}
        /\ UNCHANGED <<tasks, session, inFlight, param, calls>>
    BY <1>5 DEF TickPoll, Composing, queue, flight, request
  <2>2. sub' \in {"Failed", "PollingSender", "PollingLetterRef", "Succeeded"}
    BY <1>5, <2>1 DEF TickPoll, AfterCheck
  <2>3. DispatchesFit(sub)'
    BY <1>1, <2>1, DispatchesStay DEF DispatchesFit
  <2> QED BY <1>1, <2>1, <2>2, <2>3 DEF Early
<1>6. CASE Answer
  <2>1. PICK n \in calls : /\ calls' = calls \ {n}
                           /\ crossed' = IF n # session /\ stage = "COMPOSE" THEN "answer" ELSE crossed
                           /\ sub' \in {"LLMResultReady", "Failed"} /\ param' = param
    BY <1>6 DEF Answer, request
  <2>2. UNCHANGED <<stage, tasks, session, inFlight>>
    BY <1>6 DEF Answer, queue, flight
  <2>3. n = session
    BY <2>1, <2>2 DEF Uncrossed
  <2>4. sub = "ComposingLLM"
    BY <1>1, <2>2, <2>3
  <2>5. DispatchesFit(sub)'
    BY <1>1, <2>2, <2>4, DispatchesStay DEF DispatchesFit
  <2> QED BY <1>1, <2>1, <2>2, <2>3, <2>4, <2>5 DEF Early
<1>7. CASE DispatchFails \/ DispatchDeclined \/ DispatchLaunches
  <2>1. TaskIs("dispatch") /\ sub' \in {"Failed", "PollingSender"} /\ UNCHANGED <<stage, session, calls>>
    BY <1>7 DEF DispatchFails, DispatchDeclined, DispatchLaunches
  <2>2. DispatchCrosses
    BY <1>7 DEF DispatchFails, DispatchDeclined, DispatchLaunches, Uncrossed
  <2>3. /\ session \notin calls
        /\ \A i \in DOMAIN tasks' : tasks'[i] # Task("dispatch")
    BY <2>1, <2>2, DispatchWasDue
  <2>4. DispatchesFit(sub)'
    BY <2>1, <2>3 DEF DispatchesFit, Task
  <2> QED BY <2>1, <2>3, <2>4 DEF Early
<1>8. CASE CheckCourier \/ Sweep
  <2>1. /\ tasks # <<>> /\ tasks' = Tail(tasks)
        /\ UNCHANGED <<stage, sub, session, inFlight, param, calls>>
    BY <1>8 DEF CheckCourier, Sweep, TaskIs, request, flight
  <2>2. DispatchesFit(sub)'
    BY <1>1, <2>1, DispatchesStay DEF DispatchesFit
  <2> QED BY <1>1, <2>1, <2>2
<1>9. CASE Restart
  <2>1. /\ tasks' = <<>>
        /\ calls' = {} /\ sub' = "Start" /\ inFlight' = NoSlot /\ session' = session
    BY <1>9 DEF Restart, ResetSession
  <2> QED BY <2>1 DEF DispatchesFit, Early
<1>10. CASE QuestFills \/ ((PoolStep \/ RunVm) /\ UNCHANGED beatVars) \/ UNCHANGED vars
  <2>1. UNCHANGED <<stage, sub, session, inFlight, param, calls, tasks>>
    BY <1>10 DEF QuestFills, vars, beatVars, request, flight, queue
  <2> QED BY <1>1, <2>1 DEF DispatchesFit, Task
<1>11. CASE Abort \/ TickSucceeded \/ TickFailed \/ TickStaged \/ TickVerify \/ TickCleanup \/ TickDone
  <2>1. stage' # "COMPOSE"
    BY <1>11 DEF Abort, TickSucceeded, TickFailed, TickStaged, TickVerify, TickCleanup, TickDone
  <2> QED BY <2>1
<1>12. CASE SweepQueued
  <2>1. /\ UNCHANGED <<stage, sub, session, inFlight, param, calls>>
        /\ tasks' = Append(tasks, Task("sweep"))
    BY <1>12 DEF SweepQueued, request, flight
  <2>2. Len(tasks) + 1 \notin DOMAIN tasks /\ tasks'[Len(tasks) + 1] # Task("dispatch")
    BY <2>1 DEF Task, BeatData
  <2>3. \A i \in DOMAIN tasks' : (i \in DOMAIN tasks /\ tasks'[i] = tasks[i]) \/ i = Len(tasks) + 1
    BY <2>1 DEF BeatData
  <2>4. Task("dispatch")' = Task("dispatch")
    BY <2>1 DEF Task
  <2>5. DispatchesFit(sub)'
    BY <1>1, <2>1, <2>2, <2>3, <2>4 DEF DispatchesFit
  <2> QED BY <1>1, <2>1, <2>5
<1> QED BY <1>2, <1>3, <1>4, <1>5, <1>6, <1>7, <1>8, <1>9, <1>10, <1>11, <1>12
        DEF Next, Tick, Tasks

LEMMA LettersAreFresh ==
  ASSUME TypeOK, PoolData, BeatData, SessionHasLetter, Numbered, SubPhaseFits, Fresh,
         [Next]_vars, Uncrossed'
  PROVE  Fresh'
<1> SUFFICES ASSUME Unsent'
             PROVE  session' \notin Known' \cup {designated'}
  BY DEF Fresh
<1>1. CASE OnStart
  <2>1. session' = session + 1 /\ designated' = designated
    BY <1>1 DEF OnStart
  <2>2. session' \notin 0 .. session /\ session' # NoLetter
    BY <2>1 DEF BeatData, NoLetter
  <2> QED BY <2>1, <2>2, KnownGrows DEF Numbered
<1>2. CASE ~OnStart
  <2>1. Unsent
    <3>1. stage = "COMPOSE"
      BY <1>2 DEF Unsent, Next, Tick, Tasks, Abort, Answer, QuestFills, Restart,
        TickCompose, TickDispatch, TickPoll, TickSucceeded, TickFailed, TickStaged, TickVerify,
        TickCleanup, TickDone, DispatchFails, DispatchDeclined, DispatchLaunches, CheckCourier,
        SweepQueued, Sweep, Composing, vars, beatVars
    <3>2. param /\ sub \in Early
      <4>1. CASE Answer
        <5>1. PICK n \in calls :
                /\ crossed' = IF n # session /\ stage = "COMPOSE" THEN "answer" ELSE crossed
                /\ param' = param
          BY <4>1 DEF Answer, request
        <5>2. n = session
          BY <3>1, <5>1 DEF Uncrossed
        <5> QED BY <3>1, <5>1, <5>2 DEF SubPhaseFits, Early, Unsent
      <4>2. CASE ~Answer
        BY <1>2, <3>1, <4>2 DEF Unsent, Early, Next, Tick, Tasks, Abort, QuestFills, Restart,
          TickCompose, TickDispatch, TickPoll, TickSucceeded, TickFailed, TickStaged, TickVerify,
          TickCleanup, TickDone, DispatchFails, DispatchDeclined, DispatchLaunches, CheckCourier,
          SweepQueued, Sweep, Composing, AfterCheck, vars, beatVars, request
      <4> QED BY <4>1, <4>2
    <3> QED BY <3>1, <3>2 DEF Unsent
  <2>2. session \notin Known \cup {designated, NoLetter}
    BY <2>1, PoolConstants DEF Fresh, Unsent, SessionHasLetter, NoLetter
  <2>3. session' = session /\ designated' \in {designated, NoLetter}
    <3>1. ~DispatchLaunches
      BY DEF DispatchLaunches, Unsent, Early
    <3> QED BY <1>2, <3>1, SessionStep
  <2> QED BY <2>2, <2>3, KnownGrows
<1> QED BY <1>1, <1>2

-----------------------------------------------------------------------------
(* What holds of each slot, its quest, and the letters going through them. *)

Awaiting(s, n) == slot[s].state = "PendingDelivery" /\ slot[s].letter = n
AtDoor(s, n)   == [slot |-> s, letter |-> n, at |-> "courier"]

\* No letter n of slot s is on its way or anywhere.
Nothing(s, n) ==
  /\ Call("queue", s, n) \notin Sent /\ <<s, n>> \notin Moved
  /\ \A c \in copies : ~(c.slot = s /\ c.letter = n)

\* A slot held for a letter has a quest with that letter or none; the letter
\* is on its way exactly from the time the quest has it, and nothing meant
\* for an earlier letter of the slot is meant for this one.
Held(s) ==
  slot[s].state = "PendingDelivery" =>
    /\ slot[s].letter # NoLetter /\ quest[s].ref \in {NoLetter, slot[s].letter}
    /\ quest[s].ref = NoLetter => Nothing(s, slot[s].letter)
    /\ quest[s].ref = slot[s].letter =>
         \/ Call("queue", s, slot[s].letter) \in Sent \/ <<s, slot[s].letter>> \in Moved
         \/ AtDoor(s, slot[s].letter) \in copies
    /\ Call("shutdown", s, slot[s].letter) \notin Sent
    /\ Call("release", s, slot[s].letter) \notin Sent

\* A quest the engine may fill has had no letter of that sender before.
Unfilled(s) ==
  designated # NoLetter /\ quest[s].running /\ quest[s].ref = NoLetter => Nothing(s, designated)

\* A letter is in one place: to be queued, or one copy, and not with the
\* courier when it has left him.
OnePlace(s) ==
  \A n \in Letters :
    /\ Call("queue", s, n) \in Sent =>
         <<s, n>> \notin Moved /\ \A c \in copies : ~(c.slot = s /\ c.letter = n)
    /\ <<s, n>> \in Moved => AtDoor(s, n) \notin copies
    /\ \A c, d \in copies : c.slot = s /\ d.slot = s /\ c.letter = n /\ d.letter = n => c = d

Stopping(s) == \E n \in Letters \cup {NoLetter} : Call("shutdown", s, n) \in Sent

\* A quest that runs with nothing in it is its slot's, or about to be stopped.
Stops(s) ==
  quest[s].running /\ quest[s].ref = NoLetter /\ slot[s].state # "PendingDelivery" => Stopping(s)

\* A letter with the courier, or about to be, is the one its slot awaits, or
\* the courier will be told to let go of it.
Kept(s, n) == Awaiting(s, n) \/ s \in sweep.orphans \/ (quest[s].ref = n /\ Stopping(s))
Owed(s) ==
  \A n \in Letters :
    /\ AtDoor(s, n) \in copies => Kept(s, n) \/ Call("release", s, n) \in Sent
    /\ Call("queue", s, n) \in Sent /\ quest[s].ref = n => Kept(s, n)

SlotFits(s) == Held(s) /\ Unfilled(s) /\ OnePlace(s) /\ Stops(s) /\ Owed(s)

RefRuns == \A s \in Slots : quest[s].ref # NoLetter => quest[s].running

\* A slot whose quest is still without its letter is the beat's own, its
\* sender at the rank, and the beat has not given it up.
Underway ==
  \A s \in Slots : slot[s].state = "PendingDelivery" /\ quest[s].ref = NoLetter =>
    /\ inFlight = s /\ designated = slot[s].letter
    /\ \/ stage = "COMPOSE" /\ sub # "Succeeded"
       \/ stage = "CLEANUP" /\ ~success

\* A letter is queued by one call.
QueuedOnce ==
  \A i, j \in DOMAIN vm : vm[i] = vm[j] /\ vm[i].op = "queue" => i = j

\* A sweep's orphans are slots it found free.
Orphans == sweep.orphans \subseteq sweep.free

\* A slot a step leaves alone stays as it is.
LEMMA SlotFrame ==
  ASSUME NEW s \in Slots, SlotFits(s),
         slot'[s] = slot[s], quest'[s] = quest[s],
         \A op, n : Call(op, s, n) \in Sent' <=> Call(op, s, n) \in Sent,
         \A n : <<s, n>> \in Moved' <=> <<s, n>> \in Moved,
         \A c : c.slot = s => (c \in copies' <=> c \in copies),
         designated' \in {designated, NoLetter} \/ Nothing(s, designated'),
         s \in sweep'.orphans <=> s \in sweep.orphans
  PROVE  SlotFits(s)'
<1>1. \A n : Nothing(s, n)' <=> Nothing(s, n)
  BY DEF Nothing
<1>2. \A n : AtDoor(s, n) \in copies' <=> AtDoor(s, n) \in copies
  BY DEF AtDoor
<1>3. Stopping(s)' <=> Stopping(s)
  BY DEF Stopping
<1>4. \A n : Kept(s, n)' <=> Kept(s, n)
  BY <1>3 DEF Kept, Awaiting
<1>5. Held(s)'
  BY <1>1, <1>2 DEF Held, SlotFits
<1>6. Unfilled(s)'
  BY <1>1 DEF Unfilled, SlotFits
<1>7. OnePlace(s)'
  BY <1>2 DEF OnePlace, SlotFits
<1>8. Stops(s)' /\ Owed(s)'
  BY <1>2, <1>3, <1>4 DEF Stops, Owed, SlotFits
<1> QED BY <1>5, <1>6, <1>7, <1>8 DEF SlotFits

LEMMA CallsDiffer ==
  \A op, s, n, p, t, m : Call(op, s, n) = Call(p, t, m) <=> op = p /\ s = t /\ n = m
BY DEF Call

\* A slot given up while its quest is told to stop: by a rollback or by the
\* player's hands.
LEMMA SlotGivenUp ==
  ASSUME PoolData, NEW s \in Slots, SlotFits(s), RefRuns,
         slot'[s].state = "Free", quest'[s] = quest[s], NEW n \in Letters \cup {NoLetter},
         \/ Sent' = Sent \cup {Call("shutdown", s, n)}
         \/ Sent' = Sent /\ ~quest[s].running,
         \A m : <<s, m>> \in Moved' => <<s, m>> \in Moved,
         copies' \subseteq copies,
         designated' \in {designated, NoLetter}, s \in sweep'.orphans <=> s \in sweep.orphans
  PROVE  SlotFits(s)'
<1>1. \A m : Nothing(s, m) => Nothing(s, m)'
  BY CallsDiffer DEF Nothing
<1>2. /\ \A m : AtDoor(s, m) \in copies' => AtDoor(s, m) \in copies
      /\ \A m : Call("queue", s, m) \in Sent' <=> Call("queue", s, m) \in Sent
      /\ \A m : Call("release", s, m) \in Sent => Call("release", s, m) \in Sent'
  BY CallsDiffer
<1>3. quest[s].running => Stopping(s)'
  BY DEF Stopping
<1>4. Held(s)' /\ Unfilled(s)' /\ Stops(s)'
  BY <1>1, <1>3 DEF Held, Unfilled, Stops, SlotFits
<1>5. OnePlace(s)'
  BY <1>2 DEF OnePlace, SlotFits
<1>6. Owed(s)'
  <2> SUFFICES ASSUME NEW m \in Letters
               PROVE  /\ AtDoor(s, m) \in copies' => Kept(s, m)' \/ Call("release", s, m) \in Sent'
                      /\ Call("queue", s, m) \in Sent' /\ quest'[s].ref = m => Kept(s, m)'
    BY DEF Owed
  <2>1. quest[s].ref = m => Kept(s, m)'
    <3>1. m # NoLetter
      BY PoolConstants DEF NoLetter
    <3> QED BY <1>3, <3>1 DEF Kept, RefRuns
  <2>2. ASSUME AtDoor(s, m) \in copies'
        PROVE  Kept(s, m)' \/ Call("release", s, m) \in Sent'
    <3>1. AtDoor(s, m) \in copies /\ ~Nothing(s, m)
      BY <1>2, <2>2 DEF Nothing, AtDoor
    <3>2. CASE Awaiting(s, m)
      <4>1. quest[s].ref = m
        BY <3>1, <3>2 DEF Awaiting, SlotFits, Held
      <4> QED BY <2>1, <4>1
    <3>3. CASE s \in sweep.orphans
      BY <3>3 DEF Kept
    <3>4. CASE Call("release", s, m) \in Sent
      BY <1>2, <3>4
    <3> QED BY <2>1, <3>1, <3>2, <3>3, <3>4 DEF SlotFits, Owed, Kept
  <2> QED BY <1>2, <2>1, <2>2
<1> QED BY <1>4, <1>5, <1>6 DEF SlotFits

LEMMA CleanupFits ==
  ASSUME TypeOK, PoolData, RefRuns, \A s \in Slots : SlotFits(s), NEW ok, Cleanup(ok),
         sweep' = sweep
  PROVE  \A s \in Slots : SlotFits(s)'
<1>1. designated' \in {designated, NoLetter} /\ UNCHANGED <<quest, copies, events>>
  BY DEF Cleanup
<1>2. Moved' = Moved
  BY <1>1, Framed
<1>3. CASE inFlight # NoSlot /\ ~ok
  <2>1. PICK f \in Slots : f = inFlight
    BY <1>3 DEF TypeOK
  <2>2. quest[f].ref \in Letters \cup {NoLetter}
    BY DEF PoolData
  <2>3. \/ Sent' = Sent \cup {Call("shutdown", f, quest[f].ref)}
        \/ Sent' = Sent /\ ~quest[f].running
    BY <1>3, <2>1, SentAppend, Framed DEF Cleanup
  <2>4. slot'[f].state = "Free" /\ \A s \in Slots : s # f => slot'[s] = slot[s]
    BY <1>3, <2>1 DEF Cleanup, Freed, PoolData
  <2>5. SlotFits(f)'
    BY <1>1, <1>2, <2>2, <2>3, <2>4, SlotGivenUp
  <2>6. ASSUME NEW s \in Slots, s # f
        PROVE  SlotFits(s)'
    <3>1. \A op, n : Call(op, s, n) \in Sent' <=> Call(op, s, n) \in Sent
      BY <2>3, <2>6, CallsDiffer
    <3>2. slot'[s] = slot[s] /\ quest'[s] = quest[s]
      BY <1>1, <2>4, <2>6
    <3> QED BY <1>1, <1>2, <3>1, <3>2, SlotFrame
  <2> QED BY <2>5, <2>6
<1>4. CASE ~(inFlight # NoSlot /\ ~ok)
  <2>1. slot' = slot /\ Sent' = Sent
    BY <1>4, Framed DEF Cleanup
  <2> QED BY <1>1, <1>2, <2>1, SlotFrame
<1> QED BY <1>3, <1>4

LEMMA DiscardedFits ==
  ASSUME TypeOK, PoolData, RefRuns, \A s \in Slots : SlotFits(s), Discarded,
         UNCHANGED <<sweep, designated>>
  PROVE  \A s \in Slots : SlotFits(s)'
<1>1. PICK f \in Slots, m \in Letters : f = Head(events).slot /\ m = Head(events).letter
  BY EventIsTyped DEF Discarded
<1>2. Moved = Moved' \cup {<<f, m>>}
  BY <1>1, MovedTail DEF Discarded
<1>3. /\ quest' = quest /\ copies' \subseteq copies
      /\ \A c \in copies : c.slot # f => c \in copies'
      /\ slot' = Freed(f)
      /\ vm' = Append(vm, Call("shutdown", f, quest[f].ref))
  BY <1>1 DEF Discarded, SweptBy
<1>4. quest[f].ref \in Letters \cup {NoLetter}
  BY DEF PoolData
<1>5. Sent' = Sent \cup {Call("shutdown", f, quest[f].ref)}
  BY <1>3, SentAppend
<1>6. slot'[f].state = "Free" /\ \A s \in Slots : s # f => slot'[s] = slot[s]
  BY <1>3 DEF Freed, PoolData
<1>7. SlotFits(f)'
  BY <1>2, <1>3, <1>4, <1>5, <1>6, SlotGivenUp
<1>8. ASSUME NEW s \in Slots, s # f
      PROVE  SlotFits(s)'
  <2>1. \A op, n : Call(op, s, n) \in Sent' <=> Call(op, s, n) \in Sent
    BY <1>5, <1>8, CallsDiffer
  <2>2. \A n : <<s, n>> \in Moved' <=> <<s, n>> \in Moved
    BY <1>2, <1>8
  <2>3. \A c : c.slot = s => (c \in copies' <=> c \in copies)
    BY <1>3, <1>8
  <2>4. slot'[s] = slot[s] /\ quest'[s] = quest[s]
    BY <1>3, <1>6, <1>8
  <2> QED BY <2>1, <2>2, <2>3, <2>4, SlotFrame
<1> QED BY <1>7, <1>8

LEMMA QuestFillsFits ==
  ASSUME TypeOK, PoolData, Underway, \A s \in Slots : SlotFits(s), QuestFills
  PROVE  \A s \in Slots : SlotFits(s)'
<1>1. PICK f \in Slots : /\ quest[f].running /\ quest[f].ref = NoLetter
                         /\ quest' = [quest EXCEPT ![f].ref = designated]
                         /\ vm' = Append(vm, Call("queue", f, designated))
  BY DEF QuestFills
<1>2. /\ UNCHANGED <<slot, copies, events, designated, sweep>>
      /\ designated \in Letters /\ designated # NoLetter
  BY DEF QuestFills, beatVars, lifecycle, queue, TypeOK
<1>3. Sent' = Sent \cup {Call("queue", f, designated)} /\ Moved' = Moved
  BY <1>1, <1>2, SentAppend, Framed
<1>4. /\ quest'[f].ref = designated
      /\ \A s \in Slots : s # f => quest'[s] = quest[s]
  BY <1>1 DEF PoolData
<1>5. Nothing(f, designated)
  BY <1>1, <1>2 DEF SlotFits, Unfilled
<1>6. slot[f].state = "PendingDelivery" => designated = slot[f].letter
  BY <1>1 DEF Underway
<1>7. ASSUME NEW s \in Slots, s # f
      PROVE  SlotFits(s)'
  <2>1. \A op, n : Call(op, s, n) \in Sent' <=> Call(op, s, n) \in Sent
    BY <1>3, <1>7, CallsDiffer
  <2> QED BY <1>2, <1>3, <1>4, <1>7, <2>1, SlotFrame
<1>8. /\ \A op, m : op # "queue" => (Call(op, f, m) \in Sent' <=> Call(op, f, m) \in Sent)
      /\ \A m : Call("queue", f, m) \in Sent' <=> m = designated \/ Call("queue", f, m) \in Sent
  BY <1>3, CallsDiffer
<1>9. Held(f)'
  BY <1>2, <1>3, <1>4, <1>6, <1>8 DEF Held, SlotFits
<1>10. Unfilled(f)' /\ Stops(f)'
  BY <1>2, <1>4 DEF Unfilled, Stops
<1>11. OnePlace(f)'
  <2> SUFFICES ASSUME NEW n \in Letters
               PROVE  /\ Call("queue", f, n) \in Sent' =>
                           <<f, n>> \notin Moved /\ \A c \in copies : ~(c.slot = f /\ c.letter = n)
                      /\ <<f, n>> \in Moved => AtDoor(f, n) \notin copies
                      /\ \A c, d \in copies :
                           c.slot = f /\ d.slot = f /\ c.letter = n /\ d.letter = n => c = d
    BY <1>2, <1>3 DEF OnePlace, AtDoor
  <2>1. OnePlace(f)
    BY DEF SlotFits
  <2>2. CASE n = designated
    BY <1>5, <2>1, <2>2 DEF OnePlace, Nothing
  <2>3. CASE n # designated
    BY <1>8, <2>1, <2>3 DEF OnePlace
  <2> QED BY <2>2, <2>3
<1>12. Owed(f)'
  <2>1. \A m \in Letters : Kept(f, m) => Kept(f, m)'
    <3>1. \A m \in Letters : m # NoLetter
      BY PoolConstants DEF NoLetter
    <3> QED BY <1>1, <1>2, <3>1 DEF Kept, Awaiting
  <2>2. Kept(f, designated)'
    <3>1. CASE slot[f].state = "PendingDelivery"
      BY <1>2, <1>6, <3>1 DEF Kept, Awaiting
    <3>2. CASE slot[f].state # "PendingDelivery"
      <4>1. Stopping(f)'
        BY <1>1, <1>8, <3>2 DEF SlotFits, Stops, Stopping
      <4> QED BY <1>2, <1>4, <4>1 DEF Kept
    <3> QED BY <3>1, <3>2
  <2>3. \A m \in Letters : AtDoor(f, m) \in copies' => Kept(f, m)' \/ Call("release", f, m) \in Sent'
    BY <1>2, <1>8, <2>1 DEF SlotFits, Owed, AtDoor
  <2>4. \A m \in Letters : quest'[f].ref = m => Kept(f, m)'
    BY <1>2, <1>4, <2>2
  <2> QED BY <2>3, <2>4 DEF Owed
<1>13. SlotFits(f)'
  BY <1>9, <1>10, <1>11, <1>12 DEF SlotFits
<1> QED BY <1>7, <1>13

\* A dispatch that crosses nothing takes a slot of its own for a letter that
\* is nowhere yet, while no sender is at the rank.
LEMMA DispatchTakes ==
  ASSUME TypeOK, PoolData, BeatData, SessionHasLetter, SenderIsOurs, SubPhaseFits, Fresh,
         DispatchDeclined \/ DispatchLaunches, Uncrossed, Uncrossed'
  PROVE  /\ Allocate \in Slots /\ slot[Allocate].state # "PendingDelivery"
         /\ stage = "COMPOSE" /\ composition = session /\ session # NoLetter
         /\ session \notin Known /\ designated = NoLetter /\ inFlight = NoSlot
         /\ sender' = session
<1>1. Allocate \in Slots /\ slot[Allocate].state # "PendingDelivery"
  BY AllocateIn DEF TypeOK, DispatchDeclined, DispatchLaunches
<1>2. TaskIs("dispatch") /\ DispatchCrosses
  BY DEF DispatchDeclined, DispatchLaunches, Uncrossed
<1>3. /\ stage = "COMPOSE" /\ composition = session
      /\ sub = "DispatchRequested" /\ inFlight = NoSlot /\ param
  BY <1>2, DispatchWasDue
<1>4. session # NoLetter
  BY <1>3, PoolConstants DEF SessionHasLetter, NoLetter
<1>5. session \notin Known \cup {designated}
  BY <1>3 DEF Fresh, Unsent, Early
<1>6. designated = NoLetter
  BY <1>5 DEF SenderIsOurs
<1>7. sender' = session
  BY <1>3 DEF DispatchDeclined, DispatchLaunches
<1> QED BY <1>1, <1>3, <1>4, <1>5, <1>6, <1>7

\* A letter the pool does not know of is nothing of any slot.
LEMMA UnknownIsNothing ==
  ASSUME NEW n, n \notin Known
  PROVE  \A s \in Slots : Nothing(s, n) /\ \A op : Call(op, s, n) \notin Sent
<1>1. \A op, s : Call(op, s, n).letter = n
  BY DEF Call
<1>2. \A s : <<s, n>>[2] = n
  OBVIOUS
<1> QED BY <1>1, <1>2 DEF Known, Nothing

LEMMA DispatchFits ==
  ASSUME TypeOK, PoolData, BeatData, SessionHasLetter, SenderIsOurs, RefRuns, SubPhaseFits, Fresh,
         \A s \in Slots : SlotFits(s),
         DispatchDeclined \/ DispatchLaunches, Uncrossed, Uncrossed'
  PROVE  \A s \in Slots : SlotFits(s)'
<1>1. PICK f \in Slots : f = Allocate
  BY DispatchTakes
<1>2. PICK n \in Letters :
        /\ slot[f].state # "PendingDelivery" /\ composition = n /\ n # NoLetter
        /\ n \notin Known /\ designated = NoLetter
  BY <1>1, DispatchTakes DEF SessionHasLetter
<1>3. /\ copies' = AfterEviction(f) /\ vm' = EvictCalls(f) /\ UNCHANGED <<events, sweep>>
      /\ designated' \in {NoLetter, n}
      /\ \/ /\ quest' = [quest EXCEPT ![f] = EvictedQuest(f)]
            /\ slot' = [Populated(f, n) EXCEPT ![f].state = "Free"]
         \/ /\ quest' = [quest EXCEPT ![f] = [EvictedQuest(f) EXCEPT !.running = TRUE]]
            /\ slot' = Populated(f, n)
            /\ ~EvictedQuest(f).running
  BY <1>1, <1>2 DEF DispatchDeclined, DispatchLaunches, TaskIs, Uncrossed
<1>4. /\ EvictedQuest(f) \in [running : BOOLEAN, ref : Letters \cup {NoLetter}]
      /\ ~EvictedQuest(f).running => EvictedQuest(f).ref = NoLetter
      /\ slot[f].state = "Free" => EvictedQuest(f) = quest[f]
      /\ slot[f].state # "Free" => EvictedQuest(f).ref = NoLetter /\ ~EvictedQuest(f).running
  BY EvictionTyped DEF TypeOK, EvictedQuest, NoQuest, RefRuns
<1>5. /\ \A s \in Slots : s # f => slot'[s] = slot[s] /\ quest'[s] = quest[s]
      /\ slot'[f].letter = n
      /\ \/ slot'[f].state = "Free" /\ quest'[f] = EvictedQuest(f)
         \/ /\ slot'[f].state = "PendingDelivery" /\ quest'[f].ref = NoLetter
            /\ EvictedQuest(f).ref = NoLetter
  <2>1. quest \in [Slots -> [running : BOOLEAN, ref : Letters \cup {NoLetter}]]
    BY DEF PoolData
  <2>2. Populated(f, n) \in [Slots -> [state : States, letter : Letters \cup {NoLetter}]]
        /\ Populated(f, n)[f] = [state |-> "PendingDelivery", letter |-> n]
        /\ \A s \in Slots : s # f => Populated(f, n)[s] = slot[s]
    BY DEF Populated, PoolData, States
  <2>3. CASE /\ quest' = [quest EXCEPT ![f] = EvictedQuest(f)]
             /\ slot' = [Populated(f, n) EXCEPT ![f].state = "Free"]
    BY <2>1, <2>2, <2>3
  <2>4. CASE /\ quest' = [quest EXCEPT ![f] = [EvictedQuest(f) EXCEPT !.running = TRUE]]
             /\ slot' = Populated(f, n)
             /\ ~EvictedQuest(f).running
    BY <1>4, <2>1, <2>2, <2>4
  <2> QED BY <1>3, <2>3, <2>4
<1>6. /\ copies' \subseteq copies /\ Moved' = Moved
      /\ \A c \in copies : c.slot # f => c \in copies'
  BY <1>3, Framed DEF AfterEviction, SweptBy
<1>7. IF slot[f].state # "Free" /\ quest[f].ref # NoLetter
      THEN Sent' = Sent \cup {Call("release", f, quest[f].ref)} ELSE Sent' = Sent
  BY <1>3, SentAppend, Framed DEF EvictCalls
<1>8. /\ \A op, m : op # "release" => (Call(op, f, m) \in Sent' <=> Call(op, f, m) \in Sent)
      /\ \A m : Call("release", f, m) \in Sent => Call("release", f, m) \in Sent'
      /\ \A m : Nothing(f, m) => Nothing(f, m)'
      /\ Stopping(f)' <=> Stopping(f)
  BY <1>6, <1>7, CallsDiffer DEF Nothing, Stopping
<1>9. Nothing(f, n)' /\ \A op : Call(op, f, n) \notin Sent'
  <2>1. quest[f].ref # n
    BY <1>2 DEF Known
  <2> QED BY <1>2, <1>7, <1>8, <2>1, UnknownIsNothing, CallsDiffer
<1>10. Held(f)'
  BY <1>2, <1>5, <1>9 DEF Held, Nothing
<1>11. Unfilled(f)'
  BY <1>3, <1>9 DEF Unfilled, Nothing
<1>12. OnePlace(f)'
  BY <1>6, <1>8 DEF OnePlace, SlotFits, AtDoor
<1>13. Stops(f)'
  BY <1>2, <1>4, <1>5, <1>8 DEF Stops, SlotFits
<1>14. Owed(f)'
  <2> SUFFICES ASSUME NEW m \in Letters
               PROVE  /\ AtDoor(f, m) \in copies' => Kept(f, m)' \/ Call("release", f, m) \in Sent'
                      /\ Call("queue", f, m) \in Sent' /\ quest'[f].ref = m => Kept(f, m)'
    BY DEF Owed
  <2>1. m # NoLetter
    BY PoolConstants DEF NoLetter
  <2>2. Kept(f, m) => f \in sweep.orphans \/ (quest[f].ref = m /\ Stopping(f))
    BY <1>2 DEF Kept, Awaiting
  <2>3. Kept(f, m) => Kept(f, m)' \/ Call("release", f, m) \in Sent'
    <3>1. CASE f \in sweep.orphans
      BY <1>3, <3>1 DEF Kept
    <3>2. CASE quest[f].ref = m /\ Stopping(f) /\ slot[f].state # "Free"
      BY <1>7, <2>1, <3>2
    <3>3. CASE quest[f].ref = m /\ Stopping(f) /\ slot[f].state = "Free"
      <4>1. quest'[f] = quest[f]
        BY <1>4, <1>5, <2>1, <3>3
      <4> QED BY <1>8, <3>3, <4>1 DEF Kept
    <3> QED BY <2>2, <3>1, <3>2, <3>3
  <2>4. AtDoor(f, m) \in copies' => Kept(f, m)' \/ Call("release", f, m) \in Sent'
    BY <1>6, <1>8, <2>3 DEF SlotFits, Owed
  <2>5. ASSUME Call("queue", f, m) \in Sent', quest'[f].ref = m
        PROVE  Kept(f, m)'
    <3>1. quest[f].ref = m /\ quest'[f] = quest[f]
      BY <1>4, <1>5, <2>1, <2>5
    <3> QED BY <1>3, <1>8, <2>2, <2>5, <3>1 DEF SlotFits, Owed, Kept
  <2> QED BY <2>4, <2>5
<1>15. SlotFits(f)'
  BY <1>10, <1>11, <1>12, <1>13, <1>14 DEF SlotFits
<1>16. ASSUME NEW s \in Slots, s # f
      PROVE  SlotFits(s)'
  <2>1. \A op, m : Call(op, s, m) \in Sent' <=> Call(op, s, m) \in Sent
    BY <1>7, <1>16, CallsDiffer
  <2>2. designated' \in {designated, NoLetter} \/ Nothing(s, designated')
    BY <1>2, <1>3, UnknownIsNothing
  <2>3. \A c : c.slot = s => (c \in copies' <=> c \in copies)
    BY <1>6, <1>16
  <2> QED BY <1>3, <1>5, <1>6, <1>16, <2>1, <2>2, <2>3, SlotFrame
<1> QED BY <1>15, <1>16

LEMMA SweepFits ==
  ASSUME TypeOK, PoolData, Orphans, \A s \in Slots : SlotFits(s), Sweep, Uncrossed'
  PROVE  \A s \in Slots : SlotFits(s)'
<1>1. /\ UNCHANGED <<slot, events, designated>> /\ sweep' = NoSweep
      /\ quest' = [s \in Slots |-> IF s \in sweep.orphans THEN NoQuest ELSE quest[s]]
      /\ copies' \subseteq copies
      /\ \A c \in copies : c.slot \notin sweep.free => c \in copies'
  BY DEF Sweep, TaskIs, lifecycle, Orphans
<1>2. /\ \A s \in Slots : quest'[s] = IF s \in sweep.orphans THEN NoQuest ELSE quest[s]
      /\ \A s \in sweep.free : slot[s].state = "Free"
  BY <1>1 DEF Sweep, Uncrossed
<1>3. Sent' = Sent \cup SweepCalls /\ Moved' = Moved
  BY <1>1, SweepSends, Framed
<1>4. ASSUME NEW s \in Slots, s \notin sweep.free
      PROVE  SlotFits(s)'
  <2>1. \A op, n : Call(op, s, n) \notin SweepCalls
    BY <1>4, CallsDiffer DEF SweepCalls, Orphans
  <2>2. quest'[s] = quest[s] /\ s \notin sweep.orphans /\ s \notin sweep'.orphans
    BY <1>1, <1>2, <1>4 DEF Orphans, NoSweep
  <2>3. \A c : c.slot = s => (c \in copies' <=> c \in copies)
    BY <1>1, <1>4
  <2> QED BY <1>1, <1>3, <2>1, <2>2, <2>3, SlotFrame
<1>5. ASSUME NEW s \in Slots, s \in sweep.free
      PROVE  SlotFits(s)'
  <2>1. slot'[s].state = "Free" /\ slot[s].state = "Free"
    BY <1>1, <1>2, <1>5
  <2>2. \A n : Call("queue", s, n) \in Sent' <=> Call("queue", s, n) \in Sent
    BY <1>3, CallsDiffer DEF SweepCalls
  <2>3. \A n : Nothing(s, n) => Nothing(s, n)'
    BY <1>1, <1>3, <2>2 DEF Nothing
  <2>4. Stopping(s) => Stopping(s)'
    BY <1>3 DEF Stopping
  <2>5. quest'[s] = quest[s] \/ (~quest'[s].running /\ quest'[s].ref = NoLetter)
    BY <1>2 DEF NoQuest
  <2>6. Held(s)' /\ Unfilled(s)' /\ Stops(s)'
    BY <1>1, <2>1, <2>3, <2>4, <2>5 DEF Held, Unfilled, Stops, SlotFits, Nothing
  <2>7. OnePlace(s)'
    BY <1>1, <1>3, <2>2 DEF OnePlace, SlotFits, AtDoor
  <2>8. Owed(s)'
    <3> SUFFICES ASSUME NEW n \in Letters
                 PROVE  /\ AtDoor(s, n) \in copies' => Call("release", s, n) \in Sent'
                        /\ Call("queue", s, n) \in Sent' /\ quest'[s].ref = n => Kept(s, n)'
      BY DEF Owed
    <3>1. AtDoor(s, n) \in copies => Call("release", s, n) \in SweepCalls
      <4>1. AtDoor(s, n).slot = s /\ AtDoor(s, n).letter = n /\ AtDoor(s, n).at = "courier"
        BY DEF AtDoor
      <4> QED BY <1>5, <4>1 DEF SweepCalls
    <3>2. ASSUME Call("queue", s, n) \in Sent', quest'[s].ref = n
          PROVE  Kept(s, n)'
      <4>1. n # NoLetter
        BY PoolConstants DEF NoLetter
      <4>2. s \notin sweep.orphans /\ quest'[s] = quest[s]
        BY <1>2, <3>2, <4>1 DEF NoQuest
      <4> QED BY <2>1, <2>2, <2>4, <3>2, <4>2 DEF SlotFits, Owed, Kept, Awaiting
    <3>3. AtDoor(s, n) \in copies' => AtDoor(s, n) \in copies
      BY <1>1 DEF AtDoor
    <3> QED BY <1>3, <3>1, <3>2, <3>3
  <2> QED BY <2>6, <2>7, <2>8 DEF SlotFits
<1> QED BY <1>4, <1>5

\* A load finds every letter on its way with its quest filled: a sender still
\* at the rank would be a crossing.
LEMMA RestartFits ==
  ASSUME TypeOK, PoolData, Underway, Orphans, \A s \in Slots : SlotFits(s), Restart, Uncrossed'
  PROVE  \A s \in Slots : SlotFits(s)'
<1>1. PICK aged \in SUBSET In("PendingDelivery"), free \in SUBSET Slots :
        /\ aged \subseteq free
        /\ \A s \in free : s \in aged \/ slot[s].state # "PendingDelivery"
        /\ slot' = [s \in Slots |-> IF s \in free THEN Freed(s)[s] ELSE slot[s]]
        /\ sweep' = [orphans |-> aged, free |-> free]
  <2>1. PICK aged \in SUBSET In("PendingDelivery") :
        LET gone == {s \in In("InInventory") \cup In("Read") :
                       ~\E c \in copies : c.slot = s /\ c.at = "player"}
            free == In("Free") \cup aged \cup gone
        IN  /\ slot' = [s \in Slots |-> IF s \in free THEN Freed(s)[s] ELSE slot[s]]
            /\ sweep' = [orphans |-> aged, free |-> free]
    BY DEF Restart
  <2> QED BY <2>1 DEF In
<1>2. /\ designated = NoLetter /\ designated' = NoLetter /\ sweep.orphans = {}
      /\ events' = events /\ UNCHANGED world
  BY DEF Restart, Uncrossed
<1>3. Sent' = Sent /\ Moved' = Moved /\ copies' = copies /\ quest' = quest
  BY <1>2, Framed DEF world
<1>4. ASSUME NEW s \in Slots, s \notin free
      PROVE  SlotFits(s)'
  BY <1>1, <1>2, <1>3, <1>4, SlotFrame
<1>5. ASSUME NEW s \in Slots, s \in free
      PROVE  SlotFits(s)'
  <2>1. slot'[s].state = "Free"
    BY <1>1, <1>5 DEF Freed, PoolData
  <2>2. Held(s)' /\ Unfilled(s)'
    BY <1>2, <2>1 DEF Held, Unfilled
  <2>3. OnePlace(s)'
    BY <1>3 DEF OnePlace, SlotFits, AtDoor
  <2>4. Stops(s)'
    <3>1. CASE slot[s].state = "PendingDelivery"
      BY <1>2, <1>3, <3>1 DEF Underway, SlotFits, Held, Stops
    <3>2. CASE slot[s].state # "PendingDelivery"
      BY <1>3, <3>2 DEF SlotFits, Stops, Stopping
    <3> QED BY <3>1, <3>2
  <2>5. \A n \in Letters : Kept(s, n) => Kept(s, n)'
    BY <1>1, <1>2, <1>3, <1>5 DEF Kept, Awaiting, Stopping
  <2>6. Owed(s)'
    BY <1>3, <2>5 DEF SlotFits, Owed, AtDoor
  <2> QED BY <2>2, <2>3, <2>4, <2>6 DEF SlotFits
<1> QED BY <1>4, <1>5

LEMMA CloseBookFits ==
  ASSUME TypeOK, PoolData, \A s \in Slots : SlotFits(s), CloseBook, UNCHANGED <<sweep, designated>>
  PROVE  \A s \in Slots : SlotFits(s)'
<1>1. /\ Sent' = Sent /\ Moved' = Moved /\ copies' = copies /\ quest' = quest
      /\ UNCHANGED <<sweep, designated>>
  BY Framed DEF CloseBook, world
<1>2. ASSUME NEW s \in Slots
      PROVE  SlotFits(s)'
  <2>1. slot'[s] = slot[s]
        \/ (slot[s].state # "PendingDelivery" /\ slot'[s].state # "PendingDelivery")
    BY DEF CloseBook, PoolData
  <2>2. CASE slot'[s] = slot[s]
    BY <1>1, <2>2, SlotFrame
  <2>3. CASE slot[s].state # "PendingDelivery" /\ slot'[s].state # "PendingDelivery"
    <3>1. Held(s)' /\ Unfilled(s)' /\ OnePlace(s)' /\ Stops(s)'
      BY <1>1, <2>3 DEF SlotFits, Held, Unfilled, OnePlace, Stops, Stopping, Nothing, AtDoor
    <3>2. \A n : Kept(s, n) => Kept(s, n)'
      BY <1>1, <2>3 DEF Kept, Awaiting, Stopping
    <3>3. Owed(s)'
      BY <1>1, <3>2 DEF SlotFits, Owed, AtDoor
    <3> QED BY <3>1, <3>3 DEF SlotFits
  <2> QED BY <2>1, <2>2, <2>3
<1> QED BY <1>2

LEMMA MoveFits ==
  ASSUME TypeOK, PoolData, \A s \in Slots : SlotFits(s), NEW b \in copies,
         NEW place \in Places \ {"courier"}, NEW move \in Moves, MoveTo(b, place, move),
         UNCHANGED <<sweep, designated>>
  PROVE  \A s \in Slots : SlotFits(s)'
<1>1. b \in Copies
  BY DEF PoolData
<1>2. PICK f \in Slots, n \in Letters : b = [slot |-> f, letter |-> n, at |-> b.at]
  BY <1>1 DEF Copies
<1> DEFINE d == [slot |-> f, letter |-> n, at |-> place]
<1>3. [b EXCEPT !.at = place] = d
  BY <1>1, <1>2 DEF Copies
<1>4. /\ slot' = slot /\ quest' = quest /\ Sent' = Sent
      /\ copies' = (copies \ {b}) \cup {d} /\ Moved' = Moved \cup {<<f, n>>}
      /\ UNCHANGED <<sweep, designated>>
  BY <1>2, <1>3, MovedAppend, Framed DEF MoveTo, lifecycle
<1>5. b.slot = f /\ b.letter = n /\ d.slot = f /\ d.letter = n /\ \A m : d # AtDoor(f, m)
  BY <1>2 DEF AtDoor
<1> HIDE DEF d
<1>6. ASSUME NEW s \in Slots, s # f
      PROVE  SlotFits(s)'
  <2>1. \A c : c.slot = s => (c \in copies' <=> c \in copies)
    BY <1>4, <1>5, <1>6
  <2>2. \A m : <<s, m>> \in Moved' <=> <<s, m>> \in Moved
    BY <1>4, <1>6
  <2> QED BY <1>4, <1>6, <2>1, <2>2, SlotFrame
<1>7. /\ \A m : m # n /\ Nothing(f, m) => Nothing(f, m)'
      /\ ~Nothing(f, n)
      /\ \A m : AtDoor(f, m) \in copies' => AtDoor(f, m) \in copies
      /\ \A m : m # n /\ AtDoor(f, m) \in copies => AtDoor(f, m) \in copies'
  <2>1. \A m : AtDoor(f, m).letter = m
    BY DEF AtDoor
  <2> QED BY <1>4, <1>5, <2>1 DEF Nothing
<1>8. Held(f)'
  <2> DEFINE m == slot[f].letter
  <2>1. slot[f].state = "PendingDelivery" /\ quest[f].ref = NoLetter => Nothing(f, m)'
    BY <1>4, <1>7 DEF SlotFits, Held, Nothing
  <2>2. slot[f].state = "PendingDelivery" /\ quest[f].ref = m =>
          \/ Call("queue", f, m) \in Sent' \/ <<f, m>> \in Moved' \/ AtDoor(f, m) \in copies'
    BY <1>4, <1>7 DEF SlotFits, Held
  <2> QED BY <1>4, <2>1, <2>2 DEF SlotFits, Held, AtDoor, Nothing
<1>9. Unfilled(f)'
  BY <1>4, <1>7 DEF SlotFits, Unfilled, Nothing
<1>10. OnePlace(f)'
  <2> SUFFICES ASSUME NEW m \in Letters
               PROVE  /\ Call("queue", f, m) \in Sent =>
                           <<f, m>> \notin Moved' /\ \A c \in copies' : ~(c.slot = f /\ c.letter = m)
                      /\ <<f, m>> \in Moved' => AtDoor(f, m) \notin copies'
                      /\ \A c, e \in copies' :
                           c.slot = f /\ e.slot = f /\ c.letter = m /\ e.letter = m => c = e
    BY <1>4 DEF OnePlace, AtDoor
  <2>1. OnePlace(f)
    BY DEF SlotFits
  <2>2. CASE m = n
    <3>1. Call("queue", f, m) \notin Sent
      BY <1>5, <2>1, <2>2 DEF OnePlace
    <3>2. \A c \in copies : c.slot = f /\ c.letter = m => c = b
      BY <1>5, <2>1, <2>2 DEF OnePlace
    <3>3. \A c \in copies' : c.slot = f /\ c.letter = m => c = d
      BY <1>4, <3>2
    <3>4. AtDoor(f, m) \notin copies'
      <4>1. AtDoor(f, m).slot = f /\ AtDoor(f, m).letter = m
        BY DEF AtDoor
      <4> QED BY <1>5, <3>3, <4>1
    <3> QED BY <3>1, <3>3, <3>4
  <2>3. CASE m # n
    <3>1. \A c \in copies' : c.letter = m => c \in copies
      BY <1>4, <1>5, <2>3
    <3>2. <<f, m>> \in Moved' => <<f, m>> \in Moved
      BY <1>4, <2>3
    <3> QED BY <1>7, <2>1, <2>3, <3>1, <3>2 DEF OnePlace
  <2> QED BY <2>2, <2>3
<1>11. Stops(f)' /\ Owed(f)'
  <2>1. Stopping(f)' <=> Stopping(f)
    BY <1>4 DEF Stopping
  <2>2. \A m : Kept(f, m)' <=> Kept(f, m)
    BY <1>4, <2>1 DEF Kept, Awaiting
  <2> QED BY <1>4, <1>7, <2>1, <2>2 DEF SlotFits, Stops, Owed
<1> QED BY <1>6, <1>8, <1>9, <1>10, <1>11 DEF SlotFits

LEMMA ArrivedFits ==
  ASSUME TypeOK, PoolData, \A s \in Slots : SlotFits(s), Arrived, Uncrossed',
         UNCHANGED <<sweep, designated>>
  PROVE  \A s \in Slots : SlotFits(s)'
<1>1. PICK f \in Slots, m \in Letters : f = Head(events).slot /\ m = Head(events).letter
  BY EventIsTyped DEF Arrived
<1>2. Moved = Moved' \cup {<<f, m>>}
  BY <1>1, MovedTail DEF Arrived
<1>3. Sent' = Sent /\ copies' = copies /\ quest' = quest /\ UNCHANGED <<sweep, designated>>
  BY Framed DEF Arrived, world
<1>4. IF slot[f].state = "PendingDelivery"
      THEN slot' = [slot EXCEPT ![f].state = "InInventory"] /\ slot[f].letter = m
      ELSE slot' = slot
  BY <1>1 DEF Arrived, Crosses, Uncrossed, lifecycle
<1>5. /\ \A s \in Slots : s # f => slot'[s] = slot[s]
      /\ slot'[f].state # "PendingDelivery"
      /\ slot'[f] = slot[f] \/ Awaiting(f, m)
  BY <1>4 DEF PoolData, Awaiting
<1>6. ASSUME NEW s \in Slots, s # f
      PROVE  SlotFits(s)'
  <2>1. \A k : <<s, k>> \in Moved' <=> <<s, k>> \in Moved
    BY <1>2, <1>6
  <2> QED BY <1>3, <1>5, <1>6, <2>1, SlotFrame
<1>7. /\ \A k : Nothing(f, k) => Nothing(f, k)'
      /\ ~Nothing(f, m)
      /\ Stopping(f)' <=> Stopping(f)
  BY <1>2, <1>3 DEF Nothing, Stopping
<1>8. Held(f)' /\ Unfilled(f)'
  BY <1>3, <1>5, <1>7 DEF SlotFits, Held, Unfilled, Nothing
<1>9. OnePlace(f)'
  BY <1>2, <1>3 DEF SlotFits, OnePlace, AtDoor
<1>10. Stops(f)'
  <2>1. CASE slot'[f] = slot[f]
    BY <1>3, <1>5, <1>7, <2>1 DEF SlotFits, Stops
  <2>2. CASE Awaiting(f, m)
    BY <1>3, <1>7, <2>2 DEF SlotFits, Stops, Held, Awaiting
  <2> QED BY <1>5, <2>1, <2>2
<1>11. Owed(f)'
  <2> SUFFICES ASSUME NEW k \in Letters
               PROVE  /\ AtDoor(f, k) \in copies => Kept(f, k)' \/ Call("release", f, k) \in Sent
                      /\ Call("queue", f, k) \in Sent /\ quest[f].ref = k => Kept(f, k)'
    BY <1>3 DEF Owed, AtDoor
  <2>1. CASE k = m
    <3>1. /\ AtDoor(f, k) \notin copies
          /\ Call("queue", f, k) \notin Sent
      BY <1>2, <2>1 DEF SlotFits, OnePlace
    <3> QED BY <3>1
  <2>2. CASE k # m
    <3>1. Kept(f, k) => Kept(f, k)'
      BY <1>3, <1>5, <1>7, <2>2 DEF Kept, Awaiting
    <3> QED BY <3>1 DEF SlotFits, Owed
  <2> QED BY <2>1, <2>2
<1> QED BY <1>6, <1>8, <1>9, <1>10, <1>11 DEF SlotFits

\* Queuing takes the letter's one call and makes its one copy; a quest that
\* holds nothing is stopped.
LEMMA RunQueueFits ==
  ASSUME TypeOK, PoolData, RefRuns, QueuedOnce, \A s \in Slots : SlotFits(s), RunQueue, Uncrossed',
         Head(vm) \notin Sent', UNCHANGED <<sweep, designated>>
  PROVE  \A s \in Slots : SlotFits(s)'
<1>1. Sent = Sent' \cup {Head(vm)} /\ Head(vm) \in CallType
  BY SentTail DEF RunQueue
<1>2. PICK f \in Slots, n \in Letters \cup {NoLetter} : Head(vm) = Call("queue", f, n)
  BY <1>1 DEF CallType, Call, RunQueue
<1>3. Head(vm).slot = f /\ Head(vm).letter = n
  BY <1>2 DEF Call
<1>4. /\ slot' = slot /\ Moved' = Moved /\ UNCHANGED <<sweep, designated>>
      /\ quest[f].ref \in {NoLetter, n}
      /\ copies' = IF quest[f].ref = NoLetter THEN copies ELSE copies \cup {AtDoor(f, n)}
  <2>1. quest[f].running => quest[f].ref = n
    BY <1>3 DEF RunQueue, Uncrossed
  <2>2. quest[f].ref \in {NoLetter, n}
    BY <2>1 DEF RefRuns
  <2> QED BY <1>3, <2>2, Framed DEF RunQueue, AtDoor, lifecycle
<1>5. /\ \A s \in Slots : s # f => quest'[s] = quest[s]
      /\ quest'[f].ref = quest[f].ref
      /\ quest[f].ref = NoLetter => ~quest'[f].running
  <2>1. quest' = IF quest[f].ref = NoLetter THEN [quest EXCEPT ![f] = NoQuest] ELSE quest
    BY <1>3 DEF RunQueue
  <2> QED BY <2>1 DEF PoolData, NoQuest
<1>6. \A m : /\ AtDoor(f, m).slot = f /\ AtDoor(f, m).letter = m
             /\ \A k : AtDoor(f, m) = AtDoor(f, k) => m = k
  BY DEF AtDoor
<1>7. ASSUME NEW s \in Slots, s # f
      PROVE  SlotFits(s)'
  <2>1. \A op, k : Call(op, s, k) \in Sent' <=> Call(op, s, k) \in Sent
    BY <1>1, <1>2, <1>7, CallsDiffer
  <2>2. \A c : c.slot = s => (c \in copies' <=> c \in copies)
    BY <1>4, <1>6, <1>7
  <2> QED BY <1>4, <1>5, <1>7, <2>1, <2>2, SlotFrame
<1>8. /\ \A m : Call("queue", f, m) \in Sent' <=> m # n /\ Call("queue", f, m) \in Sent
      /\ Call("queue", f, n) \in Sent
      /\ \A op, m : op # "queue" => (Call(op, f, m) \in Sent' <=> Call(op, f, m) \in Sent)
      /\ Stopping(f)' <=> Stopping(f)
  BY <1>1, <1>2, CallsDiffer DEF Stopping
<1>9. \A m : Kept(f, m)' <=> Kept(f, m)
  BY <1>4, <1>5, <1>8 DEF Kept, Awaiting
<1>10. quest[f].ref = NoLetter => \A m : Nothing(f, m) => Nothing(f, m)'
  BY <1>4, <1>8 DEF Nothing
<1>11. Held(f)'
  <2>1. slot[f].state = "PendingDelivery" /\ quest[f].ref # NoLetter =>
          AtDoor(f, slot[f].letter) \in copies'
    BY <1>4 DEF SlotFits, Held
  <2> QED BY <1>4, <1>5, <1>8, <1>10, <2>1 DEF SlotFits, Held, Nothing, AtDoor
<1>12. Unfilled(f)' /\ Stops(f)'
  BY <1>5 DEF Unfilled, Stops
<1>13. OnePlace(f)'
  <2> SUFFICES ASSUME NEW m \in Letters
               PROVE  /\ Call("queue", f, m) \in Sent' =>
                           <<f, m>> \notin Moved /\ \A c \in copies' : ~(c.slot = f /\ c.letter = m)
                      /\ <<f, m>> \in Moved => AtDoor(f, m) \notin copies'
                      /\ \A c, e \in copies' :
                           c.slot = f /\ e.slot = f /\ c.letter = m /\ e.letter = m => c = e
    BY <1>4 DEF OnePlace, AtDoor
  <2>1. OnePlace(f)
    BY DEF SlotFits
  <2>2. CASE m = n
    <3>1. <<f, m>> \notin Moved /\ \A c \in copies : ~(c.slot = f /\ c.letter = m)
      BY <1>8, <2>1, <2>2 DEF OnePlace
    <3>2. \A c \in copies' : c.slot = f /\ c.letter = m => c = AtDoor(f, n)
      BY <1>4, <3>1
    <3> QED BY <1>8, <2>2, <3>1, <3>2
  <2>3. CASE m # n
    <3>1. \A c \in copies' : c.letter = m => c \in copies
      BY <1>4, <1>6, <2>3
    <3> QED BY <1>6, <1>8, <2>1, <3>1 DEF OnePlace
  <2> QED BY <2>2, <2>3
<1>14. Owed(f)'
  <2> SUFFICES ASSUME NEW m \in Letters
               PROVE  /\ AtDoor(f, m) \in copies' => Kept(f, m) \/ Call("release", f, m) \in Sent
                      /\ Call("queue", f, m) \in Sent' /\ quest[f].ref = m => Kept(f, m)
    BY <1>4, <1>5, <1>8, <1>9 DEF Owed, AtDoor
  <2>1. AtDoor(f, m) \in copies' /\ AtDoor(f, m) \notin copies => m = n /\ quest[f].ref = m
    BY <1>4, <1>6
  <2> QED BY <1>8, <2>1 DEF SlotFits, Owed
<1> QED BY <1>7, <1>11, <1>12, <1>13, <1>14 DEF SlotFits

\* A quest is only stopped with the letter it was told to stop for, or empty.
LEMMA RunShutdownFits ==
  ASSUME TypeOK, PoolData, \A s \in Slots : SlotFits(s), RunShutdown, Uncrossed',
         UNCHANGED <<sweep, designated>>
  PROVE  \A s \in Slots : SlotFits(s)'
<1>1. Sent = Sent' \cup {Head(vm)} /\ Head(vm) \in CallType
  BY SentTail DEF RunShutdown
<1>2. PICK f \in Slots, n \in Letters \cup {NoLetter} : Head(vm) = Call("shutdown", f, n)
  BY <1>1 DEF CallType, Call, RunShutdown
<1>3. Head(vm).slot = f /\ Head(vm).letter = n
  BY <1>2 DEF Call
<1>4. /\ slot' = slot /\ quest' = [quest EXCEPT ![f] = NoQuest] /\ Moved' = Moved
      /\ UNCHANGED <<sweep, designated>>
      /\ quest[f].ref \in {NoLetter, n}
      /\ copies' = copies \ {AtDoor(f, quest[f].ref)}
  BY <1>3, Framed DEF RunShutdown, Uncrossed, AtDoor, OffCourier, lifecycle
<1>5. /\ \A s \in Slots : s # f => quest'[s] = quest[s]
      /\ ~quest'[f].running /\ quest'[f].ref = NoLetter
  BY <1>4 DEF PoolData, NoQuest
<1>6. ASSUME NEW s \in Slots, s # f
      PROVE  SlotFits(s)'
  <2>1. \A op, k : Call(op, s, k) \in Sent' <=> Call(op, s, k) \in Sent
    BY <1>1, <1>2, <1>6, CallsDiffer
  <2>2. \A c : c.slot = s => (c \in copies' <=> c \in copies)
    BY <1>4, <1>6 DEF AtDoor
  <2> QED BY <1>4, <1>5, <1>6, <2>1, <2>2, SlotFrame
<1>7. /\ Call("shutdown", f, n) \in Sent
      /\ \A op, m : Call(op, f, m) \in Sent' => Call(op, f, m) \in Sent
      /\ \A m : Call("release", f, m) \in Sent => Call("release", f, m) \in Sent'
      /\ \A m : Nothing(f, m) => Nothing(f, m)'
  BY <1>1, <1>2, <1>4, CallsDiffer DEF Nothing
<1>8. slot[f].state = "PendingDelivery" => quest[f].ref = NoLetter
  BY <1>4, <1>7 DEF SlotFits, Held
<1>9. Held(f)'
  BY <1>4, <1>5, <1>7, <1>8 DEF SlotFits, Held, Nothing
<1>10. Unfilled(f)' /\ Stops(f)'
  BY <1>5 DEF Unfilled, Stops
<1>11. OnePlace(f)'
  BY <1>4, <1>7 DEF SlotFits, OnePlace, AtDoor
<1>12. Owed(f)'
  <2> SUFFICES ASSUME NEW m \in Letters
               PROVE  AtDoor(f, m) \in copies' => Kept(f, m)' \/ Call("release", f, m) \in Sent'
    <3>1. \A m \in Letters : quest'[f].ref # m
      BY <1>5, PoolConstants DEF NoLetter
    <3> QED BY <3>1 DEF Owed
  <2>1. AtDoor(f, m) \in copies' => AtDoor(f, m) \in copies /\ m # quest[f].ref
    BY <1>4
  <2>2. m # quest[f].ref /\ Kept(f, m) => Kept(f, m)'
    BY <1>4 DEF Kept, Awaiting
  <2> QED BY <1>7, <2>1, <2>2 DEF SlotFits, Owed
<1> QED BY <1>6, <1>9, <1>10, <1>11, <1>12 DEF SlotFits

LEMMA RunReleaseFits ==
  ASSUME TypeOK, PoolData, \A s \in Slots : SlotFits(s), RunRelease,
         UNCHANGED <<sweep, designated>>
  PROVE  \A s \in Slots : SlotFits(s)'
<1>1. Sent = Sent' \cup {Head(vm)} /\ Head(vm) \in CallType
  BY SentTail DEF RunRelease
<1>2. PICK f \in Slots, n \in Letters \cup {NoLetter} : Head(vm) = Call("release", f, n)
  BY <1>1 DEF CallType, Call, RunRelease
<1>3. Head(vm).slot = f /\ Head(vm).letter = n
  BY <1>2 DEF Call
<1>4. /\ slot' = slot /\ quest' = quest /\ Moved' = Moved /\ UNCHANGED <<sweep, designated>>
      /\ copies' = copies \ {AtDoor(f, n)}
  BY <1>3, Framed DEF RunRelease, AtDoor, OffCourier, lifecycle
<1>5. ASSUME NEW s \in Slots, s # f
      PROVE  SlotFits(s)'
  <2>1. \A op, k : Call(op, s, k) \in Sent' <=> Call(op, s, k) \in Sent
    BY <1>1, <1>2, <1>5, CallsDiffer
  <2>2. \A c : c.slot = s => (c \in copies' <=> c \in copies)
    BY <1>4, <1>5 DEF AtDoor
  <2> QED BY <1>4, <1>5, <2>1, <2>2, SlotFrame
<1>6. /\ Call("release", f, n) \in Sent
      /\ \A op, m : Call(op, f, m) \in Sent' => Call(op, f, m) \in Sent
      /\ \A op, m : op # "release" \/ m # n => (Call(op, f, m) \in Sent' <=> Call(op, f, m) \in Sent)
      /\ \A m : Nothing(f, m) => Nothing(f, m)'
      /\ Stopping(f)' <=> Stopping(f)
  BY <1>1, <1>2, <1>4, CallsDiffer DEF Nothing, Stopping
<1>7. \A m : m # n => (AtDoor(f, m) \in copies' <=> AtDoor(f, m) \in copies)
  BY <1>4 DEF AtDoor
<1>8. Held(f)'
  <2>1. slot[f].state = "PendingDelivery" => slot[f].letter # n
    BY <1>6 DEF SlotFits, Held
  <2> QED BY <1>4, <1>6, <1>7, <2>1 DEF SlotFits, Held, Nothing, AtDoor
<1>9. Unfilled(f)' /\ Stops(f)'
  BY <1>4, <1>6 DEF SlotFits, Unfilled, Stops, Nothing
<1>10. OnePlace(f)'
  BY <1>4, <1>6 DEF SlotFits, OnePlace, AtDoor
<1>11. Owed(f)'
  <2>1. \A m : Kept(f, m)' <=> Kept(f, m)
    BY <1>4, <1>6 DEF Kept, Awaiting
  <2>2. \A m : AtDoor(f, m) \in copies' => m # n /\ AtDoor(f, m) \in copies
    BY <1>4
  <2> QED BY <1>4, <1>6, <2>1, <2>2 DEF SlotFits, Owed
<1> QED BY <1>5, <1>8, <1>9, <1>10, <1>11 DEF SlotFits

-----------------------------------------------------------------------------
(* What holds of the quests, of the calls and of the slot in flight.       *)

LEMMA RefsRun ==
  ASSUME TypeOK, PoolData, RefRuns, [Next]_vars
  PROVE  RefRuns'
<1> SUFFICES ASSUME NEW s \in Slots
             PROVE  quest'[s].ref # NoLetter => quest'[s].running
  BY DEF RefRuns
<1>1. quest[s].ref # NoLetter => quest[s].running
  BY DEF RefRuns
<1>2. quest \in [Slots -> [running : BOOLEAN, ref : Letters \cup {NoLetter}]] /\ NoQuest.ref = NoLetter
  BY DEF PoolData, NoQuest
<1>3. CASE DispatchDeclined \/ DispatchLaunches
  <2>1. PICK f \in Slots : f = Allocate
    BY <1>3, AllocateIn DEF TypeOK, DispatchDeclined, DispatchLaunches
  <2>2. EvictedQuest(f) \in {quest[f], NoQuest}
        /\ EvictedQuest(f) \in [running : BOOLEAN, ref : Letters \cup {NoLetter}]
    BY EvictionTyped DEF EvictedQuest, TypeOK
  <2>3. \/ quest' = [quest EXCEPT ![f] = EvictedQuest(f)]
        \/ quest' = [quest EXCEPT ![f] = [EvictedQuest(f) EXCEPT !.running = TRUE]]
    BY <1>3, <2>1 DEF DispatchDeclined, DispatchLaunches
  <2>4. CASE s # f
    BY <1>1, <1>2, <2>3, <2>4
  <2>5. CASE s = f
    <3>1. quest'[s] \in {EvictedQuest(f), [EvictedQuest(f) EXCEPT !.running = TRUE]}
      BY <1>2, <2>3, <2>5
    <3> QED BY <1>1, <1>2, <2>2, <2>5, <3>1
  <2> QED BY <2>4, <2>5
<1>4. CASE QuestFills
  <2>1. PICK f \in Slots : quest[f].running /\ quest' = [quest EXCEPT ![f].ref = designated]
    BY <1>4 DEF QuestFills
  <2> QED BY <1>1, <1>2, <2>1
<1>5. CASE Sweep
  <2>1. quest'[s] \in {quest[s], NoQuest}
    BY <1>5 DEF Sweep
  <2> QED BY <1>1, <1>2, <2>1
<1>6. CASE RunVm
  <2>1. quest' = quest \/ quest' = [quest EXCEPT ![Head(vm).slot] = NoQuest]
    BY <1>6 DEF RunVm, RunQueue, RunShutdown, RunRelease
  <2> QED BY <1>1, <1>2, <2>1
<1>7. CASE (\E ok : Cleanup(ok)) \/ Restart \/ PoolStep \/ UNCHANGED <<lifecycle, world, open, events>>
  <2>1. quest' = quest
    BY <1>7 DEF Cleanup, Restart, PoolStep, OpenBook, CloseBook, CourierHandsOver, PlayerStores,
                PlayerDrops, PlayerTakes, MoveTo, Arrived, Discarded, world
  <2> QED BY <1>1, <2>1
<1> QED BY <1>3, <1>4, <1>5, <1>6, <1>7, PoolFrame

LEMMA OnceAppended ==
  ASSUME PoolData, QueuedOnce, NEW c, vm' = Append(vm, c), c.op # "queue" \/ c \notin Sent
  PROVE  QueuedOnce'
<1>1. /\ DOMAIN vm = 1 .. Len(vm) /\ Len(vm) \in Nat
      /\ DOMAIN vm' = 1 .. Len(vm) + 1 /\ vm'[Len(vm) + 1] = c
      /\ \A i \in DOMAIN vm : vm'[i] = vm[i]
  BY DEF PoolData
<1>2. \A i \in DOMAIN vm : vm[i] \in Sent
  BY DEF Sent, Range
<1>3. \A i \in DOMAIN vm' : i \in DOMAIN vm \/ i = Len(vm) + 1
  BY <1>1
<1> QED BY <1>1, <1>2, <1>3 DEF QueuedOnce

LEMMA OnceTaken ==
  ASSUME PoolData, QueuedOnce, vm # <<>>, vm' = Tail(vm)
  PROVE  QueuedOnce' /\ (Head(vm).op = "queue" => Head(vm) \notin Sent')
<1>1. /\ Head(vm) = vm[1] /\ 1 \in DOMAIN vm
      /\ \A i \in DOMAIN vm' : i \in Nat \ {0} /\ i + 1 \in DOMAIN vm /\ vm'[i] = vm[i + 1]
  BY DEF PoolData
<1>2. \A i, j \in DOMAIN vm' : (i + 1 = j + 1 => i = j) /\ i + 1 # 1
  BY <1>1
<1>3. QueuedOnce'
  BY <1>1, <1>2 DEF QueuedOnce
<1>4. Head(vm).op = "queue" => \A i \in DOMAIN vm' : vm'[i] # Head(vm)
  BY <1>1, <1>2 DEF QueuedOnce
<1> QED BY <1>3, <1>4 DEF Sent, Range

LEMMA OnceSwept ==
  ASSUME TypeOK, PoolData, QueuedOnce, Sweep
  PROVE  QueuedOnce'
<1> DEFINE r == SetToSeq(SweepCalls)
<1>1. r \in Seq(CallType) /\ Range(r) = SweepCalls /\ vm' = vm \o r
  BY SweepSends
<1>2. \A c \in SweepCalls : c.op = "release"
  BY DEF SweepCalls, Call
<1> HIDE DEF r
<1>3. /\ DOMAIN vm = 1 .. Len(vm) /\ Len(vm) \in Nat
      /\ DOMAIN r = 1 .. Len(r) /\ Len(r) \in Nat
      /\ DOMAIN vm' = 1 .. Len(vm) + Len(r)
      /\ \A i \in 1 .. Len(vm) : vm'[i] = vm[i]
      /\ \A i \in 1 .. Len(vm) + Len(r) : i > Len(vm) => vm'[i] = r[i - Len(vm)]
  BY <1>1 DEF PoolData
<1>4. \A i \in DOMAIN vm' : i \in DOMAIN vm \/ (i > Len(vm) /\ i - Len(vm) \in DOMAIN r)
  BY <1>3
<1>5. \A i \in DOMAIN r : r[i].op = "release"
  BY <1>1, <1>2 DEF Range
<1>6. \A i \in DOMAIN vm' : vm'[i].op = "queue" => i \in DOMAIN vm /\ vm'[i] = vm[i]
  BY <1>3, <1>4, <1>5
<1> QED BY <1>6 DEF QueuedOnce

LEMMA OrphansStay ==
  ASSUME TypeOK, BeatData, Orphans, [Next]_vars
  PROVE  Orphans'
<1>1. CASE Restart
  <2>1. \E aged, free \in SUBSET Slots :
          aged \subseteq free /\ sweep' = [orphans |-> aged, free |-> free]
    BY <1>1 DEF Restart, In
  <2> QED BY <2>1 DEF Orphans
<1>2. CASE Tasks
  <2>1. sweep' \in {sweep, NoSweep}
    BY <1>2 DEF Tasks, DispatchFails, DispatchDeclined, DispatchLaunches, CheckCourier, Sweep, TaskIs
  <2> QED BY <2>1 DEF Orphans, NoSweep
<1>3. CASE OnStart \/ Abort \/ Answer \/ TickCompose \/ TickPoll \/ TickSucceeded \/ TickFailed
             \/ TickStaged \/ TickCleanup \/ TickDone
  BY <1>3 DEF OnStart, Abort, Answer, TickCompose, TickPoll, TickSucceeded, TickFailed,
              TickStaged, TickCleanup, TickDone, Orphans, queue
<1>4. CASE TickDispatch \/ TickVerify \/ SweepQueued
  BY <1>4 DEF TickDispatch, TickVerify, SweepQueued, Orphans
<1>5. CASE QuestFills \/ ((PoolStep \/ RunVm) /\ UNCHANGED beatVars) \/ UNCHANGED vars
  <2>1. UNCHANGED queue
    BY <1>5 DEF QuestFills, vars, beatVars
  <2> QED BY <2>1 DEF Orphans, queue
<1> QED BY <1>1, <1>2, <1>3, <1>4, <1>5 DEF Next, Tick

\* The slot in flight is the only one without its letter, and the beat leaves
\* it only by giving it up.
LEMMA StaysUnderway ==
  ASSUME TypeOK, PoolData, BeatData, SessionHasLetter, SenderIsOurs, SubPhaseFits, Fresh, Underway, Orphans,
         \A s \in Slots : SlotFits(s), [Next]_vars, Uncrossed, Uncrossed'
  PROVE  Underway'
<1> SUFFICES ASSUME NEW s \in Slots, slot'[s].state = "PendingDelivery", quest'[s].ref = NoLetter
             PROVE  /\ inFlight' = s /\ designated' = slot'[s].letter
                    /\ \/ stage' = "COMPOSE" /\ sub' # "Succeeded"
                       \/ stage' = "CLEANUP" /\ ~success'
  BY DEF Underway
<1> DEFINE Waiting == slot[s].state = "PendingDelivery" /\ quest[s].ref = NoLetter
<1>1. Waiting => /\ inFlight = s /\ designated = slot[s].letter /\ designated # NoLetter
                 /\ \/ stage = "COMPOSE" /\ sub # "Succeeded"
                    \/ stage = "CLEANUP" /\ ~success
  BY DEF Underway, SlotFits, Held
<1>2. s # NoSlot
  BY PoolConstants DEF NoSlot
<1>3. CASE DispatchDeclined \/ DispatchLaunches
  <2>1. PICK f \in Slots : f = Allocate
    BY <1>3, DispatchTakes
  <2>2. stage = "COMPOSE" /\ inFlight = NoSlot
    BY <1>3, DispatchTakes
  <2>3. \/ /\ slot' = [Populated(f, composition) EXCEPT ![f].state = "Free"]
           /\ quest' = [quest EXCEPT ![f] = EvictedQuest(f)]
        \/ /\ slot' = Populated(f, composition)
           /\ quest' = [quest EXCEPT ![f] = [EvictedQuest(f) EXCEPT !.running = TRUE]]
           /\ DispatchLaunches
    BY <1>3, <2>1 DEF DispatchDeclined, DispatchLaunches
  <2>4. CASE s # f
    <3>1. slot'[s] = slot[s] /\ quest'[s] = quest[s]
      BY <2>3, <2>4 DEF Populated, PoolData
    <3> QED BY <1>1, <1>2, <2>2, <3>1
  <2>5. CASE s = f
    <3>1. Populated(f, composition) \in [Slots -> [state : States, letter : Letters \cup {NoLetter}]]
          /\ Populated(f, composition)[f] = [state |-> "PendingDelivery", letter |-> composition]
      BY DEF Populated, PoolData, States, BeatData
    <3>2. slot'[f].letter = composition /\ DispatchLaunches
      BY <2>3, <2>5, <3>1
    <3> QED BY <2>1, <2>2, <2>5, <3>2 DEF DispatchLaunches
  <2> QED BY <2>4, <2>5
<1>4. CASE TickCleanup \/ Abort
  <2>1. PICK ok : Cleanup(ok) /\ (ok => TickCleanup /\ success) /\ (TickCleanup => ok = success)
    BY <1>4 DEF TickCleanup, Abort
  <2>2. Waiting
    <3>1. slot'[s].state # slot[s].state => slot'[s].state = "Free"
      BY <2>1 DEF Cleanup, Freed, PoolData
    <3> QED BY <2>1, <3>1 DEF Cleanup
  <2>3. ~ok
    BY <1>1, <2>1, <2>2 DEF TickCleanup
  <2>4. slot'[s].state = "Free"
    BY <1>1, <1>2, <2>1, <2>2, <2>3 DEF Cleanup, Freed, PoolData
  <2> QED BY <2>4
<1>5. CASE QuestFills
  <2>1. Waiting
    BY <1>5 DEF QuestFills, lifecycle, PoolData
  <2> QED BY <1>1, <1>5, <2>1 DEF QuestFills, beatVars, flight, lifecycle
<1>6. CASE Sweep
  <2>1. /\ UNCHANGED <<slot, inFlight, designated, stage, sub, success>>
        /\ quest' = [t \in Slots |-> IF t \in sweep.orphans THEN NoQuest ELSE quest[t]]
        /\ \A t \in sweep.free : slot[t].state = "Free"
    BY <1>6 DEF Sweep, Uncrossed, flight, lifecycle
  <2>2. Waiting
    BY <2>1 DEF Orphans, NoQuest
  <2> QED BY <1>1, <2>1, <2>2
<1>7. CASE Restart
  <2>1. Waiting /\ designated = NoLetter
    <3>1. slot'[s].state = slot[s].state \/ slot'[s].state = "Free"
      BY <1>7 DEF Restart, Freed, PoolData
    <3> QED BY <1>7, <3>1 DEF Restart, Uncrossed, world
  <2> QED BY <1>1, <2>1
<1>8. CASE PoolStep /\ UNCHANGED beatVars
  <2>1. slot'[s] = slot[s] \/ slot'[s].state # "PendingDelivery"
    BY <1>8 DEF PoolStep, OpenBook, CloseBook, CourierHandsOver, PlayerStores, PlayerDrops,
                PlayerTakes, MoveTo, Arrived, Discarded, Freed, lifecycle, PoolData
  <2>2. quest' = quest
    BY <1>8 DEF PoolStep, OpenBook, CloseBook, CourierHandsOver, PlayerStores, PlayerDrops,
                PlayerTakes, MoveTo, Arrived, Discarded, world
  <2> QED BY <1>1, <1>8, <2>1, <2>2 DEF beatVars, flight
<1>9. CASE RunVm /\ UNCHANGED beatVars
  <2>1. slot' = slot
    BY <1>9 DEF RunVm, RunQueue, RunShutdown, RunRelease, lifecycle
  <2>2. CASE quest' = quest
    BY <1>1, <1>9, <2>1, <2>2 DEF beatVars, flight
  <2>3. CASE RunShutdown
    <3>1. Sent = Sent' \cup {Head(vm)} /\ Head(vm) \in CallType
      BY <2>3, SentTail DEF RunShutdown
    <3>2. PICK f \in Slots, n \in Letters \cup {NoLetter} : Head(vm) = Call("shutdown", f, n)
      BY <2>3, <3>1 DEF CallType, Call, RunShutdown
    <3>3. Head(vm).slot = f /\ Head(vm).letter = n
      BY <3>2 DEF Call
    <3>4. quest' = [quest EXCEPT ![f] = NoQuest] /\ quest[f].ref \in {NoLetter, n}
      BY <2>3, <3>3 DEF RunShutdown, Uncrossed
    <3>5. Waiting
      BY <2>1, <3>1, <3>2, <3>4 DEF SlotFits, Held, PoolData
    <3> QED BY <1>1, <1>9, <2>1, <3>5 DEF beatVars, flight
  <2>4. CASE RunQueue
    <3>1. quest' = quest \/ (quest[Head(vm).slot].ref = NoLetter
                             /\ quest' = [quest EXCEPT ![Head(vm).slot] = NoQuest])
      BY <2>4 DEF RunQueue
    <3>2. Waiting
      BY <2>1, <3>1 DEF PoolData
    <3> QED BY <1>1, <1>9, <2>1, <3>2 DEF beatVars, flight
  <2> QED BY <1>9, <2>2, <2>3, <2>4 DEF RunVm, RunRelease
<1>10. CASE OnStart \/ Answer \/ DispatchFails \/ CheckCourier \/ SweepQueued \/ UNCHANGED vars
            \/ TickCompose \/ TickDispatch \/ TickPoll \/ TickSucceeded \/ TickFailed
            \/ TickStaged \/ TickVerify \/ TickDone
  <2>1. /\ slot' = slot /\ quest' = quest /\ designated' = designated
        /\ OnStart \/ inFlight' = inFlight
    BY <1>10 DEF OnStart, Answer, DispatchFails, CheckCourier, SweepQueued, vars, poolVars, beatVars, lifecycle,
                 world, flight, TickCompose, TickDispatch, TickPoll, TickSucceeded, TickFailed,
                 TickStaged, TickVerify, TickDone
  <2>2. Waiting
    BY <2>1
  <2>3. CASE TickPoll
    <3>1. ~Filled /\ stage' = stage /\ success' = success /\ sub # "Succeeded" /\ stage = "COMPOSE"
      BY <1>1, <2>2, <2>3 DEF Filled, TickPoll, Composing
    <3>2. sub' # "Succeeded"
      BY <2>3, <3>1 DEF TickPoll, AfterCheck
    <3> QED BY <1>1, <2>1, <2>2, <2>3, <3>1, <3>2 DEF OnStart, Composing, TickPoll, flight
  <2>4. CASE ~TickPoll
    <3>1. ~OnStart
      BY <1>1, <2>2 DEF OnStart
    <3>2. \/ stage' = "COMPOSE" /\ sub' # "Succeeded"
          \/ stage' = "CLEANUP" /\ ~success'
      BY <1>1, <1>10, <2>2, <2>4, <3>1
         DEF Answer, DispatchFails, CheckCourier, SweepQueued, vars, beatVars, TickCompose, TickDispatch,
             TickSucceeded, TickFailed, TickStaged, TickVerify, TickDone, Composing
    <3> QED BY <1>1, <2>1, <2>2, <3>1, <3>2
  <2> QED BY <2>3, <2>4
<1> QED BY <1>3, <1>4, <1>5, <1>6, <1>7, <1>8, <1>9, <1>10 DEF Next, Tick, Tasks

-----------------------------------------------------------------------------
(* The letters' inductive invariant.                                       *)

Linked ==
  /\ SubPhaseFits /\ Fresh /\ Underway /\ QueuedOnce /\ Orphans
  /\ \A s \in Slots : SlotFits(s)

LInv == IInv /\ Numbered /\ RefRuns /\ (Uncrossed => Linked)

LEMMA CallsQueuedOnce ==
  ASSUME TypeOK, PoolData, RefRuns, QueuedOnce, \A s \in Slots : SlotFits(s), [Next]_vars
  PROVE  QueuedOnce' /\ (RunQueue => Head(vm) \notin Sent')
<1>1. \A op, s, n : Call(op, s, n).op = op
  BY DEF Call
<1>2. CASE \E ok : Cleanup(ok)
  <2>1. vm' = vm \/ vm' = Append(vm, Call("shutdown", inFlight, quest[inFlight].ref))
    BY <1>2 DEF Cleanup
  <2>2. QueuedOnce'
    <3>1. CASE vm' = vm
      BY <3>1 DEF QueuedOnce
    <3> QED BY <1>1, <2>1, <3>1, OnceAppended
  <2> QED BY <1>2, <2>2, OnceTaken DEF RunQueue
<1>3. CASE DispatchDeclined \/ DispatchLaunches
  <2>1. vm' = vm \/ vm' = Append(vm, Call("release", Allocate, quest[Allocate].ref))
    BY <1>3 DEF DispatchDeclined, DispatchLaunches, EvictCalls
  <2>2. QueuedOnce'
    <3>1. CASE vm' = vm
      BY <3>1 DEF QueuedOnce
    <3> QED BY <1>1, <2>1, <3>1, OnceAppended
  <2> QED BY <2>2, OnceTaken DEF RunQueue
<1>4. CASE QuestFills
  <2>1. PICK s \in Slots : /\ quest[s].running /\ quest[s].ref = NoLetter
                           /\ vm' = Append(vm, Call("queue", s, designated))
    BY <1>4 DEF QuestFills
  <2>2. Call("queue", s, designated) \notin Sent
    BY <1>4, <2>1 DEF QuestFills, SlotFits, Unfilled, Nothing
  <2> QED BY <1>1, <2>1, <2>2, OnceAppended, OnceTaken DEF RunQueue
<1>5. CASE Sweep
  BY <1>5, OnceSwept, OnceTaken DEF RunQueue
<1>6. CASE Discarded
  BY <1>1, <1>6, OnceAppended, OnceTaken DEF Discarded, RunQueue
<1>7. CASE RunVm
  BY <1>7, OnceTaken DEF RunVm, RunQueue, RunShutdown, RunRelease
<1>8. CASE Restart \/ (PoolStep /\ ~Discarded) \/ UNCHANGED <<lifecycle, world, open, events>>
  <2>1. vm' = vm
    BY <1>8 DEF Restart, PoolStep, OpenBook, CloseBook, CourierHandsOver, PlayerStores, PlayerDrops,
                PlayerTakes, MoveTo, Arrived, world
  <2> QED BY <2>1, OnceTaken DEF QueuedOnce, RunQueue
<1> QED BY <1>2, <1>3, <1>4, <1>5, <1>6, <1>7, <1>8, PoolFrame

LEMMA SlotsFit ==
  ASSUME TypeOK, PoolData, BeatData, SessionHasLetter, SenderIsOurs, RefRuns, Linked,
         [Next]_vars, Uncrossed, Uncrossed'
  PROVE  \A s \in Slots : SlotFits(s)'
<1>1. SubPhaseFits /\ Fresh /\ Underway /\ QueuedOnce /\ Orphans /\ \A s \in Slots : SlotFits(s)
  BY DEF Linked
<1>2. CASE TickCleanup \/ Abort
  <2>1. PICK ok : Cleanup(ok)
    BY <1>2 DEF TickCleanup, Abort
  <2> QED BY <1>1, <1>2, <2>1, CleanupFits DEF TickCleanup, Abort, queue
<1>3. CASE DispatchDeclined \/ DispatchLaunches
  BY <1>1, <1>3, DispatchFits
<1>4. CASE QuestFills
  BY <1>1, <1>4, QuestFillsFits
<1>5. CASE Sweep
  BY <1>1, <1>5, SweepFits
<1>6. CASE Restart
  BY <1>1, <1>6, RestartFits
<1>7. CASE PoolStep /\ UNCHANGED beatVars
  <2>1. UNCHANGED <<sweep, designated>>
    BY <1>7 DEF beatVars, queue
  <2>2. CASE CourierHandsOver \/ PlayerStores \/ PlayerDrops \/ PlayerTakes
    <3>1. PICK c \in copies, place \in Places \ {"courier"}, move \in Moves : MoveTo(c, place, move)
      BY <2>2 DEF CourierHandsOver, PlayerStores, PlayerDrops, PlayerTakes, Places, Moves
    <3> QED BY <1>1, <2>1, <3>1, MoveFits
  <2>3. CASE OpenBook
    BY <1>1, <2>1, <2>3, Framed, SlotFrame DEF OpenBook, lifecycle, world
  <2> QED BY <1>1, <1>7, <2>1, <2>2, <2>3, CloseBookFits, ArrivedFits, DiscardedFits DEF PoolStep
<1>8. CASE RunVm /\ UNCHANGED beatVars
  <2>1. UNCHANGED <<sweep, designated>>
    BY <1>8 DEF beatVars, queue
  <2>2. RunQueue => Head(vm) \notin Sent'
    BY <1>1, CallsQueuedOnce
  <2> QED BY <1>1, <1>8, <2>1, <2>2, RunQueueFits, RunShutdownFits, RunReleaseFits DEF RunVm
<1>9. CASE OnStart \/ Answer \/ DispatchFails \/ CheckCourier \/ SweepQueued \/ UNCHANGED vars
           \/ TickCompose \/ TickDispatch \/ TickPoll \/ TickSucceeded \/ TickFailed
           \/ TickStaged \/ TickVerify \/ TickDone
  <2>1. UNCHANGED <<slot, quest, vm, events, copies, designated>> /\ sweep' = sweep
    BY <1>9 DEF OnStart, Answer, DispatchFails, CheckCourier, SweepQueued, vars, poolVars, beatVars, lifecycle,
                world, queue, TaskIs, TickCompose, TickDispatch, TickPoll, TickSucceeded,
                TickFailed, TickStaged, TickVerify, TickDone
  <2> QED BY <1>1, <2>1, Framed, SlotFrame
<1> QED BY <1>2, <1>3, <1>4, <1>5, <1>6, <1>7, <1>8, <1>9 DEF Next, Tick, Tasks

LEMMA LettersHold == Spec => []LInv
<1>1. Init => LInv
  <2> SUFFICES ASSUME Init PROVE LInv
    OBVIOUS
  <2>1. IInv
    BY InitHolds
  <2>2. /\ \A s \in Slots : slot[s].state = "Free" /\ ~quest[s].running /\ quest[s].ref = NoLetter
        /\ copies = {} /\ events = <<>> /\ vm = <<>> /\ tasks = <<>> /\ calls = {}
        /\ composition = NoLetter /\ designated = NoLetter /\ session = 0
        /\ stage = "NOT_RUNNING" /\ sweep = NoSweep
    BY DEF Init, PoolInit, NoQuest
  <2>3. Sent = {} /\ Moved = {}
    BY <2>2 DEF Sent, Moved, Range
  <2>4. Known \subseteq {NoLetter}
    BY <2>2, <2>3 DEF Known
  <2>5. Numbered /\ RefRuns
    BY <2>2, <2>4 DEF Numbered, RefRuns, NoLetter
  <2>6. \A s \in Slots : SlotFits(s)
    BY <2>2, <2>3 DEF SlotFits, Held, Unfilled, OnePlace, Stops, Owed
  <2>7. SubPhaseFits /\ Fresh /\ Underway /\ QueuedOnce /\ Orphans
    BY <2>2 DEF SubPhaseFits, Fresh, Unsent, Underway, QueuedOnce, Orphans, NoSweep
  <2> QED BY <2>1, <2>5, <2>6, <2>7 DEF LInv, Linked
<1>2. LInv /\ [Next]_vars => LInv'
  <2> SUFFICES ASSUME LInv, [Next]_vars PROVE LInv'
    OBVIOUS
  <2>1. /\ IInv /\ TypeOK /\ SessionHasLetter /\ SenderIsOurs /\ PoolData /\ BeatData
        /\ Numbered /\ RefRuns
    BY PoolDataIs, BeatDataIs DEF LInv, IInv
  <2>2. IInv'
    BY <2>1, StepHolds
  <2>3. Numbered' /\ RefRuns'
    BY <2>1, NumbersHold, RefsRun
  <2>4. ASSUME Uncrossed'
        PROVE  Linked'
    <3>1. Uncrossed /\ Linked
      BY <2>4, CrossedStays DEF Uncrossed, LInv
    <3>2. SubPhaseFits /\ Fresh /\ Underway /\ QueuedOnce /\ Orphans /\ \A s \in Slots : SlotFits(s)
      BY <3>1 DEF Linked
    <3>3. SubPhaseFits' /\ Fresh'
      BY <2>1, <2>4, <3>2, SubPhasesFit, LettersAreFresh
    <3>4. Underway'
      BY <2>1, <2>4, <3>1, <3>2, StaysUnderway
    <3>5. QueuedOnce' /\ Orphans'
      BY <2>1, <3>2, CallsQueuedOnce, OrphansStay
    <3>6. \A s \in Slots : SlotFits(s)'
      BY <2>1, <2>4, <3>1, SlotsFit
    <3> QED BY <3>3, <3>4, <3>5, <3>6 DEF Linked
  <2> QED BY <2>2, <2>3, <2>4 DEF LInv
<1> QED BY <1>1, <1>2, PTL DEF Spec

\* A slot the pool holds for a letter is never forgotten, whatever order
\* dispatches, fills, aborts, loads and Papyrus calls come in: until its quest
\* has the letter the slot is the running session's, and from then on the
\* letter is queued, with the courier, or just out of his hands.
THEOREM PendingIsKnown == Spec => []PendingIsTracked
<1>1. LInv => PendingIsTracked
  <2> SUFFICES ASSUME LInv, Uncrossed, NEW s \in Slots, slot[s].state = "PendingDelivery"
               PROVE  \/ stage # "NOT_RUNNING" /\ inFlight = s
                      \/ Queued(s) \/ AtCourier(s) \/ HandedOver(s)
    BY DEF PendingIsTracked, In
  <2>1. Held(s) /\ Underway
    BY DEF LInv, Linked, SlotFits
  <2>2. CASE quest[s].ref = NoLetter
    BY <2>1, <2>2 DEF Underway
  <2>3. CASE quest[s].ref = slot[s].letter
    <3>1. \/ Call("queue", s, slot[s].letter) \in Sent \/ <<s, slot[s].letter>> \in Moved
          \/ AtDoor(s, slot[s].letter) \in copies
      BY <2>1, <2>3 DEF Held
    <3> QED BY <3>1 DEF Queued, AtCourier, HandedOver, Sent, Moved, Range, AtDoor
  <2> QED BY <2>1, <2>2, <2>3 DEF Held
<1> QED BY <1>1, LettersHold, PTL

\* The courier never carries a letter the pool has given up with nobody on the
\* way to fetch it: whichever of a rollback, an eviction, the player's hands or
\* a load took the letter back, a Papyrus call or a queued sweep will reach him.
THEOREM CourierIsClean == Spec => []CourierClean
<1>1. LInv => CourierClean
  <2> SUFFICES ASSUME LInv, Uncrossed, NEW c \in copies, c.at = "courier"
               PROVE  \/ slot[c.slot] = [state |-> "PendingDelivery", letter |-> c.letter]
                      \/ \E i \in DOMAIN vm : vm[i].slot = c.slot /\ vm[i].op # "queue"
                      \/ BeingSwept(c.slot)
    BY DEF CourierClean
  <2>1. PoolData /\ Linked
    BY PoolDataIs DEF LInv, IInv
  <2>2. PICK s \in Slots, n \in Letters : c = AtDoor(s, n)
    BY <2>1 DEF PoolData, Copies, AtDoor
  <2>3. c.slot = s /\ c.letter = n
    BY <2>2 DEF AtDoor
  <2>4. Kept(s, n) \/ Call("release", s, n) \in Sent
    BY <2>1, <2>2 DEF Linked, SlotFits, Owed
  <2>5. CASE Awaiting(s, n)
    <3>1. slot[s] \in [state : States, letter : Letters \cup {NoLetter}]
      BY <2>1 DEF PoolData
    <3> QED BY <2>3, <2>5, <3>1 DEF Awaiting
  <2>6. CASE s \in sweep.orphans
    BY <2>1, <2>3, <2>6 DEF Linked, Orphans, BeingSwept
  <2>7. CASE Stopping(s) \/ Call("release", s, n) \in Sent
    <3>1. PICK op \in {"shutdown", "release"}, m \in Letters \cup {NoLetter} : Call(op, s, m) \in Sent
      BY <2>7 DEF Stopping
    <3>2. PICK i \in DOMAIN vm : vm[i] = Call(op, s, m)
      BY <3>1 DEF Sent, Range
    <3>3. vm[i].slot = s /\ vm[i].op # "queue"
      BY <3>2 DEF Call
    <3> QED BY <2>3, <3>3
  <2> QED BY <2>4, <2>5, <2>6, <2>7 DEF Kept
<1> QED BY <1>1, LettersHold, PTL
=============================================================================
