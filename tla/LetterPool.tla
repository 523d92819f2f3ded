----------------------------- MODULE LetterPool -----------------------------
(***************************************************************************)
(* The pool of letter books (src/LetterPool.cpp): a fixed set of Book      *)
(* records whose text the plugin swaps, the events by which it follows a   *)
(* letter through the player's hands, and, from how that code uses them,   *)
(* the engine's references, delivery quests and Papyrus calls.             *)
(*                                                                         *)
(* A letter is known by the session that composed it.  A book record is    *)
(* its slot: a reference of an old letter and one of the new letter in the *)
(* same slot are two copies of one book, and the pool cannot tell them     *)
(* apart.                                                                  *)
(***************************************************************************)
EXTENDS Integers, SequencesExt

CONSTANTS
  Slots,      \* the slots whose book and quest resolved
  Letters,    \* the letters composed, numbered from 1
  MaxEvents   \* bound: container events waiting

ASSUME PoolConstants ==
  /\ Slots \subseteq Nat \ {0} /\ IsFiniteSet(Slots) /\ Slots # {}
  /\ Letters \subseteq Nat \ {0}
  /\ MaxEvents \in Nat

VARIABLES
  slot,     \* g_slots: the state, and the letter whose text is cached
  stamps,   \* deliveredAt / readAt, as the slot's place among the others', oldest lowest
  open,     \* g_currentOpenSlot
  events,   \* container events of pool books between the sink and the game thread
  copies,   \* external: the references of letters and where they are
  quest,    \* external: the delivery quests: running, and the letter in LetterRef
  vm,       \* external: Papyrus calls dispatched and not yet run
  \* History: what meant for an earlier letter has reached a later one.
  crossed

lifecycle == <<slot, stamps>>
world     == <<copies, quest, vm>>
poolVars  == <<lifecycle, world, open, events, crossed>>

NoLetter == 0
NoSlot   == 0
States   == {"Free", "PendingDelivery", "InInventory", "Read"}
Places   == {"courier", "player", "chest", "world"}
Moves    == {"arrive", "store", "drop"}
Crossings == {"none", "answer", "dispatch", "quest", "event", "vm", "restart", "sweep"}
Copies   == [slot : Slots, letter : Letters, at : Places]
NoQuest  == [running |-> FALSE, ref |-> NoLetter]
Call(op, s, n) == [op |-> op, slot |-> s, letter |-> n]

PoolInit ==
  /\ slot = [s \in Slots |-> [state |-> "Free", letter |-> NoLetter]]
  /\ stamps = [s \in Slots |-> 0]
  /\ open = NoSlot
  /\ events = <<>>
  /\ copies = {}
  /\ quest = [s \in Slots |-> NoQuest]
  /\ vm = <<>>
  /\ crossed = "none"

-----------------------------------------------------------------------------
(* Slots.                                                                  *)

In(st) == {s \in Slots : slot[s].state = st}
FreedDiscarded(s) ==     \* mutant: the slot is left for somebody else to free
  [slot EXCEPT ![s].state = "Discarded"]

Freed(s) == [slot EXCEPT ![s].state = "Free"]
Stamped(s) ==
  [t \in Slots |-> IF t = s THEN Cardinality(Slots)
                  ELSE IF stamps[t] > stamps[s] THEN stamps[t] - 1 ELSE stamps[t]]
Oldest(S) == CHOOSE s \in S : \A t \in S : stamps[s] <= stamps[t]

\* Allocate: the first free slot, else the oldest read letter's, else the
\* oldest unread one's; a letter still on its way is never evicted.
CanAllocate == \E s \in Slots : slot[s].state # "PendingDelivery"
Allocate ==
  IF In("Free") # {} THEN CHOOSE s \in In("Free") : \A t \in In("Free") : s <= t
  ELSE Oldest(IF In("Read") # {} THEN In("Read") ELSE In("InInventory"))

\* EvictSlot's sweep: the player's inventory and the ground.
SweptBy(s) == {c \in copies : c.slot = s /\ c.at \in {"player", "world"}}

\* Allocate's eviction: the courier is asked to release the old reference,
\* the quest is stopped at once, the sweep runs.
EvictCalls(s) ==
  IF slot[s].state # "Free" /\ quest[s].ref # NoLetter
  THEN Append(vm, Call("release", s, quest[s].ref)) ELSE vm
AfterEviction(s) == IF slot[s].state = "Free" THEN copies ELSE copies \ SweptBy(s)
EvictedQuest(s) == IF slot[s].state = "Free" THEN quest[s] ELSE NoQuest

Populated(s, n) == [slot EXCEPT ![s] = [state |-> "PendingDelivery", letter |-> n]]

\* What a call meant for letter n does to a slot that has another on its way.
Crosses(why, s, n) ==
  crossed' = IF slot[s].state = "PendingDelivery" /\ slot[s].letter # n THEN why ELSE crossed

-----------------------------------------------------------------------------
(* The book's detours and the menu sink.                                   *)

\* PrepareOpenBookMenu: the opened book's slot is stamped.
OpenBook ==
  /\ \E c \in copies : c.at = "player" /\ open' = c.slot
  /\ open = NoSlot
  /\ UNCHANGED <<lifecycle, world, events, crossed>>

\* BookMenuCloseSink, MarkRead: only a letter recorded as carried is read.
CloseBook ==
  /\ open # NoSlot
  /\ open' = NoSlot
  /\ IF slot[open].state = "InInventory"
     THEN slot' = [slot EXCEPT ![open].state = "Read"] /\ stamps' = Stamped(open)
     ELSE UNCHANGED <<slot, stamps>>
  /\ UNCHANGED <<world, events, crossed>>

-----------------------------------------------------------------------------
(* Container moves, and the sink's handlers on the game thread.            *)

MoveTo(c, place, move) ==
  /\ Len(events) < MaxEvents
  /\ copies' = (copies \ {c}) \cup {[c EXCEPT !.at = place]}
  /\ events' = Append(events, [move |-> move, slot |-> c.slot, letter |-> c.letter])
  /\ UNCHANGED <<lifecycle, quest, vm, open, crossed>>

CourierHandsOver == \E c \in copies : c.at = "courier" /\ MoveTo(c, "player", "arrive")
PlayerStores == \E c \in copies : c.at = "player" /\ MoveTo(c, "chest", "store")
PlayerDrops  == \E c \in copies : c.at = "player" /\ MoveTo(c, "world", "drop")
PlayerTakes  == \E c \in copies : c.at \in {"chest", "world"} /\ MoveTo(c, "player", "arrive")

\* MarkDelivered.
Arrived ==
  /\ events # <<>> /\ Head(events).move = "arrive"
  /\ LET s == Head(events).slot IN
       IF slot[s].state = "PendingDelivery"
       THEN /\ slot' = [slot EXCEPT ![s].state = "InInventory"]
            /\ stamps' = Stamped(s)
            /\ Crosses("event", s, Head(events).letter)
       ELSE UNCHANGED <<lifecycle, crossed>>
  /\ events' = Tail(events)
  /\ UNCHANGED <<world, open>>

\* MarkDiscardedToContainer, MarkDroppedToCell: whatever the slot holds by
\* now, its quest is sent to its end and the slot is swept and freed.
Discarded ==
  /\ events # <<>> /\ Head(events).move # "arrive"
  /\ LET e == Head(events) IN
       /\ copies' = {c \in copies \ SweptBy(e.slot) :
                       ~(e.move = "store" /\ c.slot = e.slot /\ c.at = "chest")}
       /\ vm' = Append(vm, Call("shutdown", e.slot, quest[e.slot].ref))
       /\ slot' = Freed(e.slot)
       /\ Crosses("event", e.slot, e.letter)
  /\ events' = Tail(events)
  /\ UNCHANGED <<stamps, quest, open>>

-----------------------------------------------------------------------------
(* The Papyrus side: _ne_PooledLetterQuest.psc.                            *)

\* Stage 10: whatever letter the quest holds by now goes to the courier; one
\* that holds none goes to Stage 60 and shuts itself down.
RunQueue ==
  /\ vm # <<>> /\ Head(vm).op = "queue"
  /\ LET s == Head(vm).slot
         held == quest[s].ref
     IN
       /\ copies' = IF held = NoLetter THEN copies
                    ELSE copies \cup {[slot |-> s, letter |-> held, at |-> "courier"]}
       /\ quest' = IF held = NoLetter THEN [quest EXCEPT ![s] = NoQuest] ELSE quest
       /\ crossed' = IF quest[s].running /\ held # Head(vm).letter THEN "vm" ELSE crossed
  /\ vm' = Tail(vm)
  /\ UNCHANGED <<lifecycle, open, events>>

OffCourier(s, n) == copies \ {[slot |-> s, letter |-> n, at |-> "courier"]}

\* Stages 50 and 60, by way of 200: the courier lets go of whatever letter
\* the quest holds by now, and the quest is stopped and reset.
RunShutdown ==
  /\ vm # <<>> /\ Head(vm).op = "shutdown"
  /\ LET s == Head(vm).slot IN
       /\ copies' = OffCourier(s, quest[s].ref)
       /\ quest' = [quest EXCEPT ![s] = NoQuest]
       /\ crossed' = IF quest[s].ref \notin {NoLetter, Head(vm).letter} THEN "vm" ELSE crossed
  /\ vm' = Tail(vm)
  /\ UNCHANGED <<lifecycle, open, events>>

RunRelease ==
  /\ vm # <<>> /\ Head(vm).op = "release"
  /\ copies' = OffCourier(Head(vm).slot, Head(vm).letter)
  /\ vm' = Tail(vm)
  /\ UNCHANGED <<lifecycle, quest, open, events, crossed>>

PoolStep ==
  \/ OpenBook \/ CloseBook
  \/ CourierHandsOver \/ PlayerStores \/ PlayerDrops \/ PlayerTakes
  \/ Arrived \/ Discarded
RunVm == RunQueue \/ RunShutdown \/ RunRelease

PoolTypeOK ==
  /\ slot \in [Slots -> [state : States, letter : Letters \cup {NoLetter}]]
  /\ stamps \in [Slots -> Nat]
  /\ open \in Slots \cup {NoSlot}
  /\ events \in Seq([move : Moves, slot : Slots, letter : Letters])
  /\ copies \subseteq Copies
  /\ quest \in [Slots -> [running : BOOLEAN, ref : Letters \cup {NoLetter}]]
  /\ vm \in Seq([op : {"queue", "shutdown", "release"}, slot : Slots,
                  letter : Letters \cup {NoLetter}])
  /\ crossed \in Crossings
=============================================================================
