---------------------------- MODULE GossipClaims ----------------------------
(***************************************************************************)
(* The gossip world as a value: the live rumors, the simulation clock and  *)
(* the ledger of claims (src/GossipState.h, src/GossipClaims.cpp), with    *)
(* the harvester's qualification rule (src/GossipHarvest.cpp).             *)
(*                                                                         *)
(* A memory is what SkyrimNet wrote to one actor on one game day; the      *)
(* witnesses of one happening hold different memories of the same events.  *)
(* A rumor is known by the memory it was made from.  How it spreads from   *)
(* carrier to carrier is left out: only that it burns out is kept.         *)
(***************************************************************************)
EXTENDS Integers, FiniteSets

CONSTANTS
  Memories,           \* the memories that pass the harvester's other filters
  Events,             \* the happenings they are about
  EventsOf,           \* [Memories -> SUBSET Events], related_event_ids
  DayOf,              \* [Memories -> Nat], game_time
  NoMemory,
  HarvestWindowDays,  \* fGossipHarvestWindowDays
  ClaimExpiryDays     \* fGossipClaimExpiryDays

\* Settings::Load asks for an expiry above the window.  SkyrimNet writes the
\* memories of one happening to all its witnesses at once.
ASSUME ClaimConstants ==
  /\ EventsOf \in [Memories -> SUBSET Events]
  /\ DayOf \in [Memories -> Nat]
  /\ NoMemory \notin Memories
  /\ HarvestWindowDays \in Nat
  /\ ClaimExpiryDays \in Nat \ {0}
  /\ ClaimExpiryDays > HarvestWindowDays
  /\ \A m, n \in Memories : EventsOf[m] \cap EventsOf[n] # {} => DayOf[m] = DayOf[n]

Unclaimed == -1
FreeEvent == [expires |-> Unclaimed, by |-> NoMemory]

\* The other fields are history.  told and kept are the memories that became a
\* rumor and those whose claim a verdict kept without one, since the player
\* last set the game's clock back; era is the number of times they had done so
\* when simGameDay was scheduled.  left are the memories whose claim stands for
\* nothing of that: an evaluation threw and left it, or it is from an earlier
\* era.  session is the number of the load that staged this world.
Worlds ==
  [rumors : SUBSET Memories,
   claims : [Memories -> Nat \cup {Unclaimed}],
   eventClaims : [Events -> [expires : Nat \cup {Unclaimed}, by : Memories \cup {NoMemory}]],
   simGameDay : Nat \cup {-1},
   era : Nat,
   told : SUBSET Memories,
   kept : SUBSET Memories,
   left : SUBSET Memories,
   session : Nat]

NoClaims == [m \in Memories |-> Unclaimed]
NoEventClaims == [e \in Events |-> FreeEvent]

FreshWorld(session) ==
  [rumors |-> {}, claims |-> NoClaims, eventClaims |-> NoEventClaims,
   simGameDay |-> -1, era |-> 0, told |-> {}, kept |-> {}, left |-> {},
   session |-> session]

IsClaimed(w, m) == w.claims[m] # Unclaimed
AreEventsClaimed(w, m) == \E e \in EventsOf[m] : w.eventClaims[e] # FreeEvent

\* Mutant: the happening is not claimed with the memory.
ClaimMemoryOnly(w, m, day) ==
  [w EXCEPT !.claims = [n \in Memories |->
              IF n = m /\ ~IsClaimed(w, m) THEN day + ClaimExpiryDays ELSE @[n]],
            !.left = @ \ {m}]

\* emplace: what is already claimed keeps its expiry and its owner.
Claim(w, m, day) ==
  LET expiry == day + ClaimExpiryDays
      taken  == {e \in EventsOf[m] : w.eventClaims[e] = FreeEvent}
  IN  [w EXCEPT !.claims = [n \in Memories |-> IF n = m /\ ~IsClaimed(w, m) THEN expiry ELSE @[n]],
                !.eventClaims = [e \in Events |->
                   IF e \in taken THEN [expires |-> expiry, by |-> m] ELSE @[e]],
                !.left = @ \ {m}]

ReleaseEvents(w, m) ==
  [w EXCEPT !.eventClaims = [e \in Events |-> IF @[e].by = m THEN FreeEvent ELSE @[e]]]

Release(w, m) ==
  [ReleaseEvents(w, m) EXCEPT !.claims = [n \in Memories |-> IF n = m THEN Unclaimed ELSE @[n]]]

Tell(w, m) == [w EXCEPT !.rumors = @ \cup {m}, !.told = @ \cup {m}]
Leave(w, m) == [w EXCEPT !.left = @ \cup {m}]

\* The simulation clock is set to a scheduled day, whichever way that is.
SetClock(w, era, day) ==
  IF era = w.era
    THEN [w EXCEPT !.simGameDay = day]
    ELSE [w EXCEPT !.simGameDay = day, !.era = era, !.told = {}, !.kept = {},
                   !.left = @ \cup w.told \cup w.kept]

SweepClaims(w, day) ==
  [w EXCEPT !.claims = [m \in Memories |-> IF @[m] <= day THEN Unclaimed ELSE @[m]],
            !.eventClaims = [e \in Events |-> IF @[e].expires <= day THEN FreeEvent ELSE @[e]]]

\* What a sweep stamped for a game day may put in its pool.
Qualifies(w, m, day) ==
  /\ DayOf[m] <= day
  /\ day - DayOf[m] <= HarvestWindowDays
  /\ ~IsClaimed(w, m)
  /\ ~AreEventsClaimed(w, m)

Overlap(m, n) == EventsOf[m] \cap EventsOf[n] # {}
=============================================================================
