------------------------------ MODULE BeatSlot ------------------------------
(***************************************************************************)
(* What BeatSystem promises about its one slot, without threads: a beat    *)
(* enters only while the slot is empty, and in COMPOSE; while it stays its *)
(* stage only moves on into the scene or the clean-up; it leaves an empty  *)
(* slot behind.  The cooldown is paid by waiting with the slot empty, one  *)
(* poll at a time: it starts again from zero whenever the slot is entered, *)
(* emptied or fined, and never moves while a beat is in.  A record of the  *)
(* co-save gets in once per load, and at no other time.                    *)
(***************************************************************************)
EXTENDS Integers

CONSTANTS Beats, NoBeat, PollInterval, CooldownMax

VARIABLES occupant, stage, cooldown, loading

vars == <<occupant, stage, cooldown, loading>>

Stages == {"COMPOSE", "RUNNING", "CLEANUP"}

\* The slots a co-save record may hold.
Records ==
  [occupant : {NoBeat}, stage : {"NOT_RUNNING"}, cooldown : 0 .. CooldownMax]
  \cup [occupant : Beats, stage : Stages, cooldown : {0}]

Emptied == occupant' = NoBeat /\ stage' = "NOT_RUNNING" /\ cooldown' = 0

Init == occupant = NoBeat /\ stage = "NOT_RUNNING" /\ cooldown = 0 /\ loading = FALSE

Enter(b) ==
  /\ occupant = NoBeat
  /\ occupant' = b /\ stage' = "COMPOSE" /\ cooldown' = 0
  /\ UNCHANGED loading

Move ==
  /\ occupant # NoBeat
  /\ stage' \in {"RUNNING", "CLEANUP"}
  /\ UNCHANGED <<occupant, cooldown, loading>>

Leave == occupant # NoBeat /\ Emptied /\ UNCHANGED loading

\* A selection that came to nothing, or an abort that found nobody any more.
Fine == occupant = NoBeat /\ Emptied /\ UNCHANGED loading

Accrue ==
  /\ occupant = NoBeat
  /\ cooldown' = IF cooldown + PollInterval > CooldownMax
                 THEN CooldownMax ELSE cooldown + PollInterval
  /\ UNCHANGED <<occupant, stage, loading>>

\* A load empties the slot first, and fills it from the record once.
BeginLoad == ~loading /\ loading' = TRUE /\ Emptied

Restore ==
  /\ loading
  /\ loading' = FALSE
  /\ \E r \in Records :
       occupant' = r.occupant /\ stage' = r.stage /\ cooldown' = r.cooldown

Next ==
  \/ \E b \in Beats : Enter(b)
  \/ Move \/ Leave \/ Fine \/ Accrue
  \/ BeginLoad \/ Restore

Spec == Init /\ [][Next]_vars
=============================================================================
