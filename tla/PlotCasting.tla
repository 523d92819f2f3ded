---------------------------- MODULE PlotCasting ----------------------------
(***************************************************************************)
(* Who may be asked to take part in a plot, and what taking part does to   *)
(* them: the occupancy table of PlotCasting.cpp and the ladder by which a  *)
(* mastermind finds an agent.                                              *)
(*                                                                         *)
(* The social graph (ties, factions, standing) is constant while a game    *)
(* runs, so what QualifyAgent reads from it is the constant Rung: the rung *)
(* of the ladder a candidate stands on for a mastermind, 0 for none.       *)
(***************************************************************************)
EXTENDS Naturals, FiniteSets

CONSTANTS
    NPC,            \* the population
    NoOne,          \* form id 0
    Rung,           \* Rung[m][n]: the ladder rung of n for the mastermind m
    Makers,         \* those who can make what a crafting step asks for
    MastermindDays, \* fPlotMastermindCooldownDays
    ActorDays       \* fPlotActorCooldownDays

ASSUME CastingAssumption ==
    /\ NoOne \notin NPC
    /\ Rung \in [NPC -> [NPC -> 0..3]]
    /\ Makers \subseteq NPC
    /\ MastermindDays \in Nat /\ ActorDays \in Nat

Roles == {"Mastermind", "Actor"}

(* One NPC's engagement and cooldowns.  A row that says nothing (free, no  *)
(* cooldown ahead) and a missing row are the same thing to every reader,   *)
(* so the table is total and NoRow stands for both.                        *)
Occupancy == [plotId: Nat, role: Roles, mastermindAt: Nat, actorAt: Nat]

NoRow == [plotId |-> 0, role |-> "Mastermind", mastermindAt |-> 0, actorAt |-> 0]

IsEngaged(occ, n) == occ[n].plotId # 0

(* Why n may not take the role, "None" when they may. *)
Screen(occ, n, role, day, dead) ==
    IF n \in dead THEN "Dead"
    ELSE IF IsEngaged(occ, n) THEN "Occupied"
    ELSE IF day < (IF role = "Mastermind" THEN occ[n].mastermindAt ELSE occ[n].actorAt)
         THEN "OnCooldown"
    ELSE "None"

Engage(occ, n, role, id) ==
    [occ EXCEPT ![n].plotId = id, ![n].role = role]

(* The cooldown that starts is the one of the role that was held. *)
Release(occ, n, day) ==
    IF occ[n].role = "Mastermind"
    THEN [occ EXCEPT ![n].plotId = 0, ![n].mastermindAt = day + MastermindDays]
    ELSE [occ EXCEPT ![n].plotId = 0, ![n].actorAt = day + ActorDays]

(* Rows that no longer say anything are dropped. *)
PruneExpired(occ, day) ==
    [n \in NPC |-> IF IsEngaged(occ, n) \/ day < occ[n].mastermindAt \/ day < occ[n].actorAt
                   THEN occ[n]
                   ELSE NoRow]

(* Whom the weighted draw may put before the scheme call. *)
MastermindShortlist(occ, day, dead) ==
    {n \in NPC : Screen(occ, n, "Mastermind", day, dead) = "None"}

(* The rung a candidate qualifies on: never the mastermind, never the mark. *)
QualifyAgent(m, n, mark) == IF n = m \/ n = mark THEN 0 ELSE Rung[m][n]

(* Those of a rung who may be sent now.  The plot's own earlier agents may *)
(* be sent again at once; being busy elsewhere still rules them out.       *)
AvailableOn(rung, m, mark, occ, day, dead, exempt, admitted) ==
    {n \in admitted :
        /\ QualifyAgent(m, n, mark) = rung
        /\ \/ Screen(occ, n, "Actor", day, dead) = "None"
           \/ Screen(occ, n, "Actor", day, dead) = "OnCooldown" /\ n \in exempt}

(* The first rung with anybody available, with the mastermind beside them  *)
(* on the third; nobody on any rung leaves the mastermind.                 *)
EligibleAgents(m, mark, occ, day, dead, exempt, admitted) ==
    LET On(r) == AvailableOn(r, m, mark, occ, day, dead, exempt, admitted)
        self  == {m} \cap (admitted \ dead)
    IN  IF On(1) # {} THEN On(1)
        ELSE IF On(2) # {} THEN On(2)
        ELSE On(3) \cup self

(* Somebody who can carry it out is only busy today. *)
BusyToday(m, mark, occ, day, dead, admitted) ==
    \E n \in admitted :
        /\ QualifyAgent(m, n, mark) # 0
        /\ Screen(occ, n, "Actor", day, dead) \in {"Occupied", "OnCooldown"}

=============================================================================
