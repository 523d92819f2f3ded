-------------------------- MODULE MCNPCLetterBeat --------------------------
(***************************************************************************)
(* Small instances of NPCLetterBeat.                                       *)
(***************************************************************************)
EXTENDS NPCLetterBeat

\* What of the session is read again before it is written, in each stage:
\* states that differ in nothing else go on alike, and are one.
ReadAgain ==
  CASE stage = "COMPOSE"                -> <<sub, subTicks, request, flight>>
    [] stage = "RUNNING"                -> <<runTicks, check, flight>>
    [] stage \in {"CLEANUP", "CLEANED"} -> <<success, flight>>
    [] OTHER                            -> <<>>
View == <<stage, session, restarts, calls, queue, designated, poolVars, ReadAgain>>
=============================================================================
