---------------------------- MODULE MCGossipTick ----------------------------
(***************************************************************************)
(* Small instances of GossipTick.  m1 and m2 are two witnesses' memories   *)
(* of the happening e1; m3 is alone in remembering e2.                     *)
(***************************************************************************)
EXTENDS GossipTick, TLC

CONSTANTS m1, m2, m3, e1, e2

MCEventsOf == [m \in Memories |-> IF m = m3 THEN {e2} ELSE {e1}]
MCDayOf == [m \in Memories |-> IF m = m3 THEN 0 ELSE 1]
\* The two witnesses of e1 may change places.
Witnesses == Permutations({m1, m2})

\* No load is left that would read the save: states that differ in it alone
\* are one.
SaveIsRead == main.pc # "play" \/ main.loads < MaxLoads
View == <<timeVars, sched, poll, jobVars, tick, worldVars, main,
          IF SaveIsRead THEN saved ELSE <<>> >>
=============================================================================
