----------------------------- MODULE MCPlotTick -----------------------------
(***************************************************************************)
(* Small instances of PlotTick.  n1 commands n2 and knows n3; n2 knows n1; *)
(* n3 knows n2, and is the only one who can make things.                   *)
(***************************************************************************)
EXTENDS PlotTick

CONSTANTS n1, n2, n3

MCRung == [m \in NPC |-> [n \in NPC |->
    IF m = n THEN 0
    ELSE IF m = n1 /\ n = n2 THEN 1
    ELSE IF <<m, n>> \in {<<n1, n3>>, <<n2, n1>>, <<n3, n2>>, <<n2, n3>>} THEN 3
    ELSE 0]]

Fetched == <<Planned("fetch", NoOne), Planned("hand", NoOne)>>
Made == <<Planned("craft", NoOne)>>
PlainTwice == <<Planned("plain", NoOne), Planned("plain", n1)>>

MCPlans == {Fetched, Made}
MCShortPlans == {PlainTwice}

(* The simulation on its own: ticks on, and the clock stands while one is  *)
(* being run.                                                              *)
Paced == ticksEnabled /\ (OutstandingCount > 0 \/ poll # NoPoll => clock = lastFired)
=============================================================================
