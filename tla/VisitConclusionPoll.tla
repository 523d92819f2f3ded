------------------------ MODULE VisitConclusionPoll ------------------------
(***************************************************************************)
(* The poll that asks an LLM whether a visitor's conversation is over      *)
(* (src/VisitConclusionPoll.cpp).  Its counters belong to the process, not *)
(* to a visit.  Which of the three gates trips, and when, is a choice.     *)
(***************************************************************************)
EXTENDS Integers

CONSTANTS
  Visits,       \* the visits of the run, numbered from 1
  MaxFailures,  \* iVisitConclusionPollMaxConsecutiveFailures
  MaxPolls      \* bound: a visit's polls not answered

ASSUME PollConstants ==
  Visits \subseteq Nat \ {0} /\ MaxFailures \in Nat \ {0} /\ MaxPolls \in Nat

VARIABLES
  armed,     \* g_armed
  failures,  \* g_consecutivePollFailures, up to MaxFailures
  polls      \* the LLM calls not answered, by the visit that asked

pollVars == <<armed, failures, polls>>

PollInit == armed = FALSE /\ failures = 0 /\ polls = [v \in Visits |-> 0]

Arm    == armed' = TRUE /\ failures' = 0 /\ UNCHANGED polls
Disarm == armed' = FALSE /\ UNCHANGED <<failures, polls>>

OneMore == IF failures < MaxFailures THEN failures + 1 ELSE failures

\* FirePoll, behind GateTick: asked, or refused by SkyrimNet on the spot.
FirePoll(v) ==
  /\ armed
  /\ \/ polls[v] < MaxPolls /\ polls' = [polls EXCEPT ![v] = @ + 1] /\ UNCHANGED failures
     \/ failures' = OneMore /\ UNCHANGED polls
  /\ UNCHANGED armed

\* FirePoll's callback: an answer that parses forgets the failures.
PollAnswered(v, parses) ==
  /\ polls[v] > 0
  /\ polls' = [polls EXCEPT ![v] = @ - 1]
  /\ failures' = IF parses THEN 0 ELSE OneMore
  /\ UNCHANGED armed

PollTypeOK ==
  armed \in BOOLEAN /\ failures \in 0..MaxFailures /\ polls \in [Visits -> Nat]
=============================================================================
