-------------------------- MODULE PlotStateProofs --------------------------
(***************************************************************************)
(* What one step of the simulation does to the state it works on, for any  *)
(* population, social graph, set of plans and number of plots: the plot    *)
(* list and the occupancy table keep telling the same story.               *)
(*                                                                         *)
(* A plot is good when what is ahead of its cursor has not been begun, and *)
(* its counters are within their caps.  A state is good when its plots are *)
(* and they agree with the table.                                          *)
(***************************************************************************)
EXTENDS PlotTick, WellFoundedInduction, SequenceTheorems, TLAPS

StepIsFresh(s) == s.state = "Planned" => s.elapsed = 0

GoodPlot(p) ==
    /\ p \in Plot
    /\ p.adaptations <= MaxAdaptations /\ p.cursor <= Len(p.plan) + 1
    /\ p.status = "Active" => p.outcome = "None"
    /\ \A k \in DOMAIN p.plan : k > p.cursor => p.plan[k].state = "Planned"
    /\ \A k \in DOMAIN p.plan : StepIsFresh(p.plan[k])
    /\ InHand(p) => Current(p).elapsed < StepBudget
    /\ ~Throws /\ p.status = "Active" =>
          ~PastPlan(p) /\ Current(p).state \in {"Planned", "InProgress"}

(* Whom the history of a plot names. *)
Agents(p) == {p.history[k].actor : k \in DOMAIN p.history}

(* A plot's turn adds nobody to its history but who had its step in hand.  *)
Remembers(p, q) ==
    /\ q.mastermind = p.mastermind
    /\ \A a \in Agents(q) : a \in Agents(p) \/ (InHand(p) /\ a = Current(p).actor)

(* Nobody who masterminds an older plot has ever acted for a younger one:  *)
(* they have been engaged in their own since before it was born.           *)
SeniorsApart(st) ==
    \A id, other \in ActiveIn(st) :
        other < id => st.plots[other].mastermind \notin Agents(st.plots[id])

GoodState(st) ==
    /\ IsState(st)
    /\ \A id \in DOMAIN st.plots : GoodPlot(st.plots[id])
    /\ EngagementSound(st)
    /\ EngagementFounded(st)
    /\ SeniorsApart(st)

-----------------------------------------------------------------------------
(* What a CHOOSE of the least finds: the next active plot.                 *)

LessThan == {ss \in Nat \X Nat : ss[1] < ss[2]}

\* A set of numbers has a least one.
LEMMA LeastExists ==
  ASSUME NEW S \in SUBSET Nat, S # {}
  PROVE  \E m \in S : \A n \in S : m <= n
<1>1. IsWellFoundedOn(LessThan, Nat)
  BY NatLessThanWellFounded DEF OpToRel, LessThan
<1>2. PICK m \in S : \A n \in S : ~ (<<n, m>> \in LessThan)
  BY <1>1, WFMin
<1>3. \A n \in S : ~ (n < m)
  BY <1>2 DEF LessThan
<1> QED BY <1>3

-----------------------------------------------------------------------------
(* One plot and the table change together.                                 *)

(* What a turn of plot id, leaving it as q and the table as occ, must keep: *)
(* the rows of other plots' people; the rows of q's own; nobody else in q.  *)
TableFollows(id, q, occ) ==
    /\ occ \in [NPC -> Occupancy]
    /\ \A n \in NPC : live.occupancy[n].plotId \notin {0, id} => occ[n] = live.occupancy[n]
    /\ \A n \in NPC : live.occupancy[n].plotId \in {0, id} => occ[n].plotId \in {0, id}
    /\ ~IsTerminal(q) =>
          /\ occ[q.mastermind].plotId = id /\ occ[q.mastermind].role = "Mastermind"
          /\ \A n \in NPC : ActsIn(q, n) => occ[n].plotId = id /\ occ[n].role = "Actor"
    /\ \A n \in NPC : occ[n].plotId = id =>
          \/ ~IsTerminal(q) /\ (n = q.mastermind \/ ActsIn(q, n))
          \/ occ[n].role = "Actor" /\ q.outcome = "MastermindLost" /\ ActsIn(q, n)

LEMMA TurnKeepsState ==
    ASSUME GoodState(live), NEW id \in ActiveIn(live), NEW q, GoodPlot(q), NEW occ,
           TableFollows(id, q, occ), Remembers(live.plots[id], q)
    PROVE  GoodState([live EXCEPT !.plots[id] = q, !.occupancy = occ])
<1> DEFINE st == [live EXCEPT !.plots[id] = q, !.occupancy = occ]
<1>0. /\ id \in DOMAIN live.plots /\ id # 0 /\ id < live.nextPlotId
      /\ live.nextPlotId \in Nat
  BY DEF ActiveIn, GoodState, IsState
<1>1. /\ DOMAIN st.plots = DOMAIN live.plots
      /\ st.plots[id] = q
      /\ \A k \in DOMAIN live.plots : k # id => st.plots[k] = live.plots[k]
      /\ st.occupancy = occ /\ st.nextPlotId = live.nextPlotId
      /\ st.simGameDay = live.simGameDay /\ st.world = live.world
  BY <1>0 DEF GoodState, IsState
<1>2. st.plots = [k \in DOMAIN st.plots |-> st.plots[k]]
  BY <1>0 DEF GoodState, IsState
<1> HIDE DEF st
<1>3. \A k \in DOMAIN st.plots : GoodPlot(st.plots[k])
  BY <1>1 DEF GoodState
<1>4. IsState(st)
  <2>1. st.plots \in [DOMAIN st.plots -> Plot]
    BY <1>2, <1>3 DEF GoodPlot
  <2> QED BY <1>1, <2>1 DEF GoodState, IsState, TableFollows
<1>5. EngagementSound(st)
  <2> SUFFICES ASSUME NEW k \in ActiveIn(st)
               PROVE  /\ st.occupancy[st.plots[k].mastermind].plotId = k
                      /\ st.occupancy[st.plots[k].mastermind].role = "Mastermind"
                      /\ \A n \in NPC : ActsIn(st.plots[k], n) =>
                            st.occupancy[n].plotId = k /\ st.occupancy[n].role = "Actor"
    BY DEF EngagementSound
  <2>1. k \in DOMAIN live.plots /\ k # 0 /\ ~IsTerminal(st.plots[k])
    BY <1>1 DEF ActiveIn, GoodState, IsState
  <2>2. CASE k = id
    BY <1>1, <2>1, <2>2 DEF TableFollows
  <2>3. CASE k # id
    <3>1. st.plots[k] = live.plots[k] /\ k \in ActiveIn(live)
      BY <1>1, <2>1, <2>3 DEF ActiveIn
    <3>2. live.plots[k].mastermind \in NPC
      BY <2>1 DEF GoodState, GoodPlot, Plot
    <3> QED BY <1>1, <2>1, <2>3, <3>1, <3>2 DEF GoodState, EngagementSound, TableFollows
  <2> QED BY <2>2, <2>3
<1>6. EngagementFounded(st)
  <2> SUFFICES ASSUME NEW n \in NPC, IsEngaged(st.occupancy, n)
               PROVE  \/ LeftBehind(st, n)
                      \/ \E k \in ActiveIn(st) :
                            /\ st.occupancy[n].plotId = k
                            /\ n = st.plots[k].mastermind \/ ActsIn(st.plots[k], n)
    BY DEF EngagementFounded
  <2> DEFINE k == occ[n].plotId
  <2>1. k # 0
    BY <1>1 DEF IsEngaged
  <2>2. CASE k = id
    <3>1. CASE ~IsTerminal(q) /\ (n = q.mastermind \/ ActsIn(q, n))
      BY <1>0, <1>1, <2>2, <3>1 DEF ActiveIn
    <3>2. CASE occ[n].role = "Actor" /\ q.outcome = "MastermindLost" /\ ActsIn(q, n)
      BY <1>0, <1>1, <2>2, <3>2 DEF LeftBehind
    <3> QED BY <2>2, <3>1, <3>2 DEF TableFollows
  <2>3. CASE k # id
    <3>1. live.occupancy[n].plotId \notin {0, id} /\ occ[n] = live.occupancy[n]
      BY <2>1, <2>3 DEF TableFollows
    <3>2. CASE LeftBehind(live, n)
      BY <1>1, <2>3, <3>1, <3>2 DEF LeftBehind
    <3>3. CASE \E j \in ActiveIn(live) :
                  /\ live.occupancy[n].plotId = j
                  /\ n = live.plots[j].mastermind \/ ActsIn(live.plots[j], n)
      BY <1>1, <2>3, <3>1, <3>3 DEF ActiveIn
    <3> QED BY <3>1, <3>2, <3>3 DEF GoodState, EngagementFounded, IsEngaged
  <2> QED BY <2>2, <2>3
<1>7. SeniorsApart(st)
  <2> SUFFICES ASSUME NEW k \in ActiveIn(st), NEW other \in ActiveIn(st), other < k
               PROVE  st.plots[other].mastermind \notin Agents(st.plots[k])
    BY DEF SeniorsApart
  <2>1. k \in ActiveIn(live) /\ other \in ActiveIn(live) /\ k # other
    <3>1. k \in Nat /\ other \in Nat
      BY <1>1 DEF ActiveIn, GoodState, IsState
    <3> QED BY <1>1, <3>1 DEF ActiveIn
  <2> DEFINE m == live.plots[other].mastermind
  <2>2. st.plots[other].mastermind = m /\ m \notin Agents(live.plots[k])
    BY <1>1, <2>1 DEF GoodState, SeniorsApart, ActiveIn, Remembers
  <2>3. CASE k # id
    BY <1>1, <2>1, <2>2, <2>3 DEF ActiveIn
  <2>4. CASE k = id
    <3>1. m \in NPC /\ live.occupancy[m].plotId = other
          /\ live.occupancy[live.plots[id].mastermind].plotId = id
          /\ (ActsIn(live.plots[id], m) => live.occupancy[m].plotId = id)
      BY <2>1 DEF GoodState, EngagementSound, GoodPlot, Plot, ActiveIn
    <3>2. ~(InHand(live.plots[id]) /\ m = Current(live.plots[id]).actor)
      BY <2>1, <2>4, <3>1 DEF ActsIn
    <3> HIDE DEF m
    <3> QED BY <1>1, <2>2, <2>4, <3>2 DEF Remembers
  <2> QED BY <2>3, <2>4
<1> QED BY <1>2, <1>3, <1>4, <1>5, <1>6, <1>7 DEF GoodState, st

-----------------------------------------------------------------------------
(* What a good state says of the plot whose turn it is.                    *)

LEMMA PlotFacts ==
    ASSUME GoodState(live), NEW id \in ActiveIn(live)
    PROVE  /\ id \in Nat \ {0} /\ GoodPlot(live.plots[id])
           /\ live.plots[id].status = "Active" /\ live.plots[id].mastermind \in NPC
           /\ live.occupancy \in [NPC -> Occupancy]
           /\ live.occupancy[live.plots[id].mastermind].plotId = id
           /\ live.occupancy[live.plots[id].mastermind].role = "Mastermind"
           /\ \A n \in NPC : ActsIn(live.plots[id], n) =>
                 live.occupancy[n].plotId = id /\ live.occupancy[n].role = "Actor"
           /\ \A n \in NPC : live.occupancy[n].plotId = id =>
                 n = live.plots[id].mastermind \/ ActsIn(live.plots[id], n)
           /\ live.simGameDay \in Nat
<1>1. id \in DOMAIN live.plots /\ ~IsTerminal(live.plots[id]) /\ id \in Nat \ {0}
  BY DEF ActiveIn, GoodState, IsState
<1>2. GoodPlot(live.plots[id]) /\ live.plots[id].status = "Active"
  BY <1>1 DEF GoodState, IsTerminal
<1>3. live.plots[id].mastermind \in NPC /\ live.plots[id].outcome = "None"
  BY <1>2 DEF GoodPlot, Plot
<1>4. \A n \in NPC : live.occupancy[n].plotId = id =>
         n = live.plots[id].mastermind \/ ActsIn(live.plots[id], n)
  <2> SUFFICES ASSUME NEW n \in NPC, live.occupancy[n].plotId = id
               PROVE  n = live.plots[id].mastermind \/ ActsIn(live.plots[id], n)
    OBVIOUS
  <2>1. ~LeftBehind(live, n)
    BY <1>1, <1>3 DEF LeftBehind
  <2> QED BY <1>1, <2>1 DEF GoodState, EngagementFounded, IsEngaged
<1> QED BY <1>1, <1>2, <1>3, <1>4 DEF GoodState, EngagementSound, IsState

LEMMA ReleaseRow ==
    ASSUME NEW occ \in [NPC -> Occupancy], NEW n \in NPC, NEW day \in Nat
    PROVE  /\ Release(occ, n, day) \in [NPC -> Occupancy]
           /\ Release(occ, n, day)[n].plotId = 0
           /\ \A other \in NPC : other # n => Release(occ, n, day)[other] = occ[other]
<1>1. occ[n] \in Occupancy /\ day + MastermindDays \in Nat /\ day + ActorDays \in Nat
  BY CastingAssumption
<1>2. CASE occ[n].role = "Mastermind"
  <2>1. Release(occ, n, day) =
          [occ EXCEPT ![n] = [occ[n] EXCEPT !.plotId = 0, !.mastermindAt = day + MastermindDays]]
    BY <1>2 DEF Release
  <2> DEFINE row == [occ[n] EXCEPT !.plotId = 0, !.mastermindAt = day + MastermindDays]
  <2>2. row \in Occupancy /\ row.plotId = 0
    BY <1>1 DEF Occupancy
  <2> HIDE DEF row
  <2>3. Release(occ, n, day) = [occ EXCEPT ![n] = row]
    BY <2>1 DEF row
  <2> QED BY <2>2, <2>3
<1>3. CASE occ[n].role # "Mastermind"
  <2>1. Release(occ, n, day) =
          [occ EXCEPT ![n] = [occ[n] EXCEPT !.plotId = 0, !.actorAt = day + ActorDays]]
    BY <1>3 DEF Release
  <2> DEFINE row == [occ[n] EXCEPT !.plotId = 0, !.actorAt = day + ActorDays]
  <2>2. row \in Occupancy /\ row.plotId = 0
    BY <1>1 DEF Occupancy
  <2> HIDE DEF row
  <2>3. Release(occ, n, day) = [occ EXCEPT ![n] = row]
    BY <2>1 DEF row
  <2> QED BY <2>2, <2>3
<1> QED BY <1>2, <1>3

LEMMA EngageRow ==
    ASSUME NEW occ \in [NPC -> Occupancy], NEW n \in NPC, NEW role \in Roles, NEW id \in Nat
    PROVE  /\ Engage(occ, n, role, id) \in [NPC -> Occupancy]
           /\ Engage(occ, n, role, id)[n].plotId = id
           /\ Engage(occ, n, role, id)[n].role = role
           /\ \A other \in NPC : other # n => Engage(occ, n, role, id)[other] = occ[other]
BY DEF Engage, Occupancy, Roles

(* RetireStep's release: the agent of the step in hand is free, the        *)
(* mastermind and everybody in other plots is left as they were.           *)
LEMMA ActorReleased ==
    ASSUME GoodState(live), NEW id \in ActiveIn(live), InHand(live.plots[id])
    PROVE  LET p == live.plots[id]  occ == ReleaseActor(p)
           IN  /\ occ \in [NPC -> Occupancy]
               /\ occ[p.mastermind] = live.occupancy[p.mastermind]
               /\ \A n \in NPC : live.occupancy[n].plotId \notin {0, id} =>
                     occ[n] = live.occupancy[n]
               /\ \A n \in NPC : n # p.mastermind /\ live.occupancy[n].plotId \in {0, id} =>
                     occ[n].plotId = 0
<1> DEFINE p == live.plots[id]
           a == Current(p).actor
           occ == ReleaseActor(p)
<1>1. /\ id \in Nat \ {0} /\ p.mastermind \in NPC /\ live.simGameDay \in Nat
      /\ live.occupancy \in [NPC -> Occupancy]
      /\ \A n \in NPC : ActsIn(p, n) => live.occupancy[n].plotId = id
      /\ \A n \in NPC : live.occupancy[n].plotId = id => n = p.mastermind \/ ActsIn(p, n)
  BY PlotFacts
<1>2. \A n \in NPC : ActsIn(p, n) <=> n = a /\ n # p.mastermind
  BY DEF ActsIn
<1>3. a \in NPC \cup {NoOne}
  <2>1. p.plan \in Seq(Step) /\ p.cursor \in 1 .. Len(p.plan)
    BY PlotFacts DEF InHand, PastPlan, GoodPlot, Plot
  <2>2. p.plan[p.cursor] \in Step
    BY <2>1, ElementOfSeq
  <2> QED BY <2>2 DEF Current, Step
<1> HIDE DEF p
<1>4. CASE a \in {NoOne, p.mastermind}
  <2>1. occ = live.occupancy
    BY <1>4 DEF ReleaseActor
  <2>2. \A n \in NPC : ~ActsIn(p, n)
    BY <1>2, <1>4, CastingAssumption
  <2> QED BY <1>1, <2>1, <2>2 DEF p
<1>5. CASE a \notin {NoOne, p.mastermind}
  <2>1. a \in NPC /\ occ = Release(live.occupancy, a, live.simGameDay)
    BY <1>3, <1>5 DEF ReleaseActor
  <2>2. ActsIn(p, a)
    BY <1>2, <1>5, <2>1
  <2>3. /\ occ \in [NPC -> Occupancy] /\ occ[a].plotId = 0
        /\ \A n \in NPC : n # a => occ[n] = live.occupancy[n]
    BY <1>1, <2>1, ReleaseRow
  <2>4. /\ occ \in [NPC -> Occupancy]
        /\ occ[p.mastermind] = live.occupancy[p.mastermind]
    BY <1>1, <1>5, <2>3
  <2>5. \A n \in NPC : live.occupancy[n].plotId \notin {0, id} => occ[n] = live.occupancy[n]
    BY <1>1, <2>1, <2>2, <2>3
  <2>6. \A n \in NPC : n # p.mastermind /\ live.occupancy[n].plotId \in {0, id} =>
           occ[n].plotId = 0
    BY <1>1, <1>2, <2>3
  <2> QED BY <2>4, <2>5, <2>6 DEF p
<1> QED BY <1>4, <1>5

-----------------------------------------------------------------------------
(* The ways a turn leaves the table.                                       *)

(* The plot ends and nobody is left in it.                                 *)
LEMMA EndedFollows ==
    ASSUME GoodState(live), NEW id \in ActiveIn(live), NEW q, IsTerminal(q), NEW occ,
           \/ InHand(live.plots[id]) /\ occ = ReleaseActor(live.plots[id])
           \/ ~InHand(live.plots[id]) /\ occ = live.occupancy
    PROVE  TableFollows(id, q, ReleaseMastermind(occ, live.plots[id]))
<1> DEFINE p == live.plots[id]
           m == p.mastermind
           rest == ReleaseMastermind(occ, p)
<1>1. /\ id \in Nat \ {0} /\ m \in NPC /\ live.simGameDay \in Nat
      /\ live.occupancy \in [NPC -> Occupancy] /\ live.occupancy[m].plotId = id
      /\ \A n \in NPC : live.occupancy[n].plotId = id => n = m \/ ActsIn(p, n)
  BY PlotFacts
<1>2. /\ occ \in [NPC -> Occupancy]
      /\ \A n \in NPC : live.occupancy[n].plotId \notin {0, id} => occ[n] = live.occupancy[n]
      /\ \A n \in NPC : n # m /\ live.occupancy[n].plotId \in {0, id} => occ[n].plotId = 0
  <2>1. CASE InHand(p) /\ occ = ReleaseActor(p)
    BY <2>1, ActorReleased
  <2>2. CASE ~InHand(p) /\ occ = live.occupancy
    BY <1>1, <2>2 DEF ActsIn
  <2> QED BY <2>1, <2>2
<1>3. /\ rest \in [NPC -> Occupancy] /\ rest[m].plotId = 0
      /\ \A n \in NPC : n # m => rest[n] = occ[n]
  BY <1>1, <1>2, ReleaseRow DEF ReleaseMastermind
<1> HIDE DEF p, rest
<1>4. \A n \in NPC : live.occupancy[n].plotId \notin {0, id} => rest[n] = live.occupancy[n]
  BY <1>1, <1>2, <1>3
<1>5. \A n \in NPC : live.occupancy[n].plotId \in {0, id} => rest[n].plotId = 0
  BY <1>1, <1>2, <1>3
<1> QED BY <1>1, <1>3, <1>4, <1>5 DEF TableFollows, rest, p

(* The mastermind is lost: whoever has the step in hand stays in it.       *)
LEMMA LostFollows ==
    ASSUME GoodState(live), NEW id \in ActiveIn(live), NEW q,
           IsTerminal(q), q.outcome = "MastermindLost",
           \A n \in NPC : ActsIn(q, n) <=> ActsIn(live.plots[id], n)
    PROVE  TableFollows(id, q, ReleaseMastermind(live.occupancy, live.plots[id]))
<1> DEFINE p == live.plots[id]
           m == p.mastermind
           rest == ReleaseMastermind(live.occupancy, p)
<1>1. /\ id \in Nat \ {0} /\ m \in NPC /\ live.simGameDay \in Nat
      /\ live.occupancy \in [NPC -> Occupancy] /\ live.occupancy[m].plotId = id
      /\ \A n \in NPC : ActsIn(p, n) => live.occupancy[n].role = "Actor"
      /\ \A n \in NPC : live.occupancy[n].plotId = id => n = m \/ ActsIn(p, n)
  BY PlotFacts
<1>3. /\ rest \in [NPC -> Occupancy] /\ rest[m].plotId = 0
      /\ \A n \in NPC : n # m => rest[n] = live.occupancy[n]
  BY <1>1, ReleaseRow DEF ReleaseMastermind
<1> HIDE DEF p, rest
<1>4. \A n \in NPC : live.occupancy[n].plotId \notin {0, id} => rest[n] = live.occupancy[n]
  BY <1>1, <1>3
<1>5. \A n \in NPC : live.occupancy[n].plotId \in {0, id} => rest[n].plotId \in {0, id}
  BY <1>1, <1>3
<1>6. \A n \in NPC : rest[n].plotId = id => rest[n].role = "Actor" /\ ActsIn(q, n)
  BY <1>1, <1>3 DEF p
<1> QED BY <1>3, <1>4, <1>5, <1>6 DEF TableFollows, rest, p

(* The step in hand is over and the plot goes on.                          *)
LEMMA RetiredFollows ==
    ASSUME GoodState(live), NEW id \in ActiveIn(live), InHand(live.plots[id]), NEW q,
           ~IsTerminal(q), q.mastermind = live.plots[id].mastermind, ~InHand(q)
    PROVE  TableFollows(id, q, ReleaseActor(live.plots[id]))
<1> DEFINE p == live.plots[id]
           m == p.mastermind
           occ == ReleaseActor(p)
<1>1. /\ id \in Nat \ {0} /\ m \in NPC
      /\ live.occupancy[m].plotId = id /\ live.occupancy[m].role = "Mastermind"
  BY PlotFacts
<1>2. /\ occ \in [NPC -> Occupancy] /\ occ[m] = live.occupancy[m]
      /\ \A n \in NPC : live.occupancy[n].plotId \notin {0, id} => occ[n] = live.occupancy[n]
      /\ \A n \in NPC : n # m /\ live.occupancy[n].plotId \in {0, id} => occ[n].plotId = 0
  BY ActorReleased
<1> HIDE DEF occ
<1>3. \A n \in NPC : occ[n].plotId = id => n = m
  BY <1>1, <1>2
<1>4. \A n \in NPC : live.occupancy[n].plotId \in {0, id} => occ[n].plotId \in {0, id}
  BY <1>1, <1>2
<1> QED BY <1>1, <1>2, <1>3, <1>4 DEF TableFollows, occ, ActsIn

(* Nobody starts or stops.                                                 *)
LEMMA UntouchedFollows ==
    ASSUME GoodState(live), NEW id \in ActiveIn(live), NEW q,
           ~IsTerminal(q), q.mastermind = live.plots[id].mastermind,
           \A n \in NPC : ActsIn(q, n) <=> ActsIn(live.plots[id], n)
    PROVE  TableFollows(id, q, live.occupancy)
BY PlotFacts DEF TableFollows

(* Somebody free, or the mastermind, takes the step.                       *)
LEMMA TakenFollows ==
    ASSUME GoodState(live), NEW id \in ActiveIn(live), ~InHand(live.plots[id]), NEW q,
           ~IsTerminal(q), q.mastermind = live.plots[id].mastermind, NEW n \in NPC,
           \A other \in NPC : ActsIn(q, other) <=> other = n /\ n # q.mastermind,
           n # q.mastermind => ~IsEngaged(live.occupancy, n)
    PROVE  TableFollows(id, q, IF n = q.mastermind THEN live.occupancy
                               ELSE Engage(live.occupancy, n, "Actor", id))
<1> DEFINE p == live.plots[id]
           m == p.mastermind
           occ == IF n = m THEN live.occupancy ELSE Engage(live.occupancy, n, "Actor", id)
<1>1. /\ id \in Nat \ {0} /\ m \in NPC /\ live.occupancy \in [NPC -> Occupancy]
      /\ live.occupancy[m].plotId = id /\ live.occupancy[m].role = "Mastermind"
      /\ \A k \in NPC : live.occupancy[k].plotId = id => k = m
  BY PlotFacts DEF ActsIn
<1>2. /\ occ \in [NPC -> Occupancy]
      /\ n # m => occ[n].plotId = id /\ occ[n].role = "Actor"
      /\ \A k \in NPC : k # n \/ n = m => occ[k] = live.occupancy[k]
  BY <1>1, EngageRow DEF Roles
<1>3. n # m => live.occupancy[n].plotId = 0
  BY DEF IsEngaged
<1> HIDE DEF m, occ
<1>4. \A k \in NPC : live.occupancy[k].plotId \notin {0, id} => occ[k] = live.occupancy[k]
  BY <1>2, <1>3
<1>5. \A k \in NPC : live.occupancy[k].plotId \in {0, id} => occ[k].plotId \in {0, id}
  BY <1>1, <1>2, <1>3
<1>6. occ[m].plotId = id /\ occ[m].role = "Mastermind"
  BY <1>1, <1>2
<1>7. \A k \in NPC : occ[k].plotId = id => k = m \/ (k = n /\ n # m)
  BY <1>1, <1>2
<1> QED BY <1>2, <1>4, <1>5, <1>6, <1>7 DEF TableFollows, m, occ, IsTerminal

-----------------------------------------------------------------------------
(* The plot itself.                                                        *)

(* What the cursor stands on.                                              *)
LEMMA CurrentTyped ==
    ASSUME NEW p \in Plot, ~PastPlan(p)
    PROVE  Current(p) \in Step /\ p.cursor \in 1 .. Len(p.plan) /\ Len(p.plan) \in Nat
           /\ DOMAIN p.plan = 1 .. Len(p.plan)
<1>1. p.plan \in Seq(Step) /\ p.cursor \in Nat \ {0}
  BY DEF Plot
<1>2. Len(p.plan) \in Nat /\ DOMAIN p.plan = 1 .. Len(p.plan)
  BY <1>1, LenProperties
<1>3. p.cursor \in 1 .. Len(p.plan)
  BY <1>1, <1>2 DEF PastPlan
<1> QED BY <1>1, <1>2, <1>3, ElementOfSeq DEF Current

(* A capped history holds what it held, and the newest.                    *)
LEMMA HistoryGrows ==
    ASSUME NEW h \in Seq(Step), NEW step \in Step
    PROVE  LET longer == Append(h, step)
               kept   == IF Len(longer) > HistoryCap THEN Tail(longer) ELSE longer
           IN  \A k \in DOMAIN kept : (\E j \in DOMAIN h : kept[k] = h[j]) \/ kept[k] = step
<1> DEFINE longer == Append(h, step)
<1>1. /\ longer \in Seq(Step) /\ longer # <<>> /\ Len(longer) = Len(h) + 1
      /\ \A k \in 1 .. Len(h) : longer[k] = h[k]
      /\ longer[Len(h) + 1] = step
  BY AppendProperties
<1>2. Len(h) \in Nat /\ DOMAIN h = 1 .. Len(h)
  BY LenProperties
<1> HIDE DEF longer
<1>3. DOMAIN longer = 1 .. Len(h) + 1
  BY <1>1, LenProperties
<1>4. \A k \in DOMAIN longer : (\E j \in DOMAIN h : longer[k] = h[j]) \/ longer[k] = step
  BY <1>1, <1>2, <1>3
<1>5. /\ Len(Tail(longer)) = Len(h) /\ Tail(longer) \in Seq(Step)
      /\ \A k \in 1 .. Len(Tail(longer)) : Tail(longer)[k] = longer[k + 1]
  BY <1>1, <1>2, HeadTailProperties
<1>6. DOMAIN Tail(longer) = 1 .. Len(h)
  BY <1>5, LenProperties
<1>7. \A k \in DOMAIN Tail(longer) : Tail(longer)[k] = longer[k + 1] /\ k + 1 \in DOMAIN longer
  BY <1>2, <1>3, <1>5, <1>6
<1> QED BY <1>4, <1>7 DEF longer

(* The step at the cursor is replaced, and its result recorded.            *)
LEMMA StepRetired ==
    ASSUME NEW p \in Plot, ~PastPlan(p), NEW step \in Step
    PROVE  LET q == RetireStep(p, step)
           IN  /\ q \in Plot
               /\ q.plan \in Seq(Step) /\ Len(q.plan) = Len(p.plan)
               /\ DOMAIN q.plan = DOMAIN p.plan
               /\ q.plan[p.cursor] = step
               /\ \A k \in DOMAIN p.plan : k # p.cursor => q.plan[k] = p.plan[k]
               /\ q.mastermind = p.mastermind /\ q.cursor = p.cursor
               /\ q.adaptations = p.adaptations
               /\ q.status = p.status /\ q.outcome = p.outcome
               /\ \A a \in Agents(q) : a \in Agents(p) \/ a = step.actor
<1> DEFINE longer == Append(p.history, step)
           kept == IF Len(longer) > HistoryCap THEN Tail(longer) ELSE longer
           plan == [p.plan EXCEPT ![p.cursor] = step]
           q == RetireStep(p, step)
<1>1. p.plan \in Seq(Step) /\ p.history \in Seq(Step) /\ p.cursor \in 1 .. Len(p.plan)
  BY CurrentTyped DEF Plot
<1>2. longer \in Seq(Step) /\ longer # <<>>
  BY <1>1, AppendProperties
<1>3. kept \in Seq(Step)
  <2> HIDE DEF longer
  <2> QED BY <1>2, HeadTailProperties
<1>4. \A k \in DOMAIN kept : (\E j \in DOMAIN p.history : kept[k] = p.history[j]) \/ kept[k] = step
  BY <1>1, HistoryGrows
<1>5. /\ plan \in Seq(Step) /\ Len(plan) = Len(p.plan)
      /\ \A j \in 1 .. Len(p.plan) : plan[j] = IF j = p.cursor THEN step ELSE p.plan[j]
  BY <1>1, ExceptSeq
<1>6. q = [p EXCEPT !.plan = plan, !.history = kept]
  BY DEF RetireStep, Plot
<1>7. DOMAIN plan = DOMAIN p.plan /\ DOMAIN p.plan = 1 .. Len(p.plan)
  BY <1>1, <1>5, LenProperties
<1> HIDE DEF kept, plan, q
<1>8. /\ q.plan = plan /\ q \in Plot
      /\ q.mastermind = p.mastermind /\ q.cursor = p.cursor
      /\ q.adaptations = p.adaptations /\ q.status = p.status /\ q.outcome = p.outcome
      /\ q.history = kept
  BY <1>3, <1>5, <1>6 DEF Plot
<1>9. \A a \in Agents(q) : a \in Agents(p) \/ a = step.actor
  BY <1>8, <1>4 DEF Agents
<1> QED BY <1>1, <1>5, <1>7, <1>8, <1>9 DEF q

LEMMA ResolvedTyped ==
    ASSUME NEW p \in Plot, ~PastPlan(p), NEW state \in {"Succeeded", "Failed"},
           NEW outcome \in {"Succeeded", "FailedTimeout", "FailedCaught"}
    PROVE  /\ Resolved(p, state, outcome) \in Step /\ Resolved(p, state, outcome).state = state
           /\ Resolved(p, state, outcome).actor = Current(p).actor
<1>1. Current(p) \in Step /\ Current(p).elapsed + 1 \in Nat
  BY CurrentTyped DEF Step
<1> DEFINE c == Current(p)
<1>2. Resolved(p, state, outcome) =
        [c EXCEPT !.state = state, !.outcome = outcome, !.elapsed = c.elapsed + 1]
  BY <1>1 DEF Resolved, Step
<1> HIDE DEF c
<1>3. [c EXCEPT !.state = state, !.outcome = outcome, !.elapsed = c.elapsed + 1] \in Step
  <2>1. c \in Step /\ c.elapsed + 1 \in Nat
    BY <1>1 DEF c
  <2> QED BY <2>1 DEF Step
<1>4. Resolved(p, state, outcome).state = state /\ Resolved(p, state, outcome).actor = c.actor
  <2>1. c \in Step
    BY <1>1 DEF c
  <2> QED BY <1>2, <2>1 DEF Step
<1> QED BY <1>2, <1>3, <1>4 DEF c

(* A plot that ends as another good plot of the same plan.                 *)
LEMMA EndedGood ==
    ASSUME GoodPlot(live.plots[tick.at]), NEW p \in Plot,
           p.adaptations <= MaxAdaptations, p.cursor <= Len(p.plan) + 1,
           \A k \in DOMAIN p.plan : k > p.cursor => p.plan[k].state = "Planned",
           \A k \in DOMAIN p.plan : StepIsFresh(p.plan[k]),
           InHand(p) => Current(p).elapsed < StepBudget,
           live.simGameDay \in Nat,
           NEW status \in {"Succeeded", "Failed"}, NEW outcome \in Outcomes
    PROVE  /\ GoodPlot(Ended(p, status, outcome)) /\ IsTerminal(Ended(p, status, outcome))
           /\ Ended(p, status, outcome).outcome = outcome
           /\ \A o : Remembers(o, p) => Remembers(o, Ended(p, status, outcome))
           /\ \A n \in NPC : ActsIn(Ended(p, status, outcome), n) <=> ActsIn(p, n)
<1> DEFINE q == Ended(p, status, outcome)
<1>1. /\ q \in Plot /\ q.plan = p.plan /\ q.cursor = p.cursor /\ q.adaptations = p.adaptations
      /\ q.status = status /\ q.outcome = outcome /\ q.mastermind = p.mastermind
      /\ q.history = p.history
  BY DEF Ended, Plot
<1> HIDE DEF q
<1>2. Current(q) = Current(p) /\ (PastPlan(q) <=> PastPlan(p)) /\ (InHand(q) <=> InHand(p))
  BY <1>1 DEF Current, PastPlan, InHand
<1>3. \A o : Remembers(o, p) => Remembers(o, q)
  BY <1>1 DEF Remembers, Agents
<1> QED BY <1>1, <1>2, <1>3 DEF GoodPlot, IsTerminal, ActsIn, q

(* The step under way is over: what is ahead of it is as it was.           *)
LEMMA RetiredGood ==
    ASSUME NEW p, GoodPlot(p), InHand(p), NEW state \in {"Succeeded", "Failed"},
           NEW outcome \in {"Succeeded", "FailedTimeout", "FailedCaught"}
    PROVE  LET q == RetireStep(p, Resolved(p, state, outcome))
           IN  /\ q \in Plot /\ q.plan \in Seq(Step) /\ Len(q.plan) = Len(p.plan)
               /\ q.mastermind = p.mastermind /\ q.cursor = p.cursor
               /\ q.adaptations = p.adaptations
               /\ q.status = p.status /\ q.outcome = p.outcome
               /\ ~InHand(q) /\ q.cursor \in 1 .. Len(q.plan)
               /\ \A k \in DOMAIN q.plan : k > q.cursor => q.plan[k].state = "Planned"
               /\ \A k \in DOMAIN q.plan : StepIsFresh(q.plan[k])
               /\ Remembers(p, q)
<1> DEFINE step == Resolved(p, state, outcome)
           q == RetireStep(p, step)
<1>1. p \in Plot /\ ~PastPlan(p) /\ p.cursor \in 1 .. Len(p.plan)
  BY CurrentTyped DEF GoodPlot, InHand
<1>2. step \in Step /\ step.state = state /\ step.actor = Current(p).actor
  BY <1>1, ResolvedTyped
<1> HIDE DEF step
<1>3. /\ q \in Plot
      /\ q.plan \in Seq(Step) /\ Len(q.plan) = Len(p.plan)
      /\ DOMAIN q.plan = DOMAIN p.plan
      /\ q.plan[p.cursor] = step
      /\ \A k \in DOMAIN p.plan : k # p.cursor => q.plan[k] = p.plan[k]
      /\ q.mastermind = p.mastermind /\ q.cursor = p.cursor
      /\ q.adaptations = p.adaptations
      /\ q.status = p.status /\ q.outcome = p.outcome
      /\ \A a \in Agents(q) : a \in Agents(p) \/ a = step.actor
  BY <1>1, <1>2, StepRetired
<1> HIDE DEF q
<1>4. ~InHand(q)
  BY <1>2, <1>3 DEF InHand, Current
<1>5. \A k \in DOMAIN q.plan : k > q.cursor => q.plan[k].state = "Planned"
  BY <1>1, <1>3 DEF GoodPlot, Plot
<1>6. \A k \in DOMAIN q.plan : StepIsFresh(q.plan[k])
  <2> SUFFICES ASSUME NEW k \in DOMAIN q.plan PROVE StepIsFresh(q.plan[k])
    OBVIOUS
  <2>1. CASE k = p.cursor
    BY <1>2, <1>3, <2>1 DEF StepIsFresh
  <2>2. CASE k # p.cursor
    BY <1>3, <2>2 DEF GoodPlot
  <2> QED BY <2>1, <2>2
<1>7. Remembers(p, q)
  BY <1>2, <1>3 DEF Remembers
<1> QED BY <1>1, <1>3, <1>4, <1>5, <1>6, <1>7 DEF q, step

(* The step at the cursor is replaced by one in somebody's hands.          *)
LEMMA StepReplaced ==
    ASSUME NEW p, GoodPlot(p), ~PastPlan(p), NEW step \in Step, step.state = "InProgress",
           step.elapsed < StepBudget
    PROVE  LET q == [p EXCEPT !.plan = [p.plan EXCEPT ![p.cursor] = step]]
           IN  /\ GoodPlot(q) /\ InHand(q) /\ Current(q) = step
               /\ q.mastermind = p.mastermind /\ q.cursor = p.cursor
               /\ q.adaptations = p.adaptations
               /\ q.status = p.status /\ Len(q.plan) = Len(p.plan)
               /\ Remembers(p, q)
<1> DEFINE plan == [p.plan EXCEPT ![p.cursor] = step]
           q == [p EXCEPT !.plan = plan]
<1>1. p \in Plot /\ p.cursor \in 1 .. Len(p.plan) /\ p.plan \in Seq(Step)
      /\ DOMAIN p.plan = 1 .. Len(p.plan)
  BY CurrentTyped DEF GoodPlot, Plot
<1>2. /\ plan \in Seq(Step) /\ Len(plan) = Len(p.plan)
      /\ \A j \in 1 .. Len(p.plan) : plan[j] = IF j = p.cursor THEN step ELSE p.plan[j]
  BY <1>1, ExceptSeq
<1>3. DOMAIN plan = 1 .. Len(p.plan)
  BY <1>2, LenProperties
<1> HIDE DEF plan
<1>4. /\ q \in Plot /\ q.plan = plan /\ q.mastermind = p.mastermind /\ q.cursor = p.cursor
      /\ q.adaptations = p.adaptations /\ q.status = p.status /\ q.outcome = p.outcome
      /\ q.history = p.history
  BY <1>1, <1>2 DEF Plot
<1> HIDE DEF q
<1>5. Current(q) = step /\ ~PastPlan(q) /\ InHand(q)
  BY <1>1, <1>2, <1>4 DEF Current, PastPlan, InHand, Plot
<1>6. \A k \in DOMAIN q.plan : k > q.cursor => q.plan[k].state = "Planned"
  BY <1>1, <1>2, <1>3, <1>4 DEF GoodPlot
<1>7. \A k \in DOMAIN q.plan : StepIsFresh(q.plan[k])
  BY <1>1, <1>2, <1>3, <1>4 DEF GoodPlot, StepIsFresh
<1>8. q.adaptations <= MaxAdaptations /\ q.cursor <= Len(q.plan) + 1
  BY <1>2, <1>4 DEF GoodPlot
<1>9. Remembers(p, q)
  BY <1>4 DEF Remembers, Agents
<1> QED BY <1>2, <1>4, <1>5, <1>6, <1>7, <1>8, <1>9 DEF GoodPlot, plan, q

(* Whom DispatchStep gives a step is free, or is the mastermind.           *)
LEMMA CarriersAreFree ==
    ASSUME NEW p, NEW n \in MayCarryOut(p), p.mastermind \in NPC, p \in Plot, ~PastPlan(p)
    PROVE  n # p.mastermind => ~IsEngaged(live.occupancy, n)
<1>1. CASE Current(p).kind = "hand"
  BY <1>1 DEF MayCarryOut, HolderBusy
<1>2. CASE Current(p).kind # "hand"
  <2>1. n \in Eligible(p)
    BY <1>2 DEF MayCarryOut
  <2> QED BY <2>1 DEF Eligible, EligibleAgents, AvailableOn, Screen
<1> QED BY <1>1, <1>2

-----------------------------------------------------------------------------
(* Turns: each leaves a good plot and a table that follows it, and brings  *)
(* the plot forward, unless its one carrier is busy.                       *)

Forward(p, q) == Advanced(p, q) \/ (q = p /\ MustWait(p))

TurnForward ==
    /\ tick.at \in DOMAIN live.plots
    /\ DOMAIN live'.plots = DOMAIN live.plots
    /\ \A k \in DOMAIN live.plots : k # tick.at => live'.plots[k] = live.plots[k]
    /\ Remembers(live.plots[tick.at], live'.plots[tick.at])
    /\ ~Throws => Forward(live.plots[tick.at], live'.plots[tick.at])

LEMMA SettledGood ==
    ASSUME GoodState(live), tick.at \in ActiveIn(live), NEW q, GoodPlot(q), NEW occ,
           TableFollows(tick.at, q, occ), Settle(q, occ),
           Remembers(live.plots[tick.at], q), ~Throws => Forward(live.plots[tick.at], q)
    PROVE  GoodState(live') /\ TurnForward
<1>1. tick.at \in DOMAIN live.plots
  BY DEF ActiveIn
<1>2. live'.plots = [live.plots EXCEPT ![tick.at] = q]
  BY DEF Settle, GoodState, IsState
<1>3. /\ live'.plots[tick.at] = q /\ DOMAIN live'.plots = DOMAIN live.plots
      /\ \A k \in DOMAIN live.plots : k # tick.at => live'.plots[k] = live.plots[k]
  BY <1>1, <1>2
<1> QED BY <1>1, <1>3, TurnKeepsState DEF Settle, TurnForward

LEMMA SelfRemembers ==
    ASSUME NEW p
    PROVE  Remembers(p, p)
BY DEF Remembers

(* A plot that ends is brought to its end.                                 *)
LEMMA EndIsForward ==
    ASSUME NEW p, NEW q, IsTerminal(q)
    PROVE  Forward(p, q)
BY DEF Forward, Advanced

LEMMA EndAtOnceGood ==
    ASSUME GoodState(live), tick.at \in ActiveIn(live), NEW p, EndAtOnce(p)
    PROVE  GoodState(live') /\ TurnForward
<1> DEFINE lost == Ended(p, "Failed", "MastermindLost")
           done == Ended(p, "Succeeded", "ObjectiveAchieved")
<1>1. p = live.plots[tick.at] /\ GoodPlot(p) /\ live.simGameDay \in Nat
  BY PlotFacts DEF EndAtOnce, Advancing
<1>2. /\ GoodPlot(lost) /\ IsTerminal(lost) /\ lost.outcome = "MastermindLost"
      /\ \A n \in NPC : ActsIn(lost, n) <=> ActsIn(p, n)
      /\ GoodPlot(done) /\ IsTerminal(done)
      /\ Remembers(p, lost) /\ Remembers(p, done)
  <2>1. \A status \in {"Succeeded", "Failed"}, why \in Outcomes :
           /\ GoodPlot(Ended(p, status, why)) /\ IsTerminal(Ended(p, status, why))
           /\ Ended(p, status, why).outcome = why
           /\ \A o : Remembers(o, p) => Remembers(o, Ended(p, status, why))
           /\ \A n \in NPC : ActsIn(Ended(p, status, why), n) <=> ActsIn(p, n)
    BY <1>1, EndedGood DEF GoodPlot
  <2> QED BY <2>1, SelfRemembers DEF Outcomes
<1> HIDE DEF lost, done
<1>3. CASE p.mastermind \in dead
  <2>1. Settle(lost, ReleaseMastermind(live.occupancy, p))
    BY <1>3 DEF EndAtOnce, SettleEnded, lost
  <2>2. TableFollows(tick.at, lost, ReleaseMastermind(live.occupancy, p))
    BY <1>1, <1>2, LostFollows
  <2> QED BY <1>1, <1>2, <2>1, <2>2, SettledGood, EndIsForward
<1>4. CASE p.mastermind \notin dead
  <2>1. PastPlan(p) /\ Settle(done, ReleaseMastermind(live.occupancy, p))
    BY <1>4 DEF EndAtOnce, SettleEnded, done
  <2>2. ~InHand(p)
    BY <2>1 DEF InHand
  <2>3. TableFollows(tick.at, done, ReleaseMastermind(live.occupancy, p))
    BY <1>1, <1>2, <2>2, EndedFollows
  <2> QED BY <1>1, <1>2, <2>1, <2>3, SettledGood, EndIsForward
<1> QED BY <1>3, <1>4

LEMMA DispatchGood ==
    ASSUME GoodState(live), tick.at \in ActiveIn(live), NEW p, NEW n \in NPC, DispatchTo(p, n)
    PROVE  GoodState(live') /\ TurnForward
<1> DEFINE step == [Current(p) EXCEPT !.actor = n, !.state = "InProgress"]
           q == [p EXCEPT !.plan = [p.plan EXCEPT ![p.cursor] = step]]
           occ == IF n = p.mastermind THEN live.occupancy
                  ELSE Engage(live.occupancy, n, "Actor", tick.at)
<1>1. /\ p = live.plots[tick.at] /\ GoodPlot(p) /\ p.status = "Active" /\ p.mastermind \in NPC
      /\ ~PastPlan(p) /\ Current(p).state = "Planned" /\ n \in MayCarryOut(p)
  BY PlotFacts DEF DispatchTo, ToDispatch, Advancing
<1>2. Current(p) \in Step /\ p.cursor \in DOMAIN p.plan /\ p \in Plot
  BY <1>1, CurrentTyped DEF GoodPlot
<1>3. /\ step \in Step /\ step.state = "InProgress" /\ step.actor = n
      /\ step.elapsed = Current(p).elapsed
  BY <1>2 DEF Step
<1>4. step.elapsed < StepBudget
  <2>1. StepIsFresh(Current(p))
    BY <1>1, <1>2 DEF GoodPlot, Current
  <2>2. Current(p).elapsed = 0
    BY <1>1, <2>1 DEF StepIsFresh
  <2> HIDE DEF step
  <2> QED BY <1>3, <2>2, PlotAssumption
<1>5. Settle(q, occ)
  <2>1. [p EXCEPT !.plan[p.cursor].actor = n, !.plan[p.cursor].state = "InProgress"] = q
    BY <1>2 DEF Plot, Current
  <2> QED BY <2>1 DEF DispatchTo
<1> HIDE DEF step
<1>6. /\ GoodPlot(q) /\ InHand(q) /\ Current(q) = step /\ q.mastermind = p.mastermind
      /\ q.status = p.status /\ q.adaptations = p.adaptations /\ q.cursor = p.cursor
      /\ Remembers(p, q)
  BY <1>1, <1>3, <1>4, StepReplaced
<1> HIDE DEF q
<1>7. ~IsTerminal(q) /\ \A other \in NPC : ActsIn(q, other) <=> other = n /\ n # q.mastermind
  BY <1>1, <1>3, <1>6 DEF IsTerminal, ActsIn
<1>8. ~InHand(p) /\ (n # q.mastermind => ~IsEngaged(live.occupancy, n))
  BY <1>1, <1>2, <1>6, CarriersAreFree DEF InHand
<1>9. TableFollows(tick.at, q, occ)
  BY <1>1, <1>6, <1>7, <1>8, TakenFollows
<1>10. Forward(p, q)
  BY <1>1, <1>3, <1>6 DEF Forward, Advanced
<1> QED BY <1>1, <1>5, <1>6, <1>9, <1>10, SettledGood

LEMMA WaitGood ==
    ASSUME GoodState(live), tick.at \in ActiveIn(live), NEW p, DispatchWait(p) \/ LeaveAlone(p)
    PROVE  GoodState(live') /\ TurnForward
<1>1. Advancing(p) /\ Settle(p, live.occupancy)
  BY DEF DispatchWait, LeaveAlone, ToDispatch
<1>2. p = live.plots[tick.at] /\ GoodPlot(p) /\ ~IsTerminal(p)
  BY <1>1, PlotFacts DEF Advancing, IsTerminal
<1>3. ~Throws => Forward(p, p)
  <2>1. CASE DispatchWait(p)
    BY <2>1 DEF DispatchWait, Forward
  <2>2. CASE LeaveAlone(p)
    BY <1>2, <2>2 DEF LeaveAlone, GoodPlot, IsTerminal, Plot
  <2> QED BY <2>1, <2>2
<1> QED BY <1>1, <1>2, <1>3, SelfRemembers, UntouchedFollows, SettledGood

LEMMA ImpossibleGood ==
    ASSUME GoodState(live), tick.at \in ActiveIn(live), NEW p, DispatchImpossible(p)
    PROVE  GoodState(live') /\ TurnForward
<1> DEFINE q == Ended(p, "Failed", "Conceded")
<1>1. /\ p = live.plots[tick.at] /\ GoodPlot(p) /\ live.simGameDay \in Nat /\ ~InHand(p)
      /\ Settle(q, ReleaseMastermind(live.occupancy, p))
  BY PlotFacts DEF DispatchImpossible, ToDispatch, Advancing, InHand, SettleEnded
<1>2. GoodPlot(q) /\ IsTerminal(q) /\ Remembers(p, q)
  BY <1>1, EndedGood, SelfRemembers DEF GoodPlot, Outcomes
<1> HIDE DEF q
<1> QED BY <1>1, <1>2, EndedFollows, SettledGood, EndIsForward

LEMMA WorksGood ==
    ASSUME GoodState(live), tick.at \in ActiveIn(live), NEW p, StepWorks(p)
    PROVE  GoodState(live') /\ TurnForward
<1> DEFINE step == [Current(p) EXCEPT !.elapsed = @ + 1]
           q == [p EXCEPT !.plan = [p.plan EXCEPT ![p.cursor] = step]]
<1>1. /\ p = live.plots[tick.at] /\ GoodPlot(p) /\ p.status = "Active"
      /\ ~PastPlan(p) /\ Current(p).state = "InProgress" /\ InHand(p)
  BY PlotFacts DEF StepWorks, Working, Advancing, InHand
<1>2. Current(p) \in Step /\ p.cursor \in DOMAIN p.plan /\ p \in Plot
  BY <1>1, CurrentTyped DEF GoodPlot
<1>3. /\ step \in Step /\ step.state = "InProgress" /\ step.actor = Current(p).actor
      /\ step.elapsed < StepBudget /\ step.elapsed > Current(p).elapsed
  <2> DEFINE c == Current(p)
  <2>1. c \in Step /\ c.state = "InProgress" /\ c.elapsed + 1 < StepBudget
        /\ step = [c EXCEPT !.elapsed = @ + 1]
    BY <1>1, <1>2 DEF StepWorks
  <2> HIDE DEF c, step
  <2>2. c.elapsed \in Nat /\ step = [c EXCEPT !.elapsed = c.elapsed + 1]
    BY <2>1 DEF Step
  <2>3. /\ step \in Step /\ step.state = "InProgress" /\ step.actor = c.actor
        /\ step.elapsed = c.elapsed + 1
    BY <2>1, <2>2 DEF Step
  <2>4. c.elapsed + 1 < StepBudget /\ c.elapsed + 1 > c.elapsed
    BY <2>1, <2>2
  <2>5. c = Current(p)
    BY DEF c
  <2> QED BY <2>3, <2>4, <2>5
<1>4. Settle(q, live.occupancy)
  <2>1. [p EXCEPT !.plan[p.cursor].elapsed = @ + 1] = q
    BY <1>2 DEF Plot, Current
  <2> QED BY <2>1 DEF StepWorks
<1> HIDE DEF step
<1>5. /\ GoodPlot(q) /\ InHand(q) /\ Current(q) = step /\ q.mastermind = p.mastermind
      /\ q.status = p.status /\ q.adaptations = p.adaptations /\ q.cursor = p.cursor
      /\ Remembers(p, q)
  BY <1>1, <1>3, StepReplaced
<1> HIDE DEF q
<1>6. ~IsTerminal(q) /\ \A n \in NPC : ActsIn(q, n) <=> ActsIn(p, n)
  BY <1>1, <1>3, <1>5 DEF IsTerminal, ActsIn
<1>7. Forward(p, q)
  <2>1. Current(q).elapsed > Current(p).elapsed
    BY <1>3, <1>5
  <2> QED BY <1>1, <1>5, <2>1 DEF Forward, Advanced
<1> QED BY <1>1, <1>4, <1>5, <1>6, <1>7, UntouchedFollows, SettledGood

LEMMA SucceedsGood ==
    ASSUME GoodState(live), tick.at \in ActiveIn(live), NEW p, StepSucceeds(p)
    PROVE  GoodState(live') /\ TurnForward
<1> DEFINE r == RetireStep(p, Resolved(p, "Succeeded", "Succeeded"))
           q == [r EXCEPT !.cursor = @ + 1]
           e == Ended(q, "Succeeded", "ObjectiveAchieved")
<1>1. /\ p = live.plots[tick.at] /\ GoodPlot(p) /\ p.status = "Active" /\ InHand(p)
      /\ live.simGameDay \in Nat
  BY PlotFacts DEF StepSucceeds, Working, Advancing, InHand
<1>2. /\ r \in Plot /\ r.plan \in Seq(Step) /\ Len(r.plan) = Len(p.plan)
      /\ r.mastermind = p.mastermind /\ r.cursor = p.cursor
      /\ r.adaptations = p.adaptations /\ r.status = p.status /\ r.outcome = p.outcome
      /\ r.cursor \in 1 .. Len(r.plan)
      /\ \A k \in DOMAIN r.plan : k > r.cursor => r.plan[k].state = "Planned"
      /\ \A k \in DOMAIN r.plan : StepIsFresh(r.plan[k])
      /\ Remembers(p, r)
  BY <1>1, RetiredGood
<1>3. IF PastPlan(q) THEN Settle(e, ReleaseMastermind(ReleaseActor(p), q))
      ELSE Settle(q, ReleaseActor(p))
  BY DEF StepSucceeds, SettleEnded
<1> HIDE DEF r
<1>4. /\ q \in Plot /\ q.plan = r.plan /\ q.cursor = r.cursor + 1
      /\ q.mastermind = p.mastermind /\ q.adaptations = p.adaptations
      /\ q.status = "Active" /\ q.outcome = p.outcome /\ q.history = r.history
  BY <1>1, <1>2 DEF Plot
<1> HIDE DEF q
<1>5. Remembers(p, q)
  BY <1>2, <1>4 DEF Remembers, Agents
<1>6. /\ Len(q.plan) \in Nat /\ DOMAIN q.plan = 1 .. Len(q.plan) /\ q.cursor <= Len(q.plan) + 1
      /\ \A k \in DOMAIN q.plan : k > q.cursor => q.plan[k].state = "Planned"
      /\ \A k \in DOMAIN q.plan : StepIsFresh(q.plan[k])
  BY <1>2, <1>4, LenProperties
<1>7. ~PastPlan(q) => Current(q).state = "Planned"
  BY <1>2, <1>4, <1>6 DEF PastPlan, Current
<1>8. ~InHand(q)
  BY <1>7 DEF InHand
<1>9. q.adaptations <= MaxAdaptations
  BY <1>1, <1>4 DEF GoodPlot
<1>10. CASE PastPlan(q)
  <2>1. GoodPlot(e) /\ IsTerminal(e) /\ Remembers(p, e)
    BY <1>1, <1>4, <1>6, <1>8, <1>9, <1>5, EndedGood DEF Outcomes
  <2>2. Settle(e, ReleaseMastermind(ReleaseActor(p), p))
    BY <1>3, <1>4, <1>10 DEF ReleaseMastermind
  <2> HIDE DEF e
  <2> QED BY <1>1, <2>1, <2>2, EndedFollows, SettledGood, EndIsForward
<1>11. CASE ~PastPlan(q)
  <2>1. GoodPlot(q) /\ ~IsTerminal(q)
    BY <1>1, <1>4, <1>6, <1>7, <1>8, <1>9, <1>11 DEF GoodPlot, IsTerminal
  <2>2. Forward(p, q)
    BY <1>1, <1>2, <1>4 DEF Forward, Advanced, GoodPlot, Plot
  <2> QED BY <1>1, <1>3, <1>4, <1>8, <1>11, <1>5, <2>1, <2>2, RetiredFollows, SettledGood
<1> QED BY <1>10, <1>11

(* What failing leaves, before it is settled what comes of it.             *)
LEMMA FailedGood ==
    ASSUME GoodState(live), tick.at \in ActiveIn(live), NEW p, Working(p),
           NEW outcome \in Failures(p)
    PROVE  LET q == Failed(p, outcome)
           IN  /\ p = live.plots[tick.at] /\ GoodPlot(p) /\ InHand(p) /\ live.simGameDay \in Nat
               /\ q \in Plot /\ q.plan \in Seq(Step) /\ Len(q.plan) = Len(p.plan)
               /\ q.mastermind = p.mastermind /\ q.cursor = p.cursor
               /\ q.adaptations = p.adaptations /\ q.adaptations <= MaxAdaptations
               /\ q.status = "Active" /\ q.outcome = "None"
               /\ ~InHand(q) /\ q.cursor \in 1 .. Len(q.plan)
               /\ \A k \in DOMAIN q.plan : k > q.cursor => q.plan[k].state = "Planned"
               /\ \A k \in DOMAIN q.plan : StepIsFresh(q.plan[k])
               /\ Remembers(p, q)
<1>1. /\ p = live.plots[tick.at] /\ GoodPlot(p) /\ p.status = "Active" /\ InHand(p)
      /\ live.simGameDay \in Nat
  BY PlotFacts DEF Working, Advancing, InHand
<1>2. outcome \in {"FailedCaught", "FailedTimeout"}
  BY DEF Failures
<1>3. p.outcome = "None" /\ p.adaptations <= MaxAdaptations
  BY <1>1 DEF GoodPlot
<1> QED BY <1>1, <1>2, <1>3, RetiredGood DEF Failed

LEMMA FailureEndsGood ==
    ASSUME GoodState(live), tick.at \in ActiveIn(live), NEW p, NEW outcome,
           FinishFails(p, outcome) \/ CapHit(p, outcome)
    PROVE  GoodState(live') /\ TurnForward
<1> DEFINE r == Failed(p, outcome)
<1>1. Working(p) /\ outcome \in Failures(p)
  BY DEF FinishFails, CapHit
<1>2. PICK why \in Outcomes : SettleEnded(r, ReleaseActor(p), "Failed", why)
  BY DEF FinishFails, CapHit, Outcomes
<1> DEFINE e == Ended(r, "Failed", why)
<1>3. /\ p = live.plots[tick.at] /\ GoodPlot(p) /\ InHand(p) /\ live.simGameDay \in Nat
      /\ r \in Plot /\ r.mastermind = p.mastermind
      /\ r.adaptations <= MaxAdaptations /\ ~InHand(r)
      /\ r.plan \in Seq(Step) /\ r.cursor \in 1 .. Len(r.plan)
      /\ \A k \in DOMAIN r.plan : k > r.cursor => r.plan[k].state = "Planned"
      /\ \A k \in DOMAIN r.plan : StepIsFresh(r.plan[k])
      /\ Remembers(p, r)
  BY <1>1, FailedGood
<1>4. r.cursor <= Len(r.plan) + 1
  BY <1>3, LenProperties
<1> HIDE DEF r
<1>5. GoodPlot(e) /\ IsTerminal(e) /\ Remembers(p, e)
  BY <1>3, <1>4, EndedGood
<1>6. Settle(e, ReleaseMastermind(ReleaseActor(p), p))
  BY <1>2, <1>3 DEF SettleEnded, ReleaseMastermind
<1> HIDE DEF e
<1> QED BY <1>3, <1>5, <1>6, EndedFollows, SettledGood, EndIsForward

LEMMA ConcedeGood ==
    ASSUME GoodState(live), tick.at \in ActiveIn(live), NEW p, NEW outcome, Concede(p, outcome)
    PROVE  GoodState(live') /\ TurnForward
<1> DEFINE r == Failed(p, outcome)
           q == [r EXCEPT !.adaptations = @ + 1]
           e == Ended(q, "Failed", "Conceded")
<1>1. Working(p) /\ outcome \in Failures(p) /\ p.adaptations < MaxAdaptations
  BY DEF Concede, Adapting
<1>2. SettleEnded(q, ReleaseActor(p), "Failed", "Conceded")
  BY DEF Concede
<1>3. /\ p = live.plots[tick.at] /\ GoodPlot(p) /\ InHand(p) /\ live.simGameDay \in Nat
      /\ r \in Plot /\ r.mastermind = p.mastermind
      /\ r.adaptations = p.adaptations /\ ~InHand(r)
      /\ r.plan \in Seq(Step) /\ r.cursor \in 1 .. Len(r.plan)
      /\ \A k \in DOMAIN r.plan : k > r.cursor => r.plan[k].state = "Planned"
      /\ \A k \in DOMAIN r.plan : StepIsFresh(r.plan[k])
      /\ Remembers(p, r)
  BY <1>1, FailedGood
<1> HIDE DEF r
<1>4. /\ q \in Plot /\ q.plan = r.plan /\ q.cursor = r.cursor /\ q.mastermind = p.mastermind
      /\ q.adaptations = r.adaptations + 1 /\ q.history = r.history
  BY <1>3 DEF Plot
<1> HIDE DEF q
<1>5. q.adaptations <= MaxAdaptations
  <2>1. p.adaptations \in Nat /\ p.adaptations < MaxAdaptations /\ MaxAdaptations \in Nat
    BY <1>1, <1>3, PlotAssumption DEF GoodPlot, Plot
  <2>2. q.adaptations = p.adaptations + 1
    BY <1>3, <1>4
  <2> QED BY <2>1, <2>2
<1>6. q.cursor <= Len(q.plan) + 1
  BY <1>3, <1>4, LenProperties
<1>7. ~InHand(q)
  BY <1>3, <1>4 DEF InHand, Current, PastPlan
<1>8. Remembers(p, q)
  <2>1. Agents(q) = Agents(r) /\ q.mastermind = r.mastermind
    BY <1>3, <1>4 DEF Agents
  <2>2. Remembers(p, r)
    BY <1>3
  <2> QED BY <2>1, <2>2 DEF Remembers
<1>9. GoodPlot(e) /\ IsTerminal(e) /\ Remembers(p, e)
  BY <1>3, <1>4, <1>5, <1>6, <1>7, <1>8, EndedGood DEF Outcomes
<1>10. Settle(e, ReleaseMastermind(ReleaseActor(p), p))
  BY <1>2, <1>4 DEF SettleEnded, ReleaseMastermind
<1> HIDE DEF e
<1> QED BY <1>3, <1>9, <1>10, EndedFollows, SettledGood, EndIsForward

(* The plan is cut before the failed step and goes on another way.         *)
LEMMA SubstituteGood ==
    ASSUME GoodState(live), tick.at \in ActiveIn(live), NEW p, NEW outcome, NEW tail \in Plans,
           Substitute(p, outcome, tail)
    PROVE  GoodState(live') /\ TurnForward
<1> DEFINE r == Failed(p, outcome)
           head == SubSeq(p.plan, 1, p.cursor - 1)
           plan == head \o tail
           q == [r EXCEPT !.adaptations = @ + 1, !.plan = plan]
<1>1. Working(p) /\ outcome \in Failures(p) /\ p.adaptations < MaxAdaptations
  BY DEF Substitute, Adapting
<1>2. Settle(q, ReleaseActor(p))
  BY DEF Substitute
<1>3. /\ p = live.plots[tick.at] /\ GoodPlot(p) /\ InHand(p)
      /\ r \in Plot /\ r.mastermind = p.mastermind /\ r.cursor = p.cursor
      /\ r.adaptations = p.adaptations /\ r.status = "Active" /\ r.outcome = "None"
      /\ Remembers(p, r)
  BY <1>1, FailedGood
<1>4. /\ p \in Plot /\ p.plan \in Seq(Step) /\ p.cursor \in 1 .. Len(p.plan)
      /\ Len(p.plan) \in Nat /\ DOMAIN p.plan = 1 .. Len(p.plan)
  BY <1>3, CurrentTyped DEF GoodPlot, InHand, Plot
<1> DEFINE Fresh == {Planned(kind, mark) : kind \in Kinds, mark \in NPC \cup {NoOne}}
<1>5. Fresh \subseteq Step /\ \A s \in Fresh : s.state = "Planned" /\ s.elapsed = 0
  BY PlotAssumption DEF Planned, Step
<1>6. tail \in Seq(Fresh) /\ tail # <<>>
  BY PlansAssumption
<1> HIDE DEF Fresh
<1>7. /\ tail \in Seq(Step) /\ Len(tail) \in Nat \ {0}
      /\ \A k \in 1 .. Len(tail) : tail[k].state = "Planned" /\ tail[k].elapsed = 0
  <2>1. tail \in Seq(Step)
    BY <1>5, <1>6, SeqMonotonic
  <2>2. Len(tail) \in Nat \ {0}
    BY <1>6, EmptySeq
  <2>3. \A k \in 1 .. Len(tail) : tail[k] \in Fresh
    BY <1>6, ElementOfSeq
  <2> QED BY <1>5, <2>1, <2>2, <2>3
<1>8. /\ head \in Seq(Step) /\ Len(head) = p.cursor - 1
      /\ \A k \in 1 .. p.cursor - 1 : head[k] = p.plan[k]
  <2>1. \A k \in 1 .. p.cursor - 1 : p.plan[k] \in Step
    BY <1>4, ElementOfSeq
  <2> QED BY <1>4, <2>1, SubSeqProperties
<1> HIDE DEF head
<1>9. /\ plan \in Seq(Step) /\ Len(plan) = p.cursor - 1 + Len(tail)
      /\ \A k \in 1 .. Len(plan) :
            plan[k] = IF k <= p.cursor - 1 THEN p.plan[k] ELSE tail[k - (p.cursor - 1)]
  BY <1>7, <1>8, ConcatProperties
<1>10. DOMAIN plan = 1 .. Len(plan)
  BY <1>9, LenProperties
<1> HIDE DEF r, plan
<1>11. /\ q \in Plot /\ q.plan = plan /\ q.cursor = p.cursor /\ q.mastermind = p.mastermind
       /\ q.adaptations = p.adaptations + 1 /\ q.status = "Active" /\ q.outcome = "None"
       /\ q.history = r.history
  <2>1. r \in Plot /\ plan \in Seq(Step) /\ r.adaptations + 1 \in Nat
    BY <1>3, <1>9 DEF Plot
  <2>2. q = [r EXCEPT !.adaptations = r.adaptations + 1, !.plan = plan]
    BY <2>1 DEF Plot
  <2> HIDE DEF q
  <2>3. q \in Plot
    BY <2>1, <2>2 DEF Plot
  <2>4. /\ q.plan = plan /\ q.cursor = r.cursor /\ q.mastermind = r.mastermind
        /\ q.adaptations = r.adaptations + 1 /\ q.status = r.status /\ q.outcome = r.outcome
        /\ q.history = r.history
    BY <2>1, <2>2 DEF Plot
  <2> QED BY <1>3, <2>3, <2>4
<1> HIDE DEF q
<1>12. /\ q.adaptations <= MaxAdaptations
  BY <1>1, <1>4, <1>11, PlotAssumption DEF Plot
<1>13. q.cursor \in 1 .. Len(q.plan) /\ Len(q.plan) \in Nat
  BY <1>4, <1>7, <1>9, <1>11
<1>14. \A k \in DOMAIN q.plan : k >= q.cursor => q.plan[k].state = "Planned"
  <2> SUFFICES ASSUME NEW k \in 1 .. Len(plan), k >= p.cursor
               PROVE  plan[k].state = "Planned"
    BY <1>10, <1>11
  <2>1. plan[k] = tail[k - (p.cursor - 1)] /\ k - (p.cursor - 1) \in 1 .. Len(tail)
    BY <1>4, <1>7, <1>9
  <2> QED BY <1>7, <2>1
<1>15. \A k \in DOMAIN q.plan : StepIsFresh(q.plan[k])
  <2> SUFFICES ASSUME NEW k \in DOMAIN q.plan PROVE StepIsFresh(q.plan[k])
    OBVIOUS
  <2>1. CASE k <= p.cursor - 1
    <3>1. q.plan[k] = p.plan[k] /\ k \in DOMAIN p.plan
      BY <1>4, <1>9, <1>10, <1>11, <2>1
    <3> QED BY <1>3, <3>1 DEF GoodPlot
  <2>2. CASE ~(k <= p.cursor - 1)
    <3>1. q.plan[k] = tail[k - (p.cursor - 1)] /\ k - (p.cursor - 1) \in 1 .. Len(tail)
      BY <1>4, <1>7, <1>9, <1>10, <1>11, <2>2
    <3> QED BY <1>7, <3>1 DEF StepIsFresh
  <2> QED BY <2>1, <2>2
<1>16. ~InHand(q) /\ ~PastPlan(q) /\ Current(q).state = "Planned"
  BY <1>10, <1>11, <1>13, <1>14 DEF InHand, PastPlan, Current
<1>17. GoodPlot(q) /\ ~IsTerminal(q)
  BY <1>10, <1>11, <1>12, <1>13, <1>14, <1>15, <1>16 DEF GoodPlot, IsTerminal
<1>18. Forward(p, q)
  BY <1>4, <1>11 DEF Forward, Advanced, Plot
<1>19. Remembers(p, q)
  BY <1>3, <1>11 DEF Remembers, Agents
<1> QED BY <1>2, <1>3, <1>11, <1>16, <1>17, <1>18, <1>19, RetiredFollows, SettledGood

LEMMA AdaptThrowsGood ==
    ASSUME GoodState(live), tick.at \in ActiveIn(live), NEW p, NEW outcome,
           AdaptThrows(p, outcome)
    PROVE  GoodState(live') /\ TurnForward
<1> DEFINE r == Failed(p, outcome)
           q == [r EXCEPT !.adaptations = @ + 1]
<1>1. Working(p) /\ outcome \in Failures(p) /\ p.adaptations < MaxAdaptations /\ Throws
  BY DEF AdaptThrows, Adapting
<1>2. live' = [live EXCEPT !.plots[tick.at] = q, !.occupancy = ReleaseActor(p)]
  BY DEF AdaptThrows
<1>3. /\ p = live.plots[tick.at] /\ GoodPlot(p) /\ InHand(p)
      /\ r \in Plot /\ r.mastermind = p.mastermind
      /\ r.adaptations = p.adaptations /\ ~InHand(r) /\ r.status = "Active" /\ r.outcome = "None"
      /\ r.plan \in Seq(Step) /\ r.cursor \in 1 .. Len(r.plan)
      /\ \A k \in DOMAIN r.plan : k > r.cursor => r.plan[k].state = "Planned"
      /\ \A k \in DOMAIN r.plan : StepIsFresh(r.plan[k])
      /\ Remembers(p, r)
  BY <1>1, FailedGood
<1> HIDE DEF r
<1>4. /\ q \in Plot /\ q.plan = r.plan /\ q.cursor = r.cursor /\ q.mastermind = p.mastermind
      /\ q.adaptations = r.adaptations + 1 /\ q.status = "Active" /\ q.outcome = "None"
      /\ q.history = r.history
  BY <1>3 DEF Plot
<1> HIDE DEF q
<1>5. q.adaptations <= MaxAdaptations
  <2>1. p.adaptations \in Nat /\ p.adaptations < MaxAdaptations /\ MaxAdaptations \in Nat
    BY <1>1, <1>3, PlotAssumption DEF GoodPlot, Plot
  <2>2. q.adaptations = p.adaptations + 1
    BY <1>3, <1>4
  <2> QED BY <2>1, <2>2
<1>6. q.cursor <= Len(q.plan) + 1
  BY <1>3, <1>4, LenProperties
<1>7. ~InHand(q)
  BY <1>3, <1>4 DEF InHand, Current, PastPlan
<1>8. GoodPlot(q) /\ ~IsTerminal(q)
  BY <1>1, <1>3, <1>4, <1>5, <1>6, <1>7 DEF GoodPlot, IsTerminal
<1>9. Remembers(p, q)
  BY <1>3, <1>4 DEF Remembers, Agents
<1>10. tick.at \in DOMAIN live.plots
  BY DEF ActiveIn
<1>11. live'.plots = [live.plots EXCEPT ![tick.at] = q]
  BY <1>2 DEF GoodState, IsState
<1>12. /\ live'.plots[tick.at] = q /\ DOMAIN live'.plots = DOMAIN live.plots
       /\ \A k \in DOMAIN live.plots : k # tick.at => live'.plots[k] = live.plots[k]
  BY <1>10, <1>11
<1>13. TurnForward
  BY <1>1, <1>3, <1>9, <1>10, <1>12 DEF TurnForward
<1> QED BY <1>2, <1>3, <1>4, <1>7, <1>8, <1>9, <1>13, RetiredFollows, TurnKeepsState

LEMMA AdvanceGood ==
    ASSUME GoodState(live), tick.at \in ActiveIn(live), AdvancePlot
    PROVE  GoodState(live') /\ TurnForward
BY EndAtOnceGood, DispatchGood, WaitGood, ImpossibleGood, WorksGood, SucceedsGood,
   FailureEndsGood, ConcedeGood, SubstituteGood, AdaptThrowsGood DEF AdvancePlot

-----------------------------------------------------------------------------
(* What else makes a state: a session's start, a tick's, a birth, the      *)
(* reaper and a load.                                                      *)

LEMMA EmptyGood ==
    ASSUME NEW w \in Nat
    PROVE  GoodState(EmptyState(w)) /\ EmptyState(w).world = w
<1> DEFINE st == EmptyState(w)
<1>1. /\ st.plots = <<>> /\ st.nextPlotId = 1 /\ st.simGameDay = 0 /\ st.world = w
      /\ st.occupancy = [n \in NPC |-> NoRow]
  BY DEF EmptyState
<1>2. DOMAIN st.plots = {} /\ st.plots \in [DOMAIN st.plots -> Plot]
  BY <1>1
<1>3. st.occupancy \in [NPC -> Occupancy] /\ \A n \in NPC : st.occupancy[n].plotId = 0
  BY <1>1 DEF NoRow, Occupancy, Roles
<1> HIDE DEF st
<1> QED BY <1>1, <1>2, <1>3 DEF GoodState, IsState, EngagementSound, EngagementFounded,
                                 SeniorsApart, ActiveIn, IsEngaged, st

LEMMA BeginGood ==
    ASSUME GoodState(live), NEW day \in Nat
    PROVE  GoodState([live EXCEPT !.simGameDay = day])
<1> DEFINE st == [live EXCEPT !.simGameDay = day]
<1>1. /\ st.plots = live.plots /\ st.occupancy = live.occupancy /\ st.world = live.world
      /\ st.nextPlotId = live.nextPlotId
  BY DEF EmptyState
<1>2. st.simGameDay \in Nat
  BY DEF GoodState, IsState
<1> HIDE DEF st
<1> QED BY <1>1, <1>2 DEF GoodState, IsState, EngagementSound, EngagementFounded, LeftBehind,
                          SeniorsApart, ActiveIn, st

LEMMA BirthGood ==
    ASSUME GoodState(live), NEW m \in NPC, NEW plan \in Plans, BirthPlot(m, plan)
    PROVE  GoodState(live')
<1> DEFINE id == live.nextPlotId
           plot == [mastermind |-> m, plan |-> plan, cursor |-> 1, history |-> <<>>,
                    adaptations |-> 0, status |-> "Active", outcome |-> "None", endedOn |-> 0]
           occ == Engage(live.occupancy, m, "Mastermind", id)
           plots == [k \in DOMAIN live.plots \cup {id} |->
                        IF k = id THEN plot ELSE live.plots[k]]
           st == [live EXCEPT !.nextPlotId = id + 1, !.occupancy = occ, !.plots = plots]
<1>1. live' = st /\ ~IsEngaged(live.occupancy, m)
  BY DEF BirthPlot, MastermindShortlist, Screen
<1>2. /\ id \in Nat \ {0} /\ DOMAIN live.plots \subseteq 1 .. (id - 1)
      /\ live.occupancy \in [NPC -> Occupancy] /\ live.world \in Nat /\ live.simGameDay \in Nat
  BY DEF GoodState, IsState
<1> DEFINE Fresh == {Planned(kind, mark) : kind \in Kinds, mark \in NPC \cup {NoOne}}
<1>3. Fresh \subseteq Step /\ \A s \in Fresh : s.state = "Planned" /\ s.elapsed = 0
  BY PlotAssumption DEF Planned, Step
<1>4. plan \in Seq(Fresh) /\ plan # <<>>
  BY PlansAssumption
<1> HIDE DEF Fresh
<1>5. /\ plan \in Seq(Step) /\ Len(plan) \in Nat \ {0} /\ DOMAIN plan = 1 .. Len(plan)
      /\ \A k \in 1 .. Len(plan) : plan[k].state = "Planned" /\ plan[k].elapsed = 0
  BY <1>3, <1>4, SeqMonotonic, EmptySeq, ElementOfSeq, LenProperties
<1>6. /\ plot \in Plot /\ plot.plan = plan /\ plot.cursor = 1 /\ plot.mastermind = m
      /\ plot.adaptations = 0 /\ plot.status = "Active" /\ plot.outcome = "None"
      /\ Agents(plot) = {}
  BY <1>5, EmptySeq DEF Plot, Outcomes, Agents
<1> HIDE DEF plot
<1>7. ~InHand(plot) /\ ~PastPlan(plot) /\ Current(plot).state = "Planned"
  BY <1>5, <1>6 DEF InHand, PastPlan, Current
<1>8. GoodPlot(plot) /\ ~IsTerminal(plot)
  BY <1>5, <1>6, <1>7, PlotAssumption DEF GoodPlot, StepIsFresh, IsTerminal
<1>9. /\ DOMAIN plots = DOMAIN live.plots \cup {id} /\ plots[id] = plot
      /\ \A k \in DOMAIN live.plots : k # id /\ plots[k] = live.plots[k]
  BY <1>2
<1>10. plots = [k \in DOMAIN plots |-> plots[k]]
  BY <1>9
<1>11. /\ occ \in [NPC -> Occupancy] /\ occ[m].plotId = id /\ occ[m].role = "Mastermind"
       /\ \A n \in NPC : n # m => occ[n] = live.occupancy[n]
  BY <1>2, EngageRow DEF Roles
<1> HIDE DEF plots, occ
<1>12. /\ st.plots = plots /\ st.occupancy = occ /\ st.nextPlotId = id + 1
       /\ st.simGameDay = live.simGameDay /\ st.world = live.world
  BY DEF GoodState, IsState
<1> HIDE DEF st
<1>13. \A k \in DOMAIN plots : GoodPlot(plots[k])
  BY <1>8, <1>9 DEF GoodState
<1>14. IsState(st)
  <2>1. plots \in [DOMAIN plots -> Plot]
    BY <1>10, <1>13 DEF GoodPlot
  <2> QED BY <1>2, <1>9, <1>11, <1>12, <2>1 DEF IsState
<1>15. ActiveIn(st) = ActiveIn(live) \cup {id}
  BY <1>8, <1>9, <1>12 DEF ActiveIn
<1>16. live.occupancy[m].plotId = 0
  BY <1>1 DEF IsEngaged
<1>17. EngagementSound(st)
  <2> SUFFICES ASSUME NEW k \in ActiveIn(st)
               PROVE  /\ occ[plots[k].mastermind].plotId = k
                      /\ occ[plots[k].mastermind].role = "Mastermind"
                      /\ \A n \in NPC : ActsIn(plots[k], n) =>
                            occ[n].plotId = k /\ occ[n].role = "Actor"
    BY <1>12 DEF EngagementSound
  <2>1. CASE k = id
    BY <1>6, <1>7, <1>9, <1>11, <2>1 DEF ActsIn
  <2>2. CASE k \in ActiveIn(live)
    <3>1. k \in DOMAIN live.plots /\ plots[k] = live.plots[k] /\ k # 0
      BY <1>2, <1>9, <2>2 DEF ActiveIn
    <3>2. live.plots[k].mastermind \in NPC
      BY <3>1 DEF GoodState, GoodPlot, Plot
    <3> QED BY <1>11, <1>16, <2>2, <3>1, <3>2 DEF GoodState, EngagementSound
  <2> QED BY <1>15, <2>1, <2>2
<1>18. EngagementFounded(st)
  <2> SUFFICES ASSUME NEW n \in NPC, occ[n].plotId # 0
               PROVE  \/ LeftBehind(st, n)
                      \/ \E k \in ActiveIn(st) :
                            /\ occ[n].plotId = k
                            /\ n = plots[k].mastermind \/ ActsIn(plots[k], n)
    BY <1>12 DEF EngagementFounded, IsEngaged
  <2>1. CASE n = m
    BY <1>6, <1>9, <1>11, <1>15, <2>1
  <2>2. CASE n # m
    <3>1. occ[n] = live.occupancy[n] /\ IsEngaged(live.occupancy, n)
      BY <1>11, <2>2 DEF IsEngaged
    <3>2. CASE LeftBehind(live, n)
      BY <1>2, <1>9, <1>12, <3>1, <3>2 DEF LeftBehind, Occupancy
    <3>3. CASE \E k \in ActiveIn(live) :
                  /\ live.occupancy[n].plotId = k
                  /\ n = live.plots[k].mastermind \/ ActsIn(live.plots[k], n)
      BY <1>9, <1>15, <3>1, <3>3 DEF ActiveIn
    <3> QED BY <3>1, <3>2, <3>3 DEF GoodState, EngagementFounded
  <2> QED BY <2>1, <2>2
<1>19. SeniorsApart(st)
  <2> SUFFICES ASSUME NEW k \in ActiveIn(st), NEW other \in ActiveIn(st), other < k
               PROVE  plots[other].mastermind \notin Agents(plots[k])
    BY <1>12 DEF SeniorsApart
  <2>1. CASE k = id
    BY <1>6, <1>9, <2>1
  <2>2. CASE k # id
    <3>1. k \in ActiveIn(live) /\ k \in 1 .. (id - 1)
      BY <1>2, <1>15, <2>2 DEF ActiveIn
    <3>2. other # id
      BY <1>2, <3>1
    <3>3. other \in ActiveIn(live)
      BY <1>15, <3>2
    <3> QED BY <1>9, <3>1, <3>3 DEF ActiveIn, GoodState, SeniorsApart
  <2> QED BY <2>1, <2>2
<1> QED BY <1>1, <1>9, <1>12, <1>13, <1>14, <1>17, <1>18, <1>19 DEF GoodState

(* Some plots are dropped, none of them live or every one of their people  *)
(* freed; rows that say nothing may go.                                    *)
LEMMA DroppedGood ==
    ASSUME NEW st, GoodState(st), NEW t, NEW stay \in SUBSET DOMAIN st.plots,
           t.plots = Restrict(st.plots, stay),
           t.nextPlotId = st.nextPlotId, t.simGameDay = st.simGameDay, t.world \in Nat,
           t.occupancy \in [NPC -> Occupancy],
           \A n \in NPC : st.occupancy[n].plotId \in stay => t.occupancy[n] = st.occupancy[n],
           \A n \in NPC : t.occupancy[n].plotId # 0 => t.occupancy[n] = st.occupancy[n],
           \A n \in NPC : t.occupancy[n].plotId \notin stay \cup {0} =>
               t.occupancy[n].plotId \notin ActiveIn(st)
    PROVE  GoodState(t)
<1>1. /\ DOMAIN t.plots = stay /\ \A k \in stay : t.plots[k] = st.plots[k]
      /\ t.plots \in [stay -> Plot]
  BY DEF Restrict, GoodState, IsState
<1>2. stay \subseteq 1 .. (st.nextPlotId - 1) /\ st.nextPlotId \in Nat \ {0}
  BY DEF GoodState, IsState
<1>3. IsState(t)
  BY <1>1, <1>2 DEF GoodState, IsState
<1>4. ActiveIn(t) = ActiveIn(st) \cap stay
  BY <1>1 DEF ActiveIn
<1>5. EngagementSound(t)
  <2> SUFFICES ASSUME NEW k \in ActiveIn(t)
               PROVE  /\ t.occupancy[t.plots[k].mastermind].plotId = k
                      /\ t.occupancy[t.plots[k].mastermind].role = "Mastermind"
                      /\ \A n \in NPC : ActsIn(t.plots[k], n) =>
                            t.occupancy[n].plotId = k /\ t.occupancy[n].role = "Actor"
    BY DEF EngagementSound
  <2>1. k \in stay /\ k \in ActiveIn(st) /\ t.plots[k] = st.plots[k]
    BY <1>1, <1>4
  <2>2. st.plots[k].mastermind \in NPC
    BY <2>1 DEF GoodState, GoodPlot, Plot
  <2>3. /\ st.occupancy[st.plots[k].mastermind].plotId = k
        /\ st.occupancy[st.plots[k].mastermind].role = "Mastermind"
        /\ \A n \in NPC : ActsIn(st.plots[k], n) =>
              st.occupancy[n].plotId = k /\ st.occupancy[n].role = "Actor"
    BY <2>1 DEF GoodState, EngagementSound
  <2> QED BY <2>1, <2>2, <2>3
<1>6. EngagementFounded(t)
  <2> SUFFICES ASSUME NEW n \in NPC, t.occupancy[n].plotId # 0
               PROVE  \/ LeftBehind(t, n)
                      \/ \E k \in ActiveIn(t) :
                            /\ t.occupancy[n].plotId = k
                            /\ n = t.plots[k].mastermind \/ ActsIn(t.plots[k], n)
    BY DEF EngagementFounded, IsEngaged
  <2>1. t.occupancy[n] = st.occupancy[n]
    OBVIOUS
  <2>2. CASE LeftBehind(st, n)
    BY <1>1, <2>1, <2>2 DEF LeftBehind
  <2>3. CASE \E k \in ActiveIn(st) :
                /\ st.occupancy[n].plotId = k
                /\ n = st.plots[k].mastermind \/ ActsIn(st.plots[k], n)
    <3>1. PICK k \in ActiveIn(st) :
                /\ st.occupancy[n].plotId = k
                /\ n = st.plots[k].mastermind \/ ActsIn(st.plots[k], n)
      BY <2>3
    <3>2. k \in stay
      BY <2>1, <3>1
    <3> QED BY <1>1, <1>4, <2>1, <3>1, <3>2
  <2> QED BY <2>1, <2>2, <2>3 DEF GoodState, EngagementFounded, IsEngaged
<1>7. SeniorsApart(t)
  BY <1>1, <1>4 DEF GoodState, SeniorsApart
<1> QED BY <1>1, <1>3, <1>5, <1>6, <1>7 DEF GoodState

LEMMA ReapGood ==
    ASSUME GoodState(live), Reap
    PROVE  GoodState(live') /\ live'.world = live.world
<1> DEFINE stay == {id \in DOMAIN live.plots :
                      ~(/\ IsTerminal(live.plots[id])
                        /\ live.simGameDay - live.plots[id].endedOn > RetentionDays)}
           occ == PruneExpired(live.occupancy, live.simGameDay)
           st == [live EXCEPT !.plots = Restrict(live.plots, stay), !.occupancy = occ]
<1>1. live' = st
  BY DEF Reap
<1>2. stay \in SUBSET DOMAIN live.plots /\ ActiveIn(live) \subseteq stay
  BY DEF ActiveIn
<1>3. live.occupancy \in [NPC -> Occupancy]
  BY DEF GoodState, IsState
<1>4. /\ occ \in [NPC -> Occupancy]
      /\ \A n \in NPC : live.occupancy[n].plotId # 0 => occ[n] = live.occupancy[n]
      /\ \A n \in NPC : occ[n].plotId # 0 => occ[n] = live.occupancy[n]
  <2>1. NoRow \in Occupancy /\ NoRow.plotId = 0
    BY DEF NoRow, Occupancy, Roles
  <2> QED BY <1>3, <2>1 DEF PruneExpired, IsEngaged
<1> HIDE DEF stay, occ
<1>5. /\ st.plots = Restrict(live.plots, stay) /\ st.nextPlotId = live.nextPlotId
      /\ st.simGameDay = live.simGameDay /\ st.world = live.world /\ st.occupancy = occ
  BY DEF GoodState, IsState
<1>6. live.world \in Nat /\ DOMAIN live.plots \subseteq 1 .. (live.nextPlotId - 1)
      /\ live.nextPlotId \in Nat
  BY DEF GoodState, IsState
<1> HIDE DEF st
<1>7. \A n \in NPC : occ[n].plotId \notin stay \cup {0} => occ[n].plotId \notin ActiveIn(live)
  BY <1>2
<1>8. \A n \in NPC : live.occupancy[n].plotId \in stay => occ[n] = live.occupancy[n]
  BY <1>2, <1>4, <1>6
<1> QED BY <1>1, <1>2, <1>4, <1>5, <1>6, <1>7, <1>8, DroppedGood

LEMMA RestoredGood ==
    ASSUME NEW st, GoodState(st), NEW gone \in SUBSET DOMAIN st.plots, world \in Nat
    PROVE  GoodState(Restored(st, gone)) /\ Restored(st, gone).world = world + 1
<1> DEFINE kept == DOMAIN st.plots \ gone
           occ == [n \in NPC |-> IF st.occupancy[n].plotId \in kept THEN st.occupancy[n]
                                 ELSE [st.occupancy[n] EXCEPT !.plotId = 0]]
           t == Restored(st, gone)
<1>1. t = [st EXCEPT !.plots = Restrict(st.plots, kept), !.occupancy = occ, !.world = world + 1]
  BY DEF Restored
<1>2. /\ st.occupancy \in [NPC -> Occupancy]
      /\ DOMAIN st.plots \subseteq 1 .. (st.nextPlotId - 1) /\ st.nextPlotId \in Nat
  BY DEF GoodState, IsState
<1>3. /\ occ \in [NPC -> Occupancy]
      /\ \A n \in NPC : st.occupancy[n].plotId \in kept => occ[n] = st.occupancy[n]
      /\ \A n \in NPC : st.occupancy[n].plotId \notin kept => occ[n].plotId = 0
  <2>1. \A n \in NPC : /\ [st.occupancy[n] EXCEPT !.plotId = 0] \in Occupancy
                       /\ [st.occupancy[n] EXCEPT !.plotId = 0].plotId = 0
    BY <1>2 DEF Occupancy
  <2> QED BY <1>2, <2>1
<1> HIDE DEF occ, t
<1>4. /\ t.plots = Restrict(st.plots, kept) /\ t.nextPlotId = st.nextPlotId
      /\ t.simGameDay = st.simGameDay /\ t.world = world + 1 /\ t.occupancy = occ
  BY <1>1 DEF GoodState, IsState
<1>5. \A n \in NPC : occ[n].plotId # 0 => occ[n] = st.occupancy[n]
  BY <1>3
<1>6. \A n \in NPC : occ[n].plotId \notin kept \cup {0} => occ[n].plotId \notin ActiveIn(st)
  BY <1>3
<1>7. kept \in SUBSET DOMAIN st.plots /\ world + 1 \in Nat
  OBVIOUS
<1> HIDE DEF kept
<1>8. GoodState(t)
  BY <1>3, <1>4, <1>5, <1>6, <1>7, DroppedGood
<1> QED BY <1>4, <1>8 DEF t
=============================================================================
