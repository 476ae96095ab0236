--------------------------- MODULE WaiverRunProofs ---------------------------
(***************************************************************************)
(* Theorems about WaiverRun for every set of teams, players and claims.    *)
(***************************************************************************)
EXTENDS WaiverRun, FiniteSetTheorems, FunctionTheorems, TLAPS

\* The next pending claim of a team is one of the claims it submitted.
LEMMA NextClaimType ==
    ASSUME TypeOK, NEW t \in Teams, Pending(t)
    PROVE  NextClaim(t) \in Claims
<1>1. claims[t] \in Seq(Claims) /\ fate[t] \in Seq(Fates)
  BY DEF TypeOK
<1>2. Len(fate[t]) + 1 \in 1..Len(claims[t])
  BY <1>1 DEF Pending
<1> QED
  BY <1>1, <1>2 DEF NextClaim

\* Deciding a claim keeps the type of the decisions.
LEMMA DecideType ==
    ASSUME TypeOK, NEW t \in Teams, NEW f \in Fates, Decide(t, f)
    PROVE  fate' \in [Teams -> Seq(Fates)]
BY DEF TypeOK, Decide

\* Moving a team to the bottom keeps every priority within 1..N ...
LEMMA DemotedType ==
    ASSUME NEW w \in Teams, priority \in Rankings
    PROVE  Demoted(w) \in Rankings
BY WaiverAssumption DEF Demoted, Rankings

\* ... and two teams that had different priorities still have.
LEMMA DemotedRanks ==
    ASSUME NEW w \in Teams, priority \in Rankings, Ranks(priority)
    PROVE  Ranks(Demoted(w))
<1> SUFFICES ASSUME NEW t \in Teams, NEW u \in Teams, Demoted(w)[t] = Demoted(w)[u], t # u
             PROVE  FALSE
  BY DEF Ranks
<1>1. /\ priority[t] \in 1..N /\ priority[u] \in 1..N /\ priority[w] \in 1..N /\ N \in Nat
      /\ priority[t] # priority[u]
      /\ t # w => priority[t] # priority[w]
      /\ u # w => priority[u] # priority[w]
  BY WaiverAssumption DEF Ranks, Rankings
<1>2. CASE t = w
  BY <1>1, <1>2 DEF Demoted
<1>3. CASE u = w
  BY <1>1, <1>3 DEF Demoted
<1>4. CASE t # w /\ u # w
  BY <1>1, <1>4 DEF Demoted
<1> QED
  BY <1>2, <1>3, <1>4

LEMMA RankingStep ==
    TypeOK /\ PriorityIsRanking /\ [Next]_vars => TypeOK' /\ PriorityIsRanking'
<1> SUFFICES ASSUME TypeOK, PriorityIsRanking, [Next]_vars
             PROVE  TypeOK' /\ PriorityIsRanking'
  OBVIOUS
<1> USE DEF TypeOK, PriorityIsRanking
<1>1. ASSUME NEW t \in Teams, SubmitClaims(t) PROVE TypeOK' /\ PriorityIsRanking'
  <2>1. PICK list \in ClaimLists[t] : claims' = [claims EXCEPT ![t] = list]
    BY <1>1 DEF SubmitClaims
  <2>2. list \in Seq({c \in Claims : c.add # c.drop})
    BY <2>1, WaiverAssumption
  <2>3. list \in Seq(Claims)
    BY <2>2
  <2> QED
    BY <1>1, <2>1, <2>3 DEF SubmitClaims
<1>2. CASE BeginRun
  BY <1>2 DEF BeginRun
<1>3. ASSUME NEW t \in Teams, Discard(t) PROVE TypeOK' /\ PriorityIsRanking'
  <2>1. fate' \in [Teams -> Seq(Fates)]
    BY <1>3, DecideType DEF Discard, Fates
  <2> QED
    BY <1>3, <2>1 DEF Discard
<1>4. ASSUME NEW w \in Teams, Award(w) PROVE TypeOK' /\ PriorityIsRanking'
  <2>1. fate' \in [Teams -> Seq(Fates)]
    BY <1>4, DecideType DEF Award, Fates
  <2>2. NextClaim(w) \in Claims /\ Executable(w, NextClaim(w))
    BY <1>4, NextClaimType DEF Award, First, Contenders
  <2>3. Replacement(NextClaim(w)) \in Slots \cup {Bench}
    BY <2>2, WaiverAssumption DEF Replacement, Executable, Claims, Assignments, Unowned
  <2>4. roster' \in [Players -> Assignments]
    BY <1>4, <2>3 DEF Award, Assignments
  <2>5. priority' \in Rankings /\ Ranks(priority')
    BY <1>4, DemotedType, DemotedRanks DEF Award
  <2> QED
    BY <1>4, <2>1, <2>4, <2>5 DEF Award
<1>5. CASE FinishRun
  BY <1>5 DEF FinishRun
<1>6. CASE UNCHANGED vars
  BY <1>6 DEF vars
<1> QED
  BY <1>1, <1>2, <1>3, <1>4, <1>5, <1>6 DEF Next, Decision

LEMMA RankingInit == Init => TypeOK /\ PriorityIsRanking
<1> SUFFICES ASSUME Init PROVE TypeOK /\ PriorityIsRanking
  OBVIOUS
<1>1. <<>> \in Seq(Claims) /\ <<>> \in Seq(Fates)
  OBVIOUS
<1> QED
  BY <1>1, WaiverAssumption DEF Init, TypeOK, PriorityIsRanking, Rankings

LEMMA RankingCorrect == Spec => [](TypeOK /\ PriorityIsRanking)
BY RankingInit, RankingStep, PTL DEF Spec

\* The run's rows keep to their types for every league, roster and claim list.
THEOREM WaiverTypes == Spec => []TypeOK
BY RankingCorrect, PTL

\* The waiver priorities stay a ranking of the league's teams without ties or
\* gaps through any number of wins, so each award has exactly one winner.
THEOREM RankingKept == Spec => []PriorityIsRanking
BY RankingCorrect, PTL
-----------------------------------------------------------------------------
\* The claim that is awarded is executable; its player had no team.
LEMMA AwardedClaim ==
    ASSUME TypeOK, NEW w \in Teams, Award(w)
    PROVE  LET c == NextClaim(w)
           IN  /\ c \in Claims /\ Executable(w, c) /\ c.add # c.drop
               /\ c.add \in Players /\ roster[c.add] = Unowned
               /\ c.drop # None => c.drop \in Players
               /\ Pending(w) /\ fate' = [fate EXCEPT ![w] = Append(@, "WON")]
<1> DEFINE c == NextClaim(w)
<1>1. c \in Claims /\ Executable(w, c) /\ Pending(w)
  BY NextClaimType DEF Award, First, Contenders
<1>2. c.add \in Players /\ roster[c.add] = Unowned /\ (c.drop # None => c.drop \in Players)
  BY <1>1 DEF Claims, Executable, Unavailable
<1>3. c.add # c.drop
  BY <1>1, <1>2, WaiverAssumption DEF Executable, Unowned
<1> QED
  BY <1>1, <1>2, <1>3 DEF Award, Decide

\* What an award changes in the rosters: the winner gets the added player in
\* place of the dropped one, if any, and nothing else moves.
LEMMA AwardEffect ==
    ASSUME TypeOK, NEW w \in Teams, Award(w)
    PROVE  LET c == NextClaim(w)
           IN  /\ roster'[c.add] = [team |-> w, slot |-> Replacement(c)]
               /\ c.drop \in Players => roster'[c.drop] = Unowned
               /\ \A p \in Players \ {c.add, c.drop} : roster'[p] = roster[p]
               /\ RosterOf(w)' = (RosterOf(w) \ {c.drop}) \cup {c.add}
               /\ c.add \notin RosterOf(w)
               /\ c.drop # None => c.drop \in RosterOf(w)
               /\ \A t \in Teams \ {w} : /\ RosterOf(t)' = RosterOf(t)
                                         /\ \A p \in RosterOf(t) : roster'[p] = roster[p]
<1> DEFINE c == NextClaim(w)
<1>1. /\ c \in Claims /\ Executable(w, c) /\ c.add # c.drop
      /\ c.add \in Players /\ roster[c.add] = Unowned
      /\ c.drop # None => c.drop \in Players
  BY AwardedClaim
<1>2. \A u \in Teams : u # None
  BY WaiverAssumption
<1>3. None \notin Players
  BY WaiverAssumption
<1>4. /\ roster'[c.add] = [team |-> w, slot |-> Replacement(c)]
      /\ c.drop \in Players => roster'[c.drop] = Unowned
      /\ \A p \in Players \ {c.add, c.drop} : roster'[p] = roster[p]
  BY <1>1 DEF Award
<1>5. c.add \notin RosterOf(w) /\ (c.drop # None => c.drop \in RosterOf(w))
  BY <1>1, <1>2 DEF RosterOf, Executable, Unowned
<1>6. RosterOf(w)' = (RosterOf(w) \ {c.drop}) \cup {c.add}
  BY <1>1, <1>2, <1>3, <1>4 DEF RosterOf, Unowned
<1>7. ASSUME NEW t \in Teams \ {w}
      PROVE  RosterOf(t)' = RosterOf(t) /\ \A p \in RosterOf(t) : roster'[p] = roster[p]
  <2>1. roster[c.add].team # t /\ roster'[c.add].team # t
    BY <1>1, <1>2, <1>4 DEF Unowned
  <2>2. c.drop \in Players => roster[c.drop].team # t /\ roster'[c.drop].team # t
    BY <1>1, <1>2, <1>3, <1>4 DEF Executable, Unowned
  <2>3. \A p \in Players :
           /\ (roster'[p].team = t) <=> (roster[p].team = t)
           /\ roster[p].team = t => roster'[p] = roster[p]
    BY <1>4, <2>1, <2>2
  <2> QED
    BY <2>3 DEF RosterOf
<1> QED
  BY <1>4, <1>5, <1>6, <1>7

\* An award exchanges at most the occupant of one starter slot of the winner.
LEMMA AwardSlots ==
    ASSUME TypeOK, NEW w \in Teams, Award(w), NEW t \in Teams
    PROVE  SlotsOf(t)' = SlotsOf(t)
<1> DEFINE c == NextClaim(w)
<1>1. c \in Claims /\ Executable(w, c)
  BY NextClaimType DEF Award, First, Contenders
<1>2. c.add \in Players /\ roster[c.add] = Unowned /\ c.add # None
  BY <1>1, WaiverAssumption DEF Claims, Executable, Unavailable
<1>3. \A u \in Teams : u # None
  BY WaiverAssumption
<1>4. /\ roster'[c.add] = [team |-> w, slot |-> Replacement(c)]
      /\ c.drop \in Players => roster'[c.drop] = Unowned
      /\ \A p \in Players \ {c.add, c.drop} : roster'[p] = roster[p]
      /\ c.add # c.drop
  BY <1>1, <1>2, <1>3 DEF Award, Executable, Unowned, Claims
<1>5. CASE t # w
  <2>1. RosterOf(t)' = RosterOf(t) /\ \A p \in RosterOf(t) : roster'[p] = roster[p]
    BY <1>5, AwardEffect
  <2> QED
    BY <2>1 DEF SlotsOf
<1>6. CASE t = w /\ c.drop = None
  <2>1. RosterOf(w)' = RosterOf(w) \cup {c.add}
    BY <1>2, <1>3, <1>4, <1>6, WaiverAssumption DEF RosterOf, Unowned
  <2>2. /\ \A p \in RosterOf(w) : roster'[p] = roster[p]
        /\ roster'[c.add].slot = Bench
    BY <1>2, <1>3, <1>4, <1>6, WaiverAssumption DEF RosterOf, Unowned, Replacement
  <2> QED
    BY <1>6, <2>1, <2>2 DEF SlotsOf
<1>7. CASE t = w /\ c.drop # None
  <2>1. c.drop \in RosterOf(w) /\ roster'[c.add].slot = roster[c.drop].slot
    BY <1>1, <1>4, <1>7 DEF RosterOf, Executable, Claims, Replacement
  <2>2. RosterOf(w)' = (RosterOf(w) \ {c.drop}) \cup {c.add}
    BY <1>2, <1>3, <1>4, <2>1 DEF RosterOf, Unowned
  <2>3. c.add \notin RosterOf(w) /\ \A p \in RosterOf(w) \ {c.drop} : roster'[p] = roster[p]
    BY <1>2, <1>3, <1>4 DEF RosterOf, Unowned
  <2> QED
    BY <1>7, <2>1, <2>2, <2>3 DEF SlotsOf
<1> QED
  BY <1>5, <1>6, <1>7

LEMMA SlotsStep ==
    TypeOK /\ [Next]_vars => [\A t \in Teams : SlotsOf(t)' = SlotsOf(t)]_vars
<1> SUFFICES ASSUME TypeOK, [Next]_vars, NEW t \in Teams PROVE SlotsOf(t)' = SlotsOf(t)
  OBVIOUS
<1>1. roster' = roster => SlotsOf(t)' = SlotsOf(t)
  BY DEF SlotsOf, RosterOf
<1>2. ASSUME NEW w \in Teams, Award(w) PROVE SlotsOf(t)' = SlotsOf(t)
  BY <1>2, AwardSlots
<1>3. CASE roster' = roster
  BY <1>1, <1>3
<1> QED
  BY <1>1, <1>2 DEF Next, Decision, SubmitClaims, BeginRun, Discard, FinishRun, vars

\* No waiver decision ever empties a starter slot or fills a new one: a lineup
\* that was complete before the run is complete after it.
THEOREM LineupsKept == Spec => LineupsStayComplete
BY RankingCorrect, SlotsStep, PTL DEF Spec, LineupsStayComplete

\* Columns of a run keep to their values and its priorities to a ranking.
THEOREM RunCorrect == Spec => []RunConsistent
BY RankingCorrect, PTL DEF RunConsistent
-----------------------------------------------------------------------------
(* Legal rosters.                                                          *)

LEMMA AwardLegal ==
    ASSUME TypeOK, RostersLegal, NEW w \in Teams, Award(w)
    PROVE  RostersLegal'
<1> DEFINE c == NextClaim(w)
           Lineup(t) == \A p, q \in RosterOf(t) :
                            roster[p].slot # Bench =>
                                /\ <<p, roster[p].slot>> \in Fits
                                /\ roster[q].slot = roster[p].slot => p = q
<1>1. /\ Executable(w, c) /\ c.add # c.drop /\ c.add \in Players
      /\ c.drop # None => c.drop \in Players
  BY AwardedClaim
<1>2. /\ roster'[c.add] = [team |-> w, slot |-> Replacement(c)]
      /\ \A p \in Players \ {c.add, c.drop} : roster'[p] = roster[p]
      /\ RosterOf(w)' = (RosterOf(w) \ {c.drop}) \cup {c.add}
      /\ c.add \notin RosterOf(w) /\ (c.drop # None => c.drop \in RosterOf(w))
      /\ \A t \in Teams \ {w} : /\ RosterOf(t)' = RosterOf(t)
                                /\ \A p \in RosterOf(t) : roster'[p] = roster[p]
  BY AwardEffect
<1>3. \A t \in Teams : Cardinality(RosterOf(t)) <= Limit /\ Lineup(t)
  BY DEF RostersLegal, Legal, RosterOf
<1>4. RosterOf(w) \subseteq Players /\ IsFiniteSet(RosterOf(w))
  BY WaiverAssumption, FS_Subset DEF RosterOf
<1>5. Cardinality(RosterOf(w)') <= Limit
  <2>1. Cardinality(RosterOf(w)) \in Nat /\ Limit \in Nat
    BY <1>4, FS_CardinalityType, WaiverAssumption
  <2>2. CASE c.drop = None
    <3>1. RosterOf(w)' = RosterOf(w) \cup {c.add} /\ Cardinality(RosterOf(w)) < Limit
      BY <1>1, <1>2, <1>4, <2>2, WaiverAssumption DEF Executable
    <3>2. Cardinality(RosterOf(w)') = Cardinality(RosterOf(w)) + 1
      <4>1. c.add \notin RosterOf(w) /\ IsFiniteSet(RosterOf(w))
        BY <1>2, <1>4
      <4>2. Cardinality(RosterOf(w) \cup {c.add}) = Cardinality(RosterOf(w)) + 1
        BY <4>1, FS_AddElement
      <4> QED
        BY <3>1, <4>2
    <3> QED
      BY <2>1, <3>1, <3>2
  <2>3. CASE c.drop # None
    <3>1. /\ IsFiniteSet(RosterOf(w) \ {c.drop})
          /\ Cardinality(RosterOf(w) \ {c.drop}) = Cardinality(RosterOf(w)) - 1
      BY <1>2, <1>4, <2>3, FS_RemoveElement
    <3>2. Cardinality(RosterOf(w)') = (Cardinality(RosterOf(w)) - 1) + 1
      BY <1>2, <3>1, FS_AddElement
    <3> QED
      BY <1>3, <2>1, <3>2
  <2> QED
    BY <2>2, <2>3
<1>6. Lineup(w)'
  <2>1. CASE c.drop = None
    <3>1. roster'[c.add].slot = Bench /\ \A p \in RosterOf(w) : roster'[p] = roster[p]
      BY <1>2, <1>4, <2>1, WaiverAssumption DEF Replacement
    <3> QED
      BY <1>2, <1>3, <3>1
  <2>2. CASE c.drop # None
    <3>1. /\ roster'[c.add].slot = roster[c.drop].slot
          /\ roster[c.drop].slot # Bench => <<c.add, roster[c.drop].slot>> \in Fits
      BY <1>1, <1>2, <2>2 DEF Replacement, Executable
    <3>2. \A p \in RosterOf(w) \ {c.drop} : roster'[p] = roster[p]
      BY <1>2, <1>4
    <3>3. ASSUME NEW p \in RosterOf(w)', roster'[p].slot # Bench
          PROVE  <<p, roster'[p].slot>> \in Fits
      BY <1>2, <1>3, <2>2, <3>1, <3>2, <3>3
    <3>4. ASSUME NEW p \in RosterOf(w)', NEW q \in RosterOf(w)', roster'[p].slot # Bench,
                 roster'[q].slot = roster'[p].slot
          PROVE  p = q
      <4> DEFINE Mine == RosterOf(w)
      <4>1. \A x, y \in Mine :
               roster[x].slot # Bench /\ roster[y].slot = roster[x].slot => x = y
        BY <1>3
      <4>2. c.drop \in Mine /\ \A x \in Mine \ {c.drop} : roster'[x].slot = roster[x].slot
        BY <1>2, <2>2, <3>2
      <4>3. p \in (Mine \ {c.drop}) \cup {c.add} /\ q \in (Mine \ {c.drop}) \cup {c.add}
        BY <1>2, <3>4
      <4> HIDE DEF Mine
      <4> QED
        BY <3>1, <3>4, <4>1, <4>2, <4>3
    <3> QED
      BY <3>3, <3>4
  <2> QED
    BY <2>1, <2>2
<1>7. ASSUME NEW t \in Teams \ {w} PROVE Cardinality(RosterOf(t)') <= Limit /\ Lineup(t)'
  BY <1>2, <1>3
<1>8. \A t \in Teams : Cardinality(RosterOf(t)') <= Limit /\ Lineup(t)'
  BY <1>5, <1>6, <1>7
<1> QED
  BY <1>8 DEF RostersLegal, Legal, RosterOf

LEMMA LegalStep == TypeOK /\ RostersLegal /\ [Next]_vars => RostersLegal'
<1>1. roster' = roster /\ RostersLegal => RostersLegal'
  BY DEF RostersLegal, Legal
<1> QED
  BY <1>1, AwardLegal
     DEF Next, Decision, SubmitClaims, BeginRun, Discard, FinishRun, vars

\* Rosters that are legal when the period begins stay so, whatever the claims.
THEOREM RostersStayLegal == Spec => []RostersLegal
<1>1. Init => RostersLegal
  BY WaiverAssumption DEF Init, RostersLegal
<1> QED
  BY <1>1, LegalStep, RankingCorrect, PTL DEF Spec
-----------------------------------------------------------------------------
(* Who is served before whom.  Three facts carry the proof: a team that    *)
(* has won nothing stays ahead of everyone who was behind it; somebody     *)
(* behind it can win only once it has no claim left; and a player who was  *)
(* taken when it asked can be free later only because an award dropped     *)
(* him.                                                                    *)

\* Before the run nothing is decided.
NothingDecidedYet == period = "OPEN" => \A t \in Teams : fate[t] = <<>>

OnlySubmittedDecided == \A t \in Teams : Len(fate[t]) <= Len(claims[t])

UnservedStayAhead ==
    \A t, u \in Teams : line[t] < line[u] /\ ~Served(t) => priority[t] < priority[u]

BehindMeansDone ==
    \A t, u \in Teams : line[t] < line[u] /\ ~Served(t) /\ Served(u) => ~Pending(t)

Dropped(p) == \E v \in Teams : \E e \in Outcome(v, "WON") : e.drop = p
LostThenDropped ==
    \A t \in Teams : \A c \in Outcome(t, "LOST") : roster[c.add] = Unowned => Dropped(c.add)

TurnInv ==
    /\ period = "OPEN" => line = priority
    /\ NothingDecidedYet /\ OnlySubmittedDecided /\ UnservedStayAhead /\ BehindMeansDone /\ LostThenDropped
    /\ ServedInTurn

\* A decision adds one claim to those with its outcome.
LEMMA OutcomeGrows ==
    ASSUME TypeOK, NEW t \in Teams, NEW f, Decide(t, f), claims' = claims
    PROVE  \A u \in Teams : \A g :
              Outcome(u, g)' = Outcome(u, g) \cup IF u = t /\ g = f THEN {NextClaim(t)} ELSE {}
<1> SUFFICES ASSUME NEW u \in Teams, NEW g
             PROVE  Outcome(u, g)' = Outcome(u, g)
                                       \cup IF u = t /\ g = f THEN {NextClaim(t)} ELSE {}
  OBVIOUS
<1>1. fate[u] \in Seq(Fates) /\ Len(fate[u]) \in Nat
  BY DEF TypeOK
<1>2. CASE u # t
  BY <1>2 DEF Decide, Outcome, TypeOK
<1>3. CASE u = t
  <2>1. fate'[t] = Append(fate[t], f)
    BY DEF Decide, TypeOK
  <2>2. /\ Len(fate'[t]) = Len(fate[t]) + 1
        /\ fate'[t][Len(fate[t]) + 1] = f
        /\ \A i \in 1..Len(fate[t]) : fate'[t][i] = fate[t][i]
    BY <1>1, <1>3, <2>1
  <2>3. {j \in 1..Len(fate'[t]) : fate'[t][j] = g}
          = {j \in 1..Len(fate[t]) : fate[t][j] = g}
              \cup IF g = f THEN {Len(fate[t]) + 1} ELSE {}
    BY <1>1, <1>3, <2>2
  <2> QED
    BY <1>3, <2>3 DEF Outcome, NextClaim
<1> QED
  BY <1>2, <1>3

\* Only a win serves a team, and who has no claim left gets none back.
LEMMA ServedGrows ==
    ASSUME TypeOK, NEW t \in Teams, NEW f, Decide(t, f), claims' = claims
    PROVE  /\ \A u \in Teams : Served(u)' <=> Served(u) \/ (u = t /\ f = "WON")
           /\ OnlySubmittedDecided /\ Pending(t) => OnlySubmittedDecided'
           /\ \A u \in Teams : Pending(u)' => Pending(u)
<1>1. fate'[t] = Append(fate[t], f) /\ \A u \in Teams \ {t} : fate'[u] = fate[u]
  BY DEF Decide, TypeOK
<1>2. fate[t] \in Seq(Fates) /\ Len(fate[t]) \in Nat /\ claims[t] \in Seq(Claims)
  BY DEF TypeOK
<1>3. /\ Len(fate'[t]) = Len(fate[t]) + 1
      /\ fate'[t][Len(fate[t]) + 1] = f
      /\ \A i \in 1..Len(fate[t]) : fate'[t][i] = fate[t][i]
  BY <1>1, <1>2
<1>4. Served(t)' <=> Served(t) \/ f = "WON"
  <2>1. PICK before, after : before = fate[t] /\ after = fate'[t]
    OBVIOUS
  <2> PICK n \in Nat : n = Len(before)
    BY <1>2, <2>1
  <2>2. Len(after) = n + 1 /\ after[n + 1] = f /\ \A i \in 1..n : after[i] = before[i]
    <3>1. Len(fate[t]) = n
      BY <2>1
    <3>2. /\ Len(fate'[t]) = n + 1 /\ fate'[t][n + 1] = f
          /\ \A i \in 1..n : fate'[t][i] = fate[t][i]
      BY <1>3, <3>1
    <3> QED
      BY <2>1, <3>2
  <2>3. /\ \A i \in 1..n + 1 : i \in 1..n \/ i = n + 1
        /\ \A i \in 1..n : i \in 1..n + 1
        /\ n + 1 \in 1..n + 1
    OBVIOUS
  <2>4. (\E i \in 1..n + 1 : after[i] = "WON") <=> (\E i \in 1..n : before[i] = "WON") \/ f = "WON"
    <3>1. ASSUME NEW i \in 1..n + 1, after[i] = "WON"
          PROVE  (\E l \in 1..n : before[l] = "WON") \/ f = "WON"
      <4>1. CASE i \in 1..n
        BY <2>2, <3>1, <4>1
      <4>2. CASE i = n + 1
        BY <2>2, <3>1, <4>2
      <4> QED
        BY <2>3, <4>1, <4>2
    <3>2. ASSUME NEW i \in 1..n, before[i] = "WON"
          PROVE  \E l \in 1..n + 1 : after[l] = "WON"
      <4>1. i \in 1..n + 1 /\ after[i] = "WON"
        BY <2>2, <2>3, <3>2
      <4> QED
        BY <4>1
    <3>3. f = "WON" => \E l \in 1..n + 1 : after[l] = "WON"
      BY <2>2, <2>3
    <3> QED
      BY <3>1, <3>2, <3>3
  <2> QED
    BY <2>1, <2>2, <2>4 DEF Served
<1>5. Pending(t)' => Pending(t)
  BY <1>2, <1>3 DEF Pending
<1>6. \A u \in Teams \ {t} : (Served(u)' <=> Served(u)) /\ (Pending(u)' <=> Pending(u))
  BY <1>1 DEF Served, Pending
<1>7. OnlySubmittedDecided /\ Pending(t) => OnlySubmittedDecided'
  BY <1>1, <1>2, <1>3 DEF OnlySubmittedDecided, Pending
<1> QED
  BY <1>4, <1>5, <1>6, <1>7

LEMMA DiscardTurn ==
    ASSUME TypeOK, PriorityIsRanking, TurnInv, NEW t \in Teams, Discard(t)
    PROVE  TurnInv'
<1> DEFINE c == NextClaim(t)
<1>1. PICK f \in {"LOST", "INVALID"} :
         Decide(t, f) /\ (f = "LOST" => roster[c.add] # Unowned)
  BY DEF Discard, Unavailable
<1>2. UNCHANGED <<period, claims, roster, priority, line>> /\ period = "PROCESSING" /\ Pending(t)
  BY DEF Discard
<1>3. \A u \in Teams :
         /\ Served(u)' <=> Served(u)
         /\ Pending(u)' => Pending(u)
         /\ Outcome(u, "WON")' = Outcome(u, "WON")
         /\ Outcome(u, "LOST")' \subseteq Outcome(u, "LOST") \cup IF u = t THEN {c} ELSE {}
         /\ \A d \in Outcome(u, "LOST")' \ Outcome(u, "LOST") : roster[d.add] # Unowned
  <2>1. \A u \in Teams : /\ Outcome(u, "WON")' = Outcome(u, "WON")
                         /\ Outcome(u, "LOST")' = Outcome(u, "LOST")
                                                  \cup IF u = t /\ f = "LOST" THEN {c} ELSE {}
    <3>1. \A u \in Teams : \A g : Outcome(u, g)' = Outcome(u, g)
                                 \cup IF u = t /\ g = f THEN {c} ELSE {}
      BY <1>1, <1>2, OutcomeGrows
    <3>2. f # "WON"
      BY <1>1
    <3>3. \A u \in Teams : Outcome(u, "WON")' = Outcome(u, "WON") \cup {}
      BY <3>1, <3>2
    <3>4. \A u \in Teams : Outcome(u, "LOST")' = Outcome(u, "LOST")
                             \cup IF u = t /\ "LOST" = f THEN {c} ELSE {}
      BY <3>1
    <3> QED
      BY <3>3, <3>4
  <2>2. \A u \in Teams : /\ Served(u)' <=> Served(u) \/ (u = t /\ f = "WON")
                         /\ Pending(u)' => Pending(u)
    BY <1>1, <1>2, ServedGrows
  <2> QED
    BY <1>1, <2>1, <2>2
<1>4. \A p : Dropped(p)' <=> Dropped(p)
  BY <1>3 DEF Dropped
<1>5. /\ NothingDecidedYet' /\ OnlySubmittedDecided' /\ UnservedStayAhead' /\ BehindMeansDone'
  BY <1>1, <1>2, <1>3, ServedGrows DEF TurnInv, NothingDecidedYet, UnservedStayAhead, BehindMeansDone
<1>6. LostThenDropped'
  BY <1>2, <1>3, <1>4 DEF TurnInv, LostThenDropped
<1>7. ServedInTurn'
  <2> SUFFICES ASSUME NEW x \in Teams, NEW u \in Teams, line[x] < line[u], ~Served(x),
                      NEW d \in Outcome(x, "LOST")', NEW e \in Outcome(u, "WON"), d.add = e.add
               PROVE  Dropped(d.add)
    BY <1>2, <1>3, <1>4 DEF ServedInTurn, Dropped
  <2>1. CASE d \in Outcome(x, "LOST")
    BY <2>1 DEF TurnInv, ServedInTurn, Dropped
  <2>2. CASE x = t
    <3>1. Served(u)
      BY DEF Outcome, Served
    <3> QED
      BY <1>2, <2>2, <3>1 DEF TurnInv, BehindMeansDone
  <2> QED
    BY <1>3, <2>1, <2>2
<1> QED
  BY <1>2, <1>5, <1>6, <1>7 DEF TurnInv

\* A demotion leaves those that stood ahead of somebody ahead of him.
LEMMA DemotedKeepsAhead ==
    ASSUME TypeOK, PriorityIsRanking, NEW w \in Teams, NEW t \in Teams, NEW u \in Teams,
           t # w, priority[t] < priority[u]
    PROVE  Demoted(w)[t] < Demoted(w)[u]
<1>1. /\ priority[t] \in 1..N /\ priority[u] \in 1..N /\ priority[w] \in 1..N /\ N \in Nat
      /\ priority[t] # priority[w]
  BY WaiverAssumption DEF TypeOK, PriorityIsRanking, Ranks, Rankings
<1>2. u # w => priority[u] # priority[w]
  BY DEF PriorityIsRanking, Ranks
<1>3. CASE u = w
  BY <1>1, <1>3 DEF Demoted
<1>4. CASE u # w
  BY <1>1, <1>2, <1>4 DEF Demoted
<1> QED
  BY <1>3, <1>4

LEMMA AwardTurn ==
    ASSUME TypeOK, PriorityIsRanking, TurnInv, NEW w \in Teams, Award(w)
    PROVE  TurnInv'
<1> DEFINE c == NextClaim(w)
<1>1. /\ UNCHANGED <<period, claims, line>> /\ period = "PROCESSING" /\ Pending(w)
      /\ Decide(w, "WON") /\ priority' = Demoted(w)
      /\ \A t \in Teams : Pending(t) => priority[w] <= priority[t]
  BY DEF Award, First, Contenders
<1>2. /\ \A u \in Teams : Served(u)' <=> Served(u) \/ u = w
      /\ \A u \in Teams : Pending(u)' => Pending(u)
      /\ OnlySubmittedDecided'
  BY <1>1, ServedGrows DEF TurnInv
<1>3. \A u \in Teams :
         /\ Outcome(u, "LOST")' = Outcome(u, "LOST")
         /\ Outcome(u, "WON")' = Outcome(u, "WON") \cup IF u = w THEN {c} ELSE {}
  <2>1. \A u \in Teams : \A g : Outcome(u, g)' = Outcome(u, g)
                               \cup IF u = w /\ g = "WON" THEN {c} ELSE {}
    BY <1>1, OutcomeGrows
  <2> QED
    BY <2>1
<1>4. \A p : Dropped(p)' <=> Dropped(p) \/ p = c.drop
  BY <1>3 DEF Dropped
<1>5. roster[c.add] = Unowned /\ \A p \in Players \ {c.drop} : roster[p] # Unowned => roster'[p] = roster[p]
  BY AwardedClaim, AwardEffect
<1>6. UnservedStayAhead'
  BY <1>1, <1>2, DemotedKeepsAhead DEF TurnInv, UnservedStayAhead
<1>7. BehindMeansDone'
  <2> SUFFICES ASSUME NEW t \in Teams, NEW u \in Teams, line[t] < line[u], ~Served(t),
                      Served(u) \/ u = w, Pending(t)
               PROVE  FALSE
    BY <1>1, <1>2 DEF BehindMeansDone
  <2>1. u = w
    BY DEF TurnInv, BehindMeansDone
  <2>2. priority[t] < priority[w] /\ priority[w] <= priority[t]
    BY <1>1, <2>1 DEF TurnInv, UnservedStayAhead
  <2>3. priority[t] \in Nat /\ priority[w] \in Nat
    BY WaiverAssumption DEF TypeOK, Rankings
  <2> QED
    BY <2>2, <2>3
<1>8. LostThenDropped'
  <2> SUFFICES ASSUME NEW t \in Teams, NEW d \in Outcome(t, "LOST"), roster'[d.add] = Unowned
               PROVE  Dropped(d.add) \/ d.add = c.drop
    BY <1>3, <1>4 DEF LostThenDropped
  <2>1. d \in Claims
    <3>1. PICK i \in 1..Len(fate[t]) : d = claims[t][i]
      BY DEF Outcome
    <3>2. claims[t] \in Seq(Claims) /\ fate[t] \in Seq(Fates) /\ Len(fate[t]) <= Len(claims[t])
      BY DEF TypeOK, TurnInv, OnlySubmittedDecided
    <3>3. i \in 1..Len(claims[t])
      BY <3>2
    <3> QED
      BY <3>1, <3>2, <3>3
  <2>2. d.add \in Players
    BY <2>1 DEF Claims
  <2>3. CASE roster[d.add] = Unowned
    BY <2>3 DEF TurnInv, LostThenDropped
  <2>4. CASE roster[d.add] # Unowned
    BY <1>5, <2>2, <2>4
  <2> QED
    BY <2>3, <2>4
<1>9. ServedInTurn'
  <2> SUFFICES ASSUME NEW x \in Teams, NEW u \in Teams, line[x] < line[u], ~Served(x),
                      NEW d \in Outcome(x, "LOST"), NEW e \in Outcome(u, "WON")', d.add = e.add
               PROVE  Dropped(d.add)
    BY <1>1, <1>2, <1>3, <1>4 DEF ServedInTurn, Dropped
  <2>1. CASE e \in Outcome(u, "WON")
    BY <2>1 DEF TurnInv, ServedInTurn, Dropped
  <2>2. CASE e = c
    BY <1>5, <2>2 DEF TurnInv, LostThenDropped
  <2> QED
    BY <1>3, <2>1, <2>2
<1>10. NothingDecidedYet' /\ (period' = "OPEN" => line' = priority')
  BY <1>1 DEF NothingDecidedYet
<1> QED
  BY <1>2, <1>6, <1>7, <1>8, <1>9, <1>10 DEF TurnInv

\* While nothing is decided there is nothing to show.
Undecided == line = priority /\ \A t \in Teams : fate[t] = <<>>
LEMMA UndecidedTurn == TypeOK /\ Undecided => TurnInv
<1> SUFFICES ASSUME TypeOK, Undecided PROVE TurnInv
  OBVIOUS
<1>1. \A t \in Teams : Len(fate[t]) = 0 /\ Len(claims[t]) \in Nat
  BY DEF Undecided, TypeOK
<1>2. \A t \in Teams : ~Served(t) /\ Outcome(t, "LOST") = {}
  BY <1>1 DEF Served, Outcome
<1> QED
  BY <1>1, <1>2 DEF Undecided, TurnInv, NothingDecidedYet, OnlySubmittedDecided, UnservedStayAhead,
                    BehindMeansDone, LostThenDropped, ServedInTurn

LEMMA TurnStep == TypeOK /\ TypeOK' /\ PriorityIsRanking /\ TurnInv /\ [Next]_vars => TurnInv'
<1> SUFFICES ASSUME TypeOK, TypeOK', PriorityIsRanking, TurnInv, [Next]_vars PROVE TurnInv'
  OBVIOUS
<1>1. TypeOK' /\ Undecided' => TurnInv'
  BY UndecidedTurn, PTL
<1>2. CASE BeginRun \/ \E t \in Teams : SubmitClaims(t)
  <2>1. Undecided'
    BY <1>2 DEF BeginRun, SubmitClaims, TurnInv, NothingDecidedYet, Undecided
  <2> QED
    BY <1>1, <2>1
<1>3. CASE FinishRun \/ UNCHANGED vars
  <2>1. UNCHANGED <<claims, fate, roster, priority, line>> /\ period' \in {period, "PROCESSED"}
    BY <1>3 DEF FinishRun, vars
  <2>2. \A t \in Teams : /\ Served(t)' <=> Served(t)
                         /\ Pending(t)' <=> Pending(t)
                         /\ Outcome(t, "WON")' = Outcome(t, "WON")
                         /\ Outcome(t, "LOST")' = Outcome(t, "LOST")
    BY <2>1 DEF Served, Pending, Outcome
  <2>3. \A p : Dropped(p)' <=> Dropped(p)
    BY <2>2 DEF Dropped
  <2>4. LostThenDropped' /\ ServedInTurn'
    BY <2>1, <2>2, <2>3 DEF TurnInv, LostThenDropped, ServedInTurn, Dropped
  <2> QED
    BY <2>1, <2>2, <2>4 DEF TurnInv, NothingDecidedYet, OnlySubmittedDecided, UnservedStayAhead,
                            BehindMeansDone
<1> QED
  BY <1>2, <1>3, DiscardTurn, AwardTurn DEF Next, Decision

LEMMA TurnInit == Init => TurnInv
<1>1. Init => Undecided
  BY DEF Init, Undecided
<1> QED
  BY <1>1, UndecidedTurn, RankingInit

\* Nobody loses a player to a team behind it, unless it has had its turn or the player
\* was taken when it came and an award set him free later.
THEOREM TurnsKept == Spec => []ServedInTurn
<1>1. TurnInv => ServedInTurn
  BY DEF TurnInv
<1> QED
  BY <1>1, TurnInit, TurnStep, RankingCorrect, PTL DEF Spec

\* Every award is legal for its roster and in turn.
THEOREM AwardsCorrect == Spec => []AwardsSound
BY RostersStayLegal, TurnsKept, PTL DEF AwardsSound
-----------------------------------------------------------------------------
(* The rolling list.                                                       *)

\* Line and priorities tell the same order.
Positions ==
    /\ Line \in [1..N -> Teams]
    /\ \A i \in 1..N : priority[Line[i]] = i
    /\ \A t \in Teams : Line[priority[t]] = t

LEMMA LinePositions == TypeOK /\ PriorityIsRanking => Positions
<1> SUFFICES ASSUME TypeOK, PriorityIsRanking PROVE Positions
  OBVIOUS
<1>1. priority \in [Teams -> 1..N] /\ N \in Nat /\ IsFiniteSet(Teams)
  BY WaiverAssumption DEF TypeOK, Rankings
<1>2. ASSUME NEW i \in 1..N PROVE \E t \in Teams : priority[t] = i
  <2> SUFFICES ASSUME \A t \in Teams : priority[t] # i PROVE FALSE
    OBVIOUS
  <2>1. IsFiniteSet(1..N) /\ Cardinality(1..N) = N
    BY <1>1, FS_Interval
  <2>2. IsFiniteSet((1..N) \ {i}) /\ Cardinality((1..N) \ {i}) = N - 1
    BY <2>1, FS_RemoveElement
  <2>3. priority \in [Teams -> (1..N) \ {i}]
    BY <1>1
  <2>4. N - 1 < N
    BY <1>1
  <2>5. \E t, u \in Teams : t # u /\ priority[t] = priority[u]
    BY <1>1, <2>2, <2>3, <2>4, FS_PigeonHole DEF N
  <2> QED
    BY <2>5 DEF PriorityIsRanking, Ranks
<1>3. \A i \in 1..N : Line[i] \in Teams /\ priority[Line[i]] = i
  BY <1>2 DEF Line
<1>4. \A t \in Teams : Line[priority[t]] = t
  BY <1>1, <1>3 DEF PriorityIsRanking, Ranks
<1> QED
  BY <1>3, <1>4 DEF Positions, Line

LEMMA AwardServes ==
    ASSUME TypeOK, PriorityIsRanking, Positions, Positions', NEW w \in Teams, Award(w)
    PROVE  Rolling!Serve(priority[w])
<1> DEFINE k == priority[w]
<1>1. /\ priority' = Demoted(w) /\ k \in 1..N /\ N \in Nat
      /\ \A t \in Teams : priority[t] \in 1..N /\ priority'[t] \in 1..N
      /\ \A t \in Teams : t # w => priority[t] # k
  BY WaiverAssumption, DemotedType DEF Award, TypeOK, Rankings, PriorityIsRanking, Ranks
<1>2. /\ \A i \in 1..N : Line[i] \in Teams /\ priority[Line[i]] = i
      /\ Line[k] = w
      /\ \A t \in Teams : Line'[priority'[t]] = t
  BY DEF Positions
<1>3. ASSUME NEW i \in 1..N, i < k PROVE Line'[i] = Line[i]
  <2>1. priority'[Line[i]] = i
    BY <1>1, <1>2, <1>3 DEF Demoted
  <2> QED
    BY <1>2, <2>1
<1>4. ASSUME NEW i \in 1..N, i >= k, i < N PROVE Line'[i] = Line[i + 1]
  <2>1. i + 1 \in 1..N /\ i + 1 > k
    BY <1>1, <1>4
  <2>2. priority'[Line[i + 1]] = i
    BY <1>1, <1>2, <1>4, <2>1 DEF Demoted
  <2> QED
    BY <1>2, <2>1, <2>2
<1>5. Line'[N] = Line[k]
  BY <1>1, <1>2 DEF Demoted
<1>6. Line' = [i \in 1..N |-> Line'[i]]
  BY DEF Line
<1>7. \A i \in 1..N : Line'[i] = CASE i < k            -> Line[i]
                                  [] i >= k /\ i < N -> Line[i + 1]
                                  [] i >= k /\ i = N -> Line[k]
  <2> TAKE i \in 1..N
  <2>1. i < k \/ (i >= k /\ i < N) \/ (i >= k /\ i = N)
    BY <1>1
  <2>2. /\ ~(i < k /\ i >= k) /\ ~(i < N /\ i = N)
    BY <1>1
  <2> QED
    BY <1>3, <1>4, <1>5, <2>1, <2>2
<1> QED
  BY <1>6, <1>7 DEF Rolling!Serve

LEMMA RollingStep ==
    TypeOK /\ TypeOK' /\ PriorityIsRanking /\ PriorityIsRanking' /\ [Next]_vars
        => [Rolling!Next]_Line
<1> SUFFICES ASSUME TypeOK, TypeOK', PriorityIsRanking, PriorityIsRanking', [Next]_vars
             PROVE  [Rolling!Next]_Line
  OBVIOUS
<1>1. Positions /\ Positions'
  BY LinePositions, PTL
<1>2. priority' = priority => Line' = Line
  BY DEF Line
<1>3. ASSUME NEW w \in Teams, Award(w) PROVE Rolling!Next
  <2>1. priority[w] \in 1..N
    BY DEF TypeOK, Rankings
  <2> QED
    BY <1>1, <1>3, <2>1, AwardServes DEF Rolling!Next
<1> QED
  BY <1>2, <1>3 DEF Next, Decision, SubmitClaims, BeginRun, Discard, FinishRun, vars

\* The waiver priorities are the rolling list of the rules: winning a claim sends a team
\* to the end of the line, and nothing else ever moves anybody.
THEOREM RollingOrderKept == Spec => KeepsRollingOrder
<1>1. Init => Rolling!Init
  <2>1. TypeOK /\ PriorityIsRanking => Rolling!Init
    <3> SUFFICES ASSUME TypeOK, PriorityIsRanking PROVE Rolling!Init
      OBVIOUS
    <3>1. /\ Line \in [1..N -> Teams]
          /\ \A t \in Teams : priority[t] \in 1..N /\ Line[priority[t]] = t
      BY LinePositions DEF Positions, TypeOK, Rankings
    <3>2. {Line[i] : i \in 1..N} = Teams
      BY <3>1
    <3> QED
      BY <3>1, <3>2 DEF Rolling!Init, Rolling!Lines
  <2> QED
    BY <2>1, RankingInit
<1> QED
  BY <1>1, RollingStep, RankingCorrect, PTL DEF Spec, KeepsRollingOrder, Rolling!Spec
=============================================================================
