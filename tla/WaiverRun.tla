------------------------------ MODULE WaiverRun ------------------------------
(***************************************************************************)
(* One waiver period of services/waivers.py: the teams submit ordered      *)
(* claims while it is open, and process_waivers then decides them all.     *)
(* The run is one transaction that holds the league, team, roster and      *)
(* claim rows, so nothing interleaves with it; a step here is one decision *)
(* of its loop.  The races around the run are not part of this module.     *)
(***************************************************************************)
EXTENDS Naturals, Sequences, FiniteSets

CONSTANTS
    Teams,
    Players,
    Slots,        \* starter slots of a lineup, e.g. QB or RB1
    Fits,         \* is_eligible_for_slot: the pairs <<player, slot>> allowed
    KickedOff,    \* is_player_locked: players whose game has begun at the run's time
    Limit,        \* active roster limit
    Bench,        \* slot_type BENCH
    None,         \* SQL NULL
    Rosters,      \* rosters the period may begin with
    ClaimLists    \* per team, the claim lists it may submit

N == Cardinality(Teams)

Claims == [add : Players, drop : Players \cup {None}]
Unowned == [team |-> None, slot |-> None]
Assignments == [team : Teams, slot : Slots \cup {Bench}] \cup {Unowned}

\* Rosters the lineup and roster services accept: none is overfull, and each
\* starter slot has one player at most, for whom it is.
Legal(r) ==
    \A t \in Teams :
        LET mine == {p \in Players : r[p].team = t}
        IN  /\ Cardinality(mine) <= Limit
            /\ \A p, q \in mine :
                  r[p].slot # Bench =>
                      /\ <<p, r[p].slot>> \in Fits
                      /\ r[q].slot = r[p].slot => p = q

\* A claim never adds the player it drops, submit_claims refuses it.
ASSUME WaiverAssumption ==
    /\ IsFiniteSet(Teams) /\ N \in Nat \ {0} /\ Limit \in Nat
    /\ IsFiniteSet(Players)
    /\ None \notin Teams \cup Players \cup Slots
    /\ Bench \notin Slots \cup {None}
    /\ Rosters \subseteq {r \in [Players -> Assignments] : Legal(r)}
    /\ ClaimLists \in [Teams -> SUBSET Seq({c \in Claims : c.add # c.drop})]

VARIABLES
    period,      \* waiver_periods.status
    claims,      \* each team's claims, in its order of priority
    fate,        \* what became of the first claims of each team
    roster,      \* the roster_assignments rows by player
    priority,    \* team.waiver_priority, 1 chooses first
    line         \* history: the priorities when the run began

vars == <<period, claims, fate, roster, priority, line>>

Fates == {"WON", "LOST", "INVALID"}
Rankings == [Teams -> 1..N]
Ranks(f) == \A t, u \in Teams : f[t] = f[u] => t = u

-----------------------------------------------------------------------------
Pending(t) == Len(fate[t]) < Len(claims[t])
NextClaim(t) == claims[t][Len(fate[t]) + 1]   \* queue[0] of a team with a pending claim

RosterOf(t) == {p \in Players : roster[p].team = t}

\* The conditions of the loop over the heads, for a claim c of team t.
Unavailable(c) == roster[c.add] # Unowned

Executable(t, c) ==
    /\ ~Unavailable(c)
    /\ c.add \notin KickedOff
    /\ IF c.drop = None
       THEN Cardinality(RosterOf(t)) < Limit
       ELSE /\ roster[c.drop].team = t
            /\ c.drop \notin KickedOff
            /\ roster[c.drop].slot # Bench => <<c.add, roster[c.drop].slot>> \in Fits

Decide(t, f) == fate' = [fate EXCEPT ![t] = Append(@, f)]

\* Mutants of Demoted: nobody moves up, and only the last team moves up.
DemotedAlone(w) == [priority EXCEPT ![w] = N]
DemotedBySwap(w) ==
    [t \in Teams |-> IF t = w THEN N
                     ELSE IF priority[t] = N THEN priority[w] ELSE priority[t]]

\* _move_team_to_bottom
Demoted(w) ==
    [t \in Teams |-> IF t = w THEN N
                     ELSE IF priority[t] > priority[w] THEN priority[t] - 1 ELSE priority[t]]
-----------------------------------------------------------------------------
Init ==
    /\ period = "OPEN"
    /\ claims = [t \in Teams |-> <<>>]
    /\ fate = [t \in Teams |-> <<>>]
    /\ roster \in Rosters
    /\ priority \in {f \in Rankings : Ranks(f)}
    /\ line = priority

\* submit_claims: the new list replaces the team's pending claims.
SubmitClaims(t) ==
    /\ period = "OPEN"
    /\ \E list \in ClaimLists[t] : claims' = [claims EXCEPT ![t] = list]
    /\ UNCHANGED <<period, fate, roster, priority, line>>

\* process_waivers takes the period over.
BeginRun ==
    /\ period = "OPEN"
    /\ period' = "PROCESSING"
    /\ line' = priority
    /\ UNCHANGED <<claims, fate, roster, priority>>

\* Mutant of Discard: a claim for an unavailable player is not popped.
DiscardInvalid(t) ==
    /\ period = "PROCESSING"
    /\ Pending(t)
    /\ ~Unavailable(NextClaim(t)) /\ ~Executable(t, NextClaim(t))
    /\ Decide(t, "INVALID")
    /\ UNCHANGED <<period, claims, roster, priority, line>>

\* A head that cannot be executed is decided on the spot and the team's next
\* claim becomes its head.
Discard(t) ==
    /\ period = "PROCESSING"
    /\ Pending(t)
    /\ ~Executable(t, NextClaim(t))
    /\ Decide(t, IF Unavailable(NextClaim(t)) THEN "LOST" ELSE "INVALID")
    /\ UNCHANGED <<period, claims, roster, priority, line>>

\* Once every head is executable the first team in line wins its claim: the
\* dropped starter's slot passes to the added player, and the team goes to
\* the end of the line.
Contenders == {t \in Teams : Pending(t)}
LastOf(w) == w \in Contenders /\ \A t \in Contenders : priority[w] >= priority[t]  \* mutant
First(w) == w \in Contenders /\ \A t \in Contenders : priority[w] <= priority[t]

BenchReplacement(c) == Bench  \* mutant: the starter's slot is left empty
Replacement(c) == IF c.drop = None THEN Bench ELSE roster[c.drop].slot
Award(w) ==
    /\ period = "PROCESSING"
    /\ First(w)
    /\ \A t \in Contenders : Executable(t, NextClaim(t))
    /\ LET c == NextClaim(w)
       IN  roster' = [p \in Players |->
                        CASE p = c.add -> [team |-> w, slot |-> Replacement(c)]
                          [] p = c.drop -> Unowned
                          [] OTHER -> roster[p]]
    /\ Decide(w, "WON")
    /\ priority' = Demoted(w)
    /\ UNCHANGED <<period, claims, line>>

\* No head is left.  The loop that then marks remaining claims as lost finds
\* none: a queue without a head is empty.
FinishRun ==
    /\ period = "PROCESSING"
    /\ Contenders = {}
    /\ period' = "PROCESSED"
    /\ UNCHANGED <<claims, fate, roster, priority, line>>

Decision == (\E t \in Teams : Discard(t) \/ Award(t)) \/ FinishRun
Next == (\E t \in Teams : SubmitClaims(t)) \/ BeginRun \/ Decision

Spec == Init /\ [][Next]_vars

\* The loop runs to its end; the transaction is all or nothing.
FairSpec == Spec /\ WF_vars(Decision)
-----------------------------------------------------------------------------
(* Properties.                                                             *)

TypeOK ==
    /\ period \in {"OPEN", "PROCESSING", "PROCESSED"}
    /\ claims \in [Teams -> Seq(Claims)]
    /\ fate \in [Teams -> Seq(Fates)]
    /\ roster \in [Players -> Assignments]
    /\ priority \in Rankings
    /\ line \in Rankings

\* The waiver priorities are always a ranking 1..N without ties or gaps, after
\* any number of wins, so the first in line is unique.
PriorityIsRanking == Ranks(priority)

\* Columns keep to their values and priorities to a ranking.
RunConsistent == TypeOK /\ PriorityIsRanking

\* No run overfills a roster, puts two players of a team into one starter slot
\* or a player into a slot that is not for his position.
RostersLegal == Legal(roster)

\* A lineup that is complete stays complete: no decision empties or fills a
\* starter slot of any team, only its occupant changes.
SlotsOf(t) == {roster[p].slot : p \in RosterOf(t)} \ {Bench}
LineupsStayComplete == [][\A t \in Teams : SlotsOf(t)' = SlotsOf(t)]_vars

\* A team that loses a player to a team that stood behind it when the run began
\* has already been served in this run.
Outcome(t, f) == {claims[t][i] : i \in {j \in 1..Len(fate[t]) : fate[t][j] = f}}
Served(t) == \E i \in 1..Len(fate[t]) : fate[t][i] = "WON"
ServedInTurn ==
    \A t, u \in Teams :
        line[t] < line[u] /\ ~Served(t) =>
            \A c \in Outcome(t, "LOST"), d \in Outcome(u, "WON") :
                c.add = d.add => \E v \in Teams : \E e \in Outcome(v, "WON") : e.drop = c.add

\* Every award is legal for its roster and in turn.
AwardsSound == RostersLegal /\ ServedInTurn

\* Every run ends, whatever was claimed.
RunEnds == period = "PROCESSING" ~> period = "PROCESSED"
-----------------------------------------------------------------------------
(* What the waiver rules promise.                                          *)

\* The line that the priorities describe.
Line == [i \in 1..N |-> CHOOSE t \in Teams : priority[t] = i]
Rolling == INSTANCE RollingOrder WITH Length <- N, line <- Line

\* The priorities follow the rolling list and nothing else moves them.
KeepsRollingOrder == Rolling!Spec
=============================================================================
