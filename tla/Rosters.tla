------------------------------ MODULE Rosters ------------------------------
(***************************************************************************)
(* Rosters and lineups during the season: lineups, free agents, drops, and *)
(* the audit records that answer a repeated request.  The game of a player *)
(* kicks off and from then to the end of the week nobody may move them.    *)
(* Each action is one committed transaction, except that an add looks its  *)
(* key up and a drop loads its row before they wait for the league's row   *)
(* lock: one such request may wait beside the others.  Waiver awards are   *)
(* WaiverRun's subject, and no operation of the application uses injured   *)
(* reserve.                                                                *)
(***************************************************************************)
EXTENDS Naturals, Sequences, FiniteSets, SequencesExt

CONSTANTS
    Teams, Players, Slots,
    Position,      \* position of each player
    SlotPosition,  \* position of each starter slot, or "FLEX"
    FlexEligible,  \* positions a flex slot takes
    Bench,         \* bench places
    Game,          \* this week's NFL game of each player's team
    Keys,          \* idempotency keys of requests
    Drafted,       \* the rosters the season begins with
    None,
    MaxWeek, MaxMoves  \* bounds on weeks and on operations

Weeks == 1..MaxWeek
Assignments == [team : Teams, slot : Slots \cup {"BENCH"}]

Capacity == Cardinality(Slots) + Bench

Eligible(p, slot) ==
    IF SlotPosition[slot] = "FLEX" THEN Position[p] \in FlexEligible
                                   ELSE Position[p] = SlotPosition[slot]

\* The rules of a roster, of all teams in r: no more players than places, and
\* every starter eligible in a slot of their own.
Lawful(r) ==
    \A t \in Teams :
        LET mine == {p \in Players : r[p] # None /\ r[p].team = t}
            starters == {p \in mine : r[p].slot # "BENCH"}
        IN  /\ Cardinality(mine) <= Capacity
            /\ \A p \in starters : /\ Eligible(p, r[p].slot)
                                   /\ \A q \in starters \ {p} : r[p].slot # r[q].slot

ASSUME RostersAssumption ==
    /\ IsFiniteSet(Players) /\ IsFiniteSet(Slots) /\ Bench \in Nat
    /\ Drafted \in [Players -> Assignments \cup {None}] /\ Lawful(Drafted)
    /\ None \notin Assignments \cup Teams \cup Players
    /\ "BENCH" \notin Slots
    /\ MaxWeek \in Nat \ {0} /\ MaxMoves \in Nat

VARIABLES
    roster,   \* the assignment of each player, None for a free agent
    decided,  \* the latest lineup decision of a team for a week
    log,      \* transactions in the order of their commits
    kicked,   \* games that have kicked off this week
    week,     \* league.current_week
    open,     \* the week's waiver period is not processed
    locked,   \* league.locked
    waiting,  \* what a request found before it waits for the lock, or None
    moves     \* operations begun so far

clock == <<kicked, week, open, locked>>
rosterVars == <<roster, decided, log, clock, waiting, moves>>

Lineups == [Slots -> Players]
Waits == [for : {"add"}, key : Keys, week : Weeks]
    \cup [for : {"drop"}, team : Teams, player : Players, week : Weeks, there : BOOLEAN]
-----------------------------------------------------------------------------
FreeAgents == {p \in Players : roster[p] = None}
RosterOf(t) == {p \in Players : roster[p] # None /\ roster[p].team = t}
Starters(t) == {p \in RosterOf(t) : roster[p].slot # "BENCH"}

KickedOff(p) == Game[p] \in kicked

\* A complete lineup of eligible players out of the set ps.
Legal(lineup, ps) ==
    /\ IsInjective(lineup)
    /\ \A slot \in Slots : lineup[slot] \in ps /\ Eligible(lineup[slot], slot)

\* The assignments of team t once its lineup is set, in the rosters r.
Fielded(r, t, lineup) ==
    [p \in Players |->
        IF r[p] = None \/ r[p].team # t THEN r[p]
        ELSE [team |-> t, slot |-> IF \E slot \in Slots : lineup[slot] = p
                                   THEN CHOOSE slot \in Slots : lineup[slot] = p
                                   ELSE "BENCH"]]

\* record_current_lineup, in the rosters r: a partial lineup when slots are empty.
Current(r, t) ==
    [slot \in {s \in Slots : \E p \in Players : r[p] = [team |-> t, slot |-> s]} |->
        CHOOSE p \in Players : r[p] = [team |-> t, slot |-> slot]]

\* create_transaction: a known key needs the same record and adds none.  The other
\* player of an add and drop is part of its details.
RecordWith(key, type, t, p, w, other) ==
    [key |-> key, type |-> type, team |-> t, player |-> p, week |-> w, other |-> other]
Record(key, type, t, p, w) == RecordWith(key, type, t, p, w, None)
Known(key) == \E i \in DOMAIN log : log[i].key = key
Recordable(rec) == Known(rec.key) => \E i \in DOMAIN log : log[i] = rec
Logged(rec) == IF Known(rec.key) THEN log ELSE Append(log, rec)

CountMove == moves < MaxMoves /\ moves' = moves + 1

\* A waiting drop deletes its row by id: once the player is nobody's the row is gone,
\* and a later row of the player is another one.
RowsGo ==
    waiting' = IF waiting # None /\ waiting.for = "drop" /\ roster'[waiting.player] = None
               THEN [waiting EXCEPT !.there = FALSE] ELSE waiting
-----------------------------------------------------------------------------
RosterInit ==
    /\ roster = Drafted
    /\ decided = [t \in Teams |-> [w \in Weeks |-> None]]
    /\ log = <<>>
    /\ kicked = {} /\ week = 1 /\ open = TRUE /\ locked = FALSE
    /\ waiting = None /\ moves = 0

\* validate_lineup and set_lineup, by the commissioner for any week or by a manager
\* whose answer may come after its week.  Kickoffs are those of the current week.
SetLineup(t, lineup, w) ==
    /\ ~locked
    /\ Legal(lineup, RosterOf(t))
    /\ roster' = Fielded(roster, t, lineup)
    /\ \A p \in RosterOf(t) : KickedOff(p) => roster'[p] = roster[p]
    /\ decided' = [decided EXCEPT ![t][w] = lineup]
    /\ UNCHANGED <<log, clock, waiting>>

\* What add_free_agent does under the lock, with d = None or a player to drop, whose
\* starter slot the added player takes over.
RoomFor(t, d) == Cardinality(RosterOf(t) \ {d}) < Capacity

Inherited(d) == IF d = None THEN "BENCH" ELSE roster[d].slot

DecidedAnew(t, w, slot) ==
    IF slot = "BENCH" THEN decided ELSE [decided EXCEPT ![t][w] = Current(roster', t)]

NewRequest(k) == ~Known(<<k, "add">>)

AddRecords(k, t, p, d, w) ==
    LET added == RecordWith(<<k, "add">>, "FREE_AGENT_ADD", t, p, w, d)
        dropped == RecordWith(<<k, "drop">>, "DROP", t, d, w, p)
    IN  IF d = None THEN <<added>> ELSE <<dropped, added>>

Add(k, t, p, d, w) ==
    /\ p \in FreeAgents
    /\ d \in RosterOf(t) \cup {None}
    /\ RoomFor(t, d)
    /\ ~KickedOff(p)
    /\ d # None => ~KickedOff(d) /\ (Inherited(d) # "BENCH" => Eligible(p, Inherited(d)))
    /\ roster' = [q \in Players |-> IF q = p THEN [team |-> t, slot |-> Inherited(d)]
                                    ELSE IF q = d THEN None ELSE roster[q]]
    /\ decided' = DecidedAnew(t, w, Inherited(d))
    /\ LET records == AddRecords(k, t, p, d, w)
       IN  /\ \A i \in DOMAIN records : Recordable(records[i])
           /\ log' = IF NewRequest(k) THEN log \o records ELSE log
    /\ UNCHANGED clock

\* add_free_agent at once.  The manager of a review names a week that may have passed.
\* A request whose key is used is answered with the player's row, or refused when the
\* player is gone, and changes nothing.
AddFreeAgent(k, t, p, d, w, bypass) ==
    /\ NewRequest(k)
    /\ ~locked
    /\ open => bypass
    /\ Add(k, t, p, d, w)
    /\ RowsGo

\* force_drop: the player goes before the key is looked up, so a repeated request
\* drops a player that came back and finds the record of the first drop.
LogDrop(k, t, p) ==
    LET rec == Record(<<k, "forced">>, "COMMISSIONER_DROP", t, p, week)
    IN  Recordable(rec) /\ log' = Logged(rec)

ForceDrop(k, t, p) ==
    /\ ~locked
    /\ p \in RosterOf(t)
    /\ ~KickedOff(p)
    /\ roster[p].slot = "BENCH"
    /\ LogDrop(k, t, p)
    /\ roster' = [roster EXCEPT ![p] = None]
    /\ RowsGo
    /\ UNCHANGED <<decided, clock>>

\* A request that waits: an add whose key was new when it looked, or a drop with the
\* row of a bench player.  Its copy of the league says unlocked to the end.
AskAdd(k) ==
    /\ ~locked /\ NewRequest(k)
    /\ waiting' = [for |-> "add", key |-> k, week |-> week]

AskDrop(t, p) ==
    /\ ~locked
    /\ p \in RosterOf(t) /\ roster[p].slot = "BENCH" /\ ~KickedOff(p)
    /\ waiting' = [for |-> "drop", team |-> t, player |-> p, week |-> week, there |-> TRUE]

Ask ==
    /\ \/ \E k \in Keys : AskAdd(k)
       \/ \E t \in Teams, p \in Players : AskDrop(t, p)
    /\ UNCHANGED <<roster, decided, log, clock>>

\* It goes on with what it found.  Kickoffs are those of its week: once that is over,
\* it is refused.
LateAdd(t, p, d) ==
    /\ waiting # None /\ waiting.for = "add" /\ waiting.week = week
    /\ Add(waiting.key, t, p, d, week)
    /\ waiting' = None

\* Neither the team nor the slot of the player is read again, and a row that is gone is
\* deleted once more without an error.
LateDrop(k) ==
    /\ waiting # None /\ waiting.for = "drop" /\ waiting.week = week
    /\ ~KickedOff(waiting.player)
    /\ LogDrop(k, waiting.team, waiting.player)
    /\ roster' = IF waiting.there THEN [roster EXCEPT ![waiting.player] = None] ELSE roster
    /\ waiting' = None
    /\ UNCHANGED <<decided, clock>>

RosterStep ==
    \/ \E t \in Teams, lineup \in Lineups, w \in Weeks : SetLineup(t, lineup, w)
    \/ \E k \in Keys, t \in Teams, p \in Players, d \in Players \cup {None} :
          \/ \E w \in 1..week : AddFreeAgent(k, t, p, d, w, FALSE)
          \/ AddFreeAgent(k, t, p, d, week, TRUE)
    \/ \E k \in Keys, t \in Teams, p \in Players : ForceDrop(k, t, p)

LateStep ==
    \/ \E t \in Teams, p \in Players, d \in Players \cup {None} : LateAdd(t, p, d)
    \/ \E k \in Keys : LateDrop(k)
-----------------------------------------------------------------------------
(* Time and the commissioner's lock.                                       *)
Kickoff ==
    /\ \E g \in {Game[p] : p \in Players} \ kicked : kicked' = kicked \cup {g}
    /\ UNCHANGED <<week, open, locked>>

\* process_waivers clears the period; its awards are left to WaiverRun.
WaiversClear == ~locked /\ open' = FALSE /\ UNCHANGED <<kicked, week, locked>>

NextWeek ==
    /\ ~locked /\ week < MaxWeek
    /\ week' = week + 1 /\ kicked' = {} /\ open' = TRUE
    /\ UNCHANGED locked

SetLock == locked' = ~locked /\ UNCHANGED <<kicked, week, open>>

ClockStep ==
    (Kickoff \/ WaiversClear \/ NextWeek \/ SetLock) /\ UNCHANGED <<roster, decided, log, waiting>>
=============================================================================
