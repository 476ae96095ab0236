------------------------------- MODULE Trades -------------------------------
(***************************************************************************)
(* Trade negotiations of services/trades.py over the rosters.  A request   *)
(* loads the offer and its thread, waits for the league's row lock, and    *)
(* then checks and computes from the rows as they were loaded: Load and    *)
(* the late answers model one such request beside others that need not     *)
(* wait.                                                                   *)
(***************************************************************************)
EXTENDS Rosters

CONSTANTS
    Deals,      \* deals that may be offered: teams, players and own drops
    MaxThreads, \* bound on negotiations
    MaxRounds   \* max_trade_negotiation_rounds

ASSUME TradesAssumption ==
    /\ Deals \subseteq [from : Teams, to : Teams, give : SUBSET Players, get : SUBSET Players,
                       drops : SUBSET Players]
    /\ \A deal \in Deals : deal.from # deal.to /\ deal.give # {} /\ deal.get # {}
    /\ MaxThreads \in Nat /\ MaxRounds \in Nat \ {0}

VARIABLES
    threads,  \* the trade threads in the order they were opened
    offers,   \* the offers of all threads in the order they were made
    past,     \* threads whose expires_at has passed
    loaded    \* the rows a waiting request has loaded, or None

tradeVars == <<threads, offers, past, loaded>>
vars == <<rosterVars, tradeVars>>

PendingStates == {"PROPOSED", "COUNTERED"}
Statuses == PendingStates \cup {"REJECTED", "CANCELLED", "EXPIRED", "PROCESSED"}

\* What a request holds of offer j and its thread.
Rows(j) == [offer |-> j, thread |-> offers[j].thread,
            o |-> offers[j], th |-> threads[offers[j].thread]]
Written(db, held, new) == IF new = held THEN db ELSE new
-----------------------------------------------------------------------------
(* What is asked of an offer.                                              *)

GiverOwns(deal) == deal.give \subseteq RosterOf(deal.from)  \* mutant of Owned
Owned(deal) == deal.give \subseteq RosterOf(deal.from) /\ deal.get \subseteq RosterOf(deal.to)
Droppable(t, drops, deal) ==
    /\ drops \subseteq RosterOf(t) \ (deal.give \cup deal.get)
    /\ \A p \in drops : ~KickedOff(p)

\* _locked_offer: an expired trade is refused, and the refusal rolls its mark back.
InForce(rows) == ~locked /\ ~(rows.thread \in past /\ rows.th.status \in PendingStates)
IsLatest(rows) == rows.o.seq = rows.th.rounds

Answerable(rows) ==
    /\ InForce(rows) /\ IsLatest(rows)
    /\ rows.th.status \in PendingStates
    /\ rows.o.status \in PendingStates
-----------------------------------------------------------------------------
(* Carrying a trade out.                                                   *)

PlayersOf(deal) == deal.give \cup deal.get
Gone(deal, drops) == PlayersOf(deal) \cup deal.drops \cup drops
Incoming(t, deal) == IF t = deal.from THEN deal.get ELSE deal.give

RoomForGiver(deal, drops) ==  \* mutant of Fits: only the proposer is asked
    Cardinality((RosterOf(deal.from) \ Gone(deal, drops)) \cup deal.get) <= Capacity
Fits(deal, drops) ==
    \A t \in {deal.from, deal.to} :
        Cardinality((RosterOf(t) \ Gone(deal, drops)) \cup Incoming(t, deal)) <= Capacity

\* The rosters with the assets exchanged, all on the bench, and the drops free.
Exchanged(deal, drops) ==
    [p \in Players |->
        CASE p \in deal.give -> [team |-> deal.to, slot |-> "BENCH"]
          [] p \in deal.get -> [team |-> deal.from, slot |-> "BENCH"]
          [] p \in deal.drops \cup drops -> None
          [] OTHER -> roster[p]]

NobodyLoses(deal, drops) == {}  \* mutant of LosesStarter
LosesStarter(deal, drops) ==
    {t \in {deal.from, deal.to} : Starters(t) \cap Gone(deal, drops) # {}}

\* _post_trade_lineups: complete lineups that leave players of begun games where
\* they are.  Which of them the code prefers is left open.
Planned(t, deal, drops) ==
    {lineup \in Lineups :
        /\ Legal(lineup, (RosterOf(t) \ Gone(deal, drops)) \cup Incoming(t, deal))
        /\ \A p \in RosterOf(t) \ Gone(deal, drops) : KickedOff(p) =>
              \/ roster[p].slot # "BENCH" /\ lineup[roster[p].slot] = p
              \/ roster[p].slot = "BENCH" /\ \A slot \in Slots : lineup[slot] # p}

Transfers(j, deal) ==
    {Record(<<"trade", j, p>>, "TRADE", IF p \in deal.give THEN deal.to ELSE deal.from, p, week) :
        p \in PlayersOf(deal)}
TransfersOnly(j, deal, drops) == Transfers(j, deal)  \* mutant of TradeRecords
TradeRecords(j, deal, drops) ==
    Transfers(j, deal)
        \cup {Record(<<"trade", j, p>>, "DROP", roster[p].team, p, week) : p \in deal.drops \cup drops}

\* accept_trade
Accept(rows, drops) ==
    LET deal == rows.o.deal
    IN  /\ Answerable(rows)
        /\ Owned(deal)
        /\ \A p \in PlayersOf(deal) : ~KickedOff(p)
        /\ Droppable(deal.from, deal.drops, deal)
        /\ Droppable(deal.to, drops, deal)
        /\ Fits(deal, drops)
        /\ \E plan \in [LosesStarter(deal, drops) -> Lineups] :
              /\ \A t \in DOMAIN plan : plan[t] \in Planned(t, deal, drops)
              /\ LET giver == IF deal.from \in DOMAIN plan
                              THEN Fielded(Exchanged(deal, drops), deal.from, plan[deal.from])
                              ELSE Exchanged(deal, drops)
                 IN  roster' = IF deal.to \in DOMAIN plan
                               THEN Fielded(giver, deal.to, plan[deal.to]) ELSE giver
              /\ decided' = [t \in Teams |->
                                IF t \in DOMAIN plan THEN [decided[t] EXCEPT ![week] = plan[t]]
                                                     ELSE decided[t]]
        /\ LET records == TradeRecords(rows.offer, deal, drops)
           IN  /\ \A rec \in records : Recordable(rec)
               /\ log' = log \o SetToSeq({rec \in records : ~Known(rec.key)})
        /\ offers' = [offers EXCEPT ![rows.offer].status = "ACCEPTED"]
        /\ threads' = [threads EXCEPT ![rows.thread].status = "PROCESSED"]
        /\ RowsGo
-----------------------------------------------------------------------------
(* Negotiation.                                                            *)

\* _new_offer and what propose_trade and counter_trade check of it.
Offer(i, deal, seq, status) == [thread |-> i, deal |-> deal, seq |-> seq, status |-> status]
Offerable(deal) == Owned(deal) /\ Droppable(deal.from, deal.drops, deal)

Propose(deal, expires) ==
    /\ ~locked /\ Len(threads) < MaxThreads
    /\ Offerable(deal)
    /\ threads' = Append(threads, [status |-> "PROPOSED", rounds |-> 1, expires |-> expires])
    /\ offers' = Append(offers, Offer(Len(threads) + 1, deal, 1, "PROPOSED"))
    /\ UNCHANGED <<roster, decided, log, waiting>>

RoundsLeft(rows) == rows.th.rounds < MaxRounds

TheOtherWay(rows, deal) == deal.from = rows.o.deal.to /\ deal.to = rows.o.deal.from

Counter(rows, deal) ==
    /\ Answerable(rows)
    /\ RoundsLeft(rows)
    /\ TheOtherWay(rows, deal)
    /\ Offerable(deal)
    /\ threads' = [threads EXCEPT
                      ![rows.thread].status = Written(@, rows.th.status, "COUNTERED"),
                      ![rows.thread].rounds = rows.th.rounds + 1]
    /\ offers' = Append([offers EXCEPT ![rows.offer].status =
                                        Written(@, rows.o.status, "COUNTERED")],
                        Offer(rows.thread, deal, rows.th.rounds + 1, "COUNTERED"))
    /\ UNCHANGED <<roster, decided, log, waiting>>

\* reject_trade and cancel_trade ask the thread's status only.
Withdraw(rows, status) ==
    /\ InForce(rows) /\ IsLatest(rows)
    /\ rows.th.status \in PendingStates
    /\ offers' = [offers EXCEPT ![rows.offer].status = status]
    /\ threads' = [threads EXCEPT ![rows.thread].status = status]
    /\ UNCHANGED <<roster, decided, log, waiting>>

Answer(rows) ==
    \/ \E drops \in SUBSET RosterOf(rows.o.deal.to) : Accept(rows, drops)
    \/ \E deal \in Deals : Counter(rows, deal)
    \/ \E status \in {"REJECTED", "CANCELLED"} : Withdraw(rows, status)

\* A request that waits for the lock with its rows loaded.  Bound: one request of the
\* two kinds, an answer or one of Rosters, waits at a time.
NobodyWaits == loaded = None /\ waiting = None

Load ==
    /\ \E j \in DOMAIN offers : Answerable(Rows(j)) /\ loaded' = Rows(j)
    /\ UNCHANGED <<roster, decided, log, clock, waiting, threads, offers, past>>

LateAnswer ==
    /\ loaded # None
    /\ Answer(loaded)
    /\ loaded' = None
    /\ UNCHANGED <<clock, past, moves>>

\* It is refused, or the client has gone; whatever it wrote is rolled back.
LateRefusal ==
    /\ loaded # None \/ waiting # None
    /\ loaded' = None /\ waiting' = None
    /\ UNCHANGED <<roster, decided, log, clock, moves, threads, offers, past>>

PromptAnswer ==
    /\ \E j \in DOMAIN offers : Answer(Rows(j))
    /\ UNCHANGED <<clock, past, loaded>>

\* expire_trades, called by every tick of the scheduler.
OverdueProposal(i) == i \in past /\ threads[i].status = "PROPOSED"  \* mutant of Overdue
Overdue(i) == i \in past /\ threads[i].status \in PendingStates
ExpireTrades ==
    /\ ~locked
    /\ \E i \in DOMAIN threads : Overdue(i)
    /\ threads' = [i \in DOMAIN threads |->
                      IF Overdue(i) THEN [threads[i] EXCEPT !.status = "EXPIRED"] ELSE threads[i]]
    /\ offers' = [j \in DOMAIN offers |->
                     IF Overdue(offers[j].thread) /\ offers[j].status \in PendingStates
                     THEN [offers[j] EXCEPT !.status = "EXPIRED"] ELSE offers[j]]
    /\ UNCHANGED <<rosterVars, past, loaded>>

DeadlinePasses ==
    /\ \E i \in DOMAIN threads : threads[i].expires /\ i \notin past /\ past' = past \cup {i}
    /\ UNCHANGED <<rosterVars, threads, offers, loaded>>
-----------------------------------------------------------------------------
Init ==
    /\ RosterInit
    /\ threads = <<>> /\ offers = <<>> /\ past = {} /\ loaded = None

Move ==
    /\ CountMove
    /\ \/ RosterStep /\ UNCHANGED tradeVars
       \/ \E deal \in Deals, expires \in BOOLEAN :
             Propose(deal, expires) /\ UNCHANGED <<clock, past, loaded>>
       \/ PromptAnswer
       \/ NobodyWaits /\ Load
       \/ NobodyWaits /\ Ask /\ UNCHANGED tradeVars

\* Bound: once the last operation is over, only the lock still changes.
TimeMatters == moves < MaxMoves \/ ~NobodyWaits

Next ==
    \/ Move
    \/ LateStep /\ UNCHANGED <<moves, tradeVars>>
    \/ LateAnswer \/ LateRefusal
    \/ ClockStep /\ (TimeMatters \/ UNCHANGED <<kicked, week, open>>) /\ UNCHANGED <<moves, tradeVars>>
    \/ DeadlinePasses \/ ExpireTrades

Spec == Init /\ [][Next]_vars
FairSpec == Spec /\ WF_vars(ExpireTrades)
-----------------------------------------------------------------------------
(* Properties.                                                             *)

\* Every column keeps to its values, and no negotiation exceeds its rounds even when
\* two answers build on the same round.
PartialLineups == UNION {[slots -> Players] : slots \in SUBSET Slots}
TypeOK ==
    /\ roster \in [Players -> Assignments \cup {None}]
    /\ decided \in [Teams -> [Weeks -> PartialLineups \cup {None}]]
    /\ \A i \in DOMAIN log :
          /\ log[i].type \in {"FREE_AGENT_ADD", "DROP", "COMMISSIONER_DROP", "TRADE"}
          /\ log[i].team \in Teams /\ log[i].player \in Players /\ log[i].week \in Weeks
    /\ kicked \subseteq {Game[p] : p \in Players}
    /\ week \in Weeks /\ open \in BOOLEAN /\ locked \in BOOLEAN
    /\ waiting \in Waits \cup {None}
    /\ \A i \in DOMAIN threads : threads[i].status \in Statuses /\ threads[i].rounds \in 1..MaxRounds
    /\ \A j \in DOMAIN offers :
          /\ offers[j].status \in Statuses \cup {"ACCEPTED"}
          /\ offers[j].deal \in Deals
          /\ offers[j].seq \in 1..MaxRounds

\* No roster exceeds its places and every starter holds a slot of their own that
\* they are eligible for, through lineups, adds, drops and trades in any order.
RostersLegal == Lawful(roster)

\* In a negotiation every offer answers one of the other side.
SidesAlternate ==
    \A j \in DOMAIN offers : offers[j].seq > 1 =>
        \E i \in 1..j - 1 :
            /\ offers[i].thread = offers[j].thread
            /\ offers[i].seq = offers[j].seq - 1
            /\ offers[i].deal.to = offers[j].deal.from
            /\ offers[i].deal.from = offers[j].deal.to

\* Rows keep to their values, rosters to the rules and negotiations to turns.
TradesConsistent == TypeOK /\ RostersLegal /\ SidesAlternate

\* A complete lineup stays complete: no add, drop or trade leaves a slot empty, except
\* the drop of a player who became a starter while it waited.
Complete(t) == {roster[p].slot : p \in Starters(t)} = Slots
DropsStarter(t) ==
    /\ waiting # None /\ waiting' = None /\ waiting.for = "drop"
    /\ waiting.player \in Starters(t) /\ roster'[waiting.player] = None
LineupsStayComplete ==
    [][\A t \in Teams : Complete(t) => Complete(t)' \/ DropsStarter(t)]_vars

\* From kickoff to the end of the week a player keeps their team and place, and
\* free agents stay free.
KickedOffStay == [][\A p \in Players : KickedOff(p) => roster'[p] = roster[p]]_vars

\* The lineup that scores, the week's latest decision, is the lineup on the rosters,
\* through every repair and replacement.  Only a lineup set for another week, by
\* request or because a manager answered late, and the drop of such a starter part them.
InSync(t) ==
    /\ decided[t][week] = None \/ Range(decided[t][week]) = Starters(t)
    /\ \A w \in Weeks : w > week => decided[t][w] = None
ScoredAsFielded ==
    [][\A t \in Teams : InSync(t) =>
          \/ InSync(t)'
          \/ \E w \in Weeks \ {week} : decided'[t][w] = Current(roster', t)
          \/ DropsStarter(t)]_vars

\* Lineups hold against every roster move: complete, kept from kickoff on, and scored
\* as they are fielded.
LineupsHold == LineupsStayComplete /\ KickedOffStay /\ ScoredAsFielded

\* A trade moves all of its players or none, from owners that still have them, and
\* nobody else but the two teams' own drops; and only an accepted offer moves a
\* player from team to team.  A request that has waited since its offer was open may
\* carry out an offer that was accepted meanwhile, if its players are back.
Repeats(j) ==
    /\ loaded # None /\ loaded' = None /\ roster' # roster
    /\ loaded.offer = j
CarriedOut(j) ==
    offers'[j].status = "ACCEPTED" /\ (offers[j].status # "ACCEPTED" \/ Repeats(j))
Moves(p, t, u) == roster[p] # None /\ roster[p].team = t /\ roster'[p] # None /\ roster'[p].team = u
TradesAreExact ==
    [][/\ \A j \in DOMAIN offers : CarriedOut(j) =>
             LET deal == offers[j].deal
             IN  /\ \A p \in deal.give : Moves(p, deal.from, deal.to)
                 /\ \A p \in deal.get : Moves(p, deal.to, deal.from)
                 /\ \A p \in RosterOf(deal.from) \ PlayersOf(deal) :
                       roster'[p] = None <=> p \in deal.drops
       /\ \A p \in Players, t, u \in Teams : t # u /\ Moves(p, t, u) =>
             \E j \in DOMAIN offers : CarriedOut(j) /\ p \in PlayersOf(offers[j].deal)]_vars

\* Who owns a player, and who does by a record and by the last one.
Owner(p) == IF roster[p] = None THEN None ELSE roster[p].team
OwnerBy(rec) == IF rec.type \in {"DROP", "COMMISSIONER_DROP"} THEN None ELSE rec.team
DraftedBy(p) == IF Drafted[p] = None THEN None ELSE Drafted[p].team
About(p) == {i \in DOMAIN log : log[i].player = p}
OwnerOnRecord(p) == IF About(p) = {} THEN DraftedBy(p) ELSE OwnerBy(log[Max(About(p))])

\* Every owner was drafted or is on some record, and a key adds one player once.
OwnersOnRecord ==
    \A p \in Players : Owner(p) = DraftedBy(p) \/ \E i \in About(p) : OwnerBy(log[i]) = Owner(p)
AddedOnce ==
    \A i, j \in DOMAIN log :
        log[i].type = "FREE_AGENT_ADD" /\ log[j].key = log[i].key => i = j

\* A request may do once more, without a record, what a record of its key says was
\* done: a forced drop, a trade, or an add that looked before the first was recorded.
Repeated(p) ==
    \E i \in About(p) :
        /\ OwnerBy(log[i]) = Owner(p)'
        /\ \/ log[i].type = "COMMISSIONER_DROP"
           \/ \E j \in DOMAIN offers : log[i].key = <<"trade", j, p>>
           \/ waiting # None /\ waiting' = None /\ waiting.for = "add" /\ log[i].key[1] = waiting.key
\* A drop may log a player whose row was gone.
DropsNobody(p) ==
    waiting # None /\ waiting' = None /\ waiting.for = "drop" /\ waiting.player = p /\ ~waiting.there

\* The log explains the rosters: a player whose last record names the owner, or of whom
\* a step writes a record, is owned by whom the last record names, but for the requests
\* that repeat a used key or drop a row that was gone.
RecordsSound ==
    /\ [](OwnersOnRecord /\ AddedOnce)
    /\ [][\A p \in Players :
             OwnerOnRecord(p) = Owner(p) \/ About(p)' # About(p) =>
                 OwnerOnRecord(p)' = Owner(p)' \/ Repeated(p) \/ DropsNobody(p)]_vars

\* A negotiation does not stay open past its deadline, though a refused answer's
\* own mark is rolled back, unless the league is locked again and again.
ExpiredAreMarked ==
    \A i \in 1..MaxThreads :
        []<>~(i \in past /\ threads[i].status \in PendingStates) \/ []<>locked
=============================================================================
