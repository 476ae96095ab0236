---------------------------- MODULE TradesProofs ----------------------------
(***************************************************************************)
(* Theorems about Trades, and with it about Rosters, for every league,     *)
(* deal and schedule of games.                                             *)
(***************************************************************************)
EXTENDS Trades, FiniteSetTheorems, SequenceTheorems, TLAPS

Threads == [status : Statuses, rounds : 1..MaxRounds, expires : BOOLEAN]
OfferRows == [thread : Nat, deal : Deals, seq : 1..MaxRounds, status : Statuses \cup {"ACCEPTED"}]
LogKeys == (Keys \X {"add", "drop", "forced"}) \cup ({"trade"} \X Nat \X Players)
LogRows == [key : LogKeys, type : {"FREE_AGENT_ADD", "DROP", "COMMISSIONER_DROP", "TRADE"},
            team : Teams, player : Players, week : Weeks, other : Players \cup {None}]

\* What stays true of the rows a request holds, however long it waits.
Held(rows) ==
    /\ rows.offer \in DOMAIN offers /\ rows.thread \in DOMAIN threads
    /\ rows.thread = offers[rows.offer].thread
    /\ rows.o.deal = offers[rows.offer].deal /\ rows.o.seq = offers[rows.offer].seq
    /\ rows.o.status \in Statuses \cup {"ACCEPTED"}
    /\ rows.th.status \in Statuses /\ rows.th.rounds \in 1..MaxRounds

RosterTypes ==
    /\ roster \in [Players -> Assignments \cup {None}]
    /\ decided \in [Teams -> [Weeks -> PartialLineups \cup {None}]]
    /\ log \in Seq(LogRows)
    /\ kicked \subseteq {Game[p] : p \in Players}
    /\ week \in Weeks /\ open \in BOOLEAN /\ locked \in BOOLEAN

TradeTypes ==
    /\ threads \in Seq(Threads) /\ offers \in Seq(OfferRows)
    /\ \A j \in DOMAIN offers : offers[j].thread \in DOMAIN threads
    /\ loaded # None => Held(loaded)

WaitTypes == waiting \in Waits \cup {None}

RowsInv == RosterTypes /\ TradeTypes /\ WaitTypes

LEMMA RowsTyped == RowsInv => TypeOK
<1> SUFFICES ASSUME RowsInv PROVE TypeOK
  OBVIOUS
<1>1. \A i \in DOMAIN log : log[i] \in LogRows
  BY DEF RowsInv, RosterTypes
<1>2. \A i \in DOMAIN threads : threads[i] \in Threads
  BY DEF RowsInv, TradeTypes
<1>3. \A j \in DOMAIN offers : offers[j] \in OfferRows
  BY DEF RowsInv, TradeTypes
<1> QED
  BY <1>1, <1>2, <1>3 DEF RowsInv, RosterTypes, WaitTypes, TypeOK, Threads, OfferRows, LogRows
-----------------------------------------------------------------------------
(* Rosters with a lineup.                                                  *)

RosterIn(r, t) == {p \in Players : r[p] # None /\ r[p].team = t}
StartersIn(r, t) == {p \in RosterIn(r, t) : r[p].slot # "BENCH"}
LawfulFor(r, t) ==
    /\ Cardinality(RosterIn(r, t)) <= Capacity
    /\ \A p \in StartersIn(r, t) :
          /\ Eligible(p, r[p].slot)
          /\ \A q \in StartersIn(r, t) \ {p} : r[p].slot # r[q].slot

LEMMA LawfulTeams == ASSUME NEW r PROVE Lawful(r) <=> \A t \in Teams : LawfulFor(r, t)
BY DEF Lawful, LawfulFor, StartersIn, RosterIn

LEMMA RosterNow == /\ \A t : RosterOf(t) = RosterIn(roster, t) /\ Starters(t) = StartersIn(roster, t)
                   /\ RostersLegal <=> \A t \in Teams : LawfulFor(roster, t)
BY LawfulTeams DEF RosterOf, RosterIn, Starters, StartersIn, RostersLegal

\* The players of team t in r stand where the lineup puts them.
FieldedAs(r, t, lineup) ==
    \A p \in RosterIn(r, t) :
        /\ \A slot \in Slots : lineup[slot] = p => r[p].slot = slot
        /\ (\A slot \in Slots : lineup[slot] # p) => r[p].slot = "BENCH"

\* Setting a lineup moves nobody to another team and only players of its team.
LEMMA FieldedEffect ==
    ASSUME NEW r \in [Players -> Assignments \cup {None}], NEW t \in Teams,
           NEW lineup \in Lineups, IsInjective(lineup)
    PROVE  LET f == Fielded(r, t, lineup)
           IN  /\ f \in [Players -> Assignments \cup {None}]
               /\ \A p \in Players : f[p] = None <=> r[p] = None
               /\ \A p \in Players : r[p] # None => f[p].team = r[p].team
               /\ \A p \in Players : r[p] = None \/ r[p].team # t => f[p] = r[p]
               /\ FieldedAs(f, t, lineup)
<1> DEFINE f == Fielded(r, t, lineup)
<1>1. \A p \in Players : (\E slot \in Slots : lineup[slot] = p) =>
         /\ (CHOOSE slot \in Slots : lineup[slot] = p) \in Slots
         /\ \A slot \in Slots : lineup[slot] = p => slot = CHOOSE s \in Slots : lineup[s] = p
  BY DEF IsInjective, Lineups
<1>2. None \notin Assignments
  BY RostersAssumption
<1>3. \A p \in Players : f[p] \in Assignments \cup {None} /\ (f[p] = None <=> r[p] = None)
  BY <1>1, <1>2 DEF Fielded, Assignments
<1>4. \A p \in Players : r[p] # None => f[p].team = r[p].team
  BY DEF Fielded
<1>5. \A p \in Players : r[p] = None \/ r[p].team # t => f[p] = r[p]
  BY DEF Fielded
<1>6. FieldedAs(f, t, lineup)
  <2> SUFFICES ASSUME NEW p \in Players, r[p] # None, r[p].team = t
               PROVE  /\ \A slot \in Slots : lineup[slot] = p => f[p].slot = slot
                      /\ (\A slot \in Slots : lineup[slot] # p) => f[p].slot = "BENCH"
    BY <1>3, <1>4 DEF FieldedAs, RosterIn
  <2> QED
    BY <1>1 DEF Fielded
<1>7. f = [p \in Players |-> f[p]]
  BY DEF Fielded
<1> QED
  BY <1>3, <1>4, <1>5, <1>6, <1>7

\* A complete lineup keeps the rules, fills every slot and can be read off the rosters.
LEMMA FieldedLawfully ==
    ASSUME NEW r \in [Players -> Assignments \cup {None}], NEW t \in Teams,
           NEW lineup \in Lineups, Legal(lineup, RosterIn(r, t)), FieldedAs(r, t, lineup)
    PROVE  /\ \A p \in StartersIn(r, t) :
                 /\ Eligible(p, r[p].slot)
                 /\ \A q \in StartersIn(r, t) \ {p} : r[p].slot # r[q].slot
           /\ StartersIn(r, t) = {lineup[slot] : slot \in Slots}
           /\ {r[p].slot : p \in StartersIn(r, t)} = Slots
           /\ Current(r, t) = lineup
<1>1. \A slot \in Slots : lineup[slot] \in RosterIn(r, t) /\ r[lineup[slot]].slot = slot
  BY DEF Legal, FieldedAs
<1>2. \A p \in StartersIn(r, t) : r[p].slot \in Slots /\ lineup[r[p].slot] = p
  BY <1>1 DEF StartersIn, FieldedAs
<1>3. \A slot \in Slots : slot # "BENCH"
  BY RostersAssumption
<1>4. StartersIn(r, t) = {lineup[slot] : slot \in Slots}
  BY <1>1, <1>2, <1>3 DEF StartersIn
<1>5. {r[p].slot : p \in StartersIn(r, t)} = Slots
  BY <1>1, <1>2, <1>3 DEF StartersIn
<1>6. \A p \in StartersIn(r, t) : Eligible(p, r[p].slot)
  BY <1>2 DEF Legal
<1>7. Current(r, t) = lineup
  <2>1. \A p \in Players, s \in Slots : r[p] = [team |-> t, slot |-> s] <=> p = lineup[s]
    <3> SUFFICES ASSUME NEW p \in Players, NEW s \in Slots
                 PROVE  r[p] = [team |-> t, slot |-> s] <=> p = lineup[s]
      OBVIOUS
    <3>1. ASSUME r[p] = [team |-> t, slot |-> s] PROVE p = lineup[s]
      <4>1. p \in StartersIn(r, t)
        BY <1>3, <3>1, RostersAssumption DEF StartersIn, RosterIn, Assignments
      <4> QED
        BY <1>2, <3>1, <4>1
    <3>2. ASSUME p = lineup[s] PROVE r[p] = [team |-> t, slot |-> s]
      <4>1. r[p] # None /\ r[p].team = t /\ r[p].slot = s
        BY <1>1, <3>2 DEF RosterIn
      <4> QED
        BY <4>1 DEF Assignments
    <3> QED
      BY <3>1, <3>2
  <2>2. {s \in Slots : \E p \in Players : r[p] = [team |-> t, slot |-> s]} = Slots
    BY <1>1, <2>1 DEF RosterIn
  <2>3. \A s \in Slots : (CHOOSE p \in Players : r[p] = [team |-> t, slot |-> s]) = lineup[s]
    BY <1>1, <2>1 DEF RosterIn
  <2> QED
    BY <2>2, <2>3 DEF Current, Lineups
<1> QED
  BY <1>2, <1>4, <1>5, <1>6, <1>7

\* Whoever stands as before keeps the rules as before.
LEMMA SameRules ==
    ASSUME NEW r, NEW s, NEW t, RosterIn(s, t) = RosterIn(r, t),
           \A p \in RosterIn(r, t) : s[p] = r[p]
    PROVE  StartersIn(s, t) = StartersIn(r, t) /\ (LawfulFor(s, t) <=> LawfulFor(r, t))
<1>1. StartersIn(s, t) = StartersIn(r, t) /\ \A p \in StartersIn(r, t) : s[p] = r[p]
  BY DEF StartersIn
<1> QED
  BY <1>1 DEF LawfulFor

LEMMA RosterFinite ==
    ASSUME NEW r, NEW t
    PROVE  RosterIn(r, t) \subseteq Players /\ IsFiniteSet(RosterIn(r, t))
BY RostersAssumption, FS_Subset DEF RosterIn
-----------------------------------------------------------------------------
(* What each operation does to the rosters.                                *)

LEMMA SetLineupEffect ==
    ASSUME RosterTypes, NEW t \in Teams, NEW lineup \in Lineups, NEW w, SetLineup(t, lineup, w)
    PROVE  /\ roster' \in [Players -> Assignments \cup {None}]
           /\ \A u : RosterIn(roster', u) = RosterIn(roster, u)
           /\ \A p \in Players : roster[p] = None \/ roster[p].team # t => roster'[p] = roster[p]
           /\ FieldedAs(roster', t, lineup) /\ Legal(lineup, RosterIn(roster', t))
<1>1. roster' = Fielded(roster, t, lineup) /\ Legal(lineup, RosterIn(roster, t))
  BY RosterNow DEF SetLineup
<1>2. /\ roster' \in [Players -> Assignments \cup {None}]
      /\ \A p \in Players : roster'[p] = None <=> roster[p] = None
      /\ \A p \in Players : roster[p] # None => roster'[p].team = roster[p].team
      /\ \A p \in Players : roster[p] = None \/ roster[p].team # t => roster'[p] = roster[p]
      /\ FieldedAs(roster', t, lineup)
  BY <1>1, FieldedEffect DEF RosterTypes, Legal
<1>3. \A u : RosterIn(roster', u) = RosterIn(roster, u)
  BY <1>2 DEF RosterIn
<1> QED
  BY <1>1, <1>2, <1>3

\* Player p joins team t, in the place of d unless d is None.
AddedFor(t, p, d) ==
    /\ roster' \in [Players -> Assignments \cup {None}]
    /\ roster[p] = None /\ p # d /\ p \notin RosterIn(roster, t)
    /\ d # None => d \in RosterIn(roster, t)
    /\ Inherited(d) \in Slots \cup {"BENCH"}
    /\ roster'[p] = [team |-> t, slot |-> Inherited(d)]
    /\ d # None => roster'[d] = None
    /\ \A q \in Players \ {p, d} : roster'[q] = roster[q]
    /\ RosterIn(roster', t) = (RosterIn(roster, t) \ {d}) \cup {p}
    /\ \A u \in Teams \ {t} : /\ RosterIn(roster', u) = RosterIn(roster, u)
                              /\ \A q \in RosterIn(roster, u) : roster'[q] = roster[q]

LEMMA AddEffect ==
    ASSUME RosterTypes, NEW k \in Keys, NEW t \in Teams, NEW p \in Players,
           NEW d \in Players \cup {None}, NEW w, Add(k, t, p, d, w)
    PROVE  AddedFor(t, p, d)
<1>1. /\ roster[p] = None /\ d \in RosterIn(roster, t) \cup {None}
      /\ roster' = [q \in Players |-> IF q = p THEN [team |-> t, slot |-> Inherited(d)]
                                       ELSE IF q = d THEN None ELSE roster[q]]
  BY RosterNow DEF Add, FreeAgents
<1>2. /\ None \notin Assignments /\ None \notin Players
      /\ p \notin RosterIn(roster, t) /\ p # d /\ (d # None => d \in RosterIn(roster, t))
  BY <1>1, RostersAssumption DEF RosterIn
<1>3. Inherited(d) \in Slots \cup {"BENCH"}
  BY <1>2 DEF Inherited, RosterIn, RosterTypes, Assignments
<1>4. [team |-> t, slot |-> Inherited(d)] \in Assignments
  BY <1>3 DEF Assignments
<1>5. /\ roster' \in [Players -> Assignments \cup {None}]
      /\ roster'[p] = [team |-> t, slot |-> Inherited(d)] /\ roster'[p] # None
      /\ d # None => roster'[d] = None
      /\ \A q \in Players \ {p, d} : roster'[q] = roster[q]
  BY <1>1, <1>2, <1>4 DEF RosterTypes, RosterIn
<1>6. RosterIn(roster', t) = (RosterIn(roster, t) \ {d}) \cup {p}
  BY <1>2, <1>5 DEF RosterIn
<1>7. ASSUME NEW u \in Teams \ {t}
      PROVE  /\ RosterIn(roster', u) = RosterIn(roster, u)
             /\ \A q \in RosterIn(roster, u) : roster'[q] = roster[q]
  <2>1. p \notin RosterIn(roster, u) /\ p \notin RosterIn(roster', u)
    BY <1>1, <1>5 DEF RosterIn
  <2>2. d \notin RosterIn(roster, u) /\ d \notin RosterIn(roster', u)
    BY <1>2, <1>5 DEF RosterIn
  <2>3. \A q \in Players : /\ q \in RosterIn(roster', u) <=> q \in RosterIn(roster, u)
                           /\ q \in RosterIn(roster, u) => roster'[q] = roster[q]
    BY <1>5, <2>1, <2>2 DEF RosterIn
  <2> QED
    BY <2>3 DEF RosterIn
<1> QED
  BY <1>1, <1>2, <1>3, <1>5, <1>6, <1>7 DEF AddedFor

LEMMA DropEffect ==
    ASSUME RosterTypes, NEW p \in Players, roster' = [roster EXCEPT ![p] = None]
    PROVE  /\ roster' \in [Players -> Assignments \cup {None}]
           /\ roster'[p] = None /\ \A q \in Players \ {p} : roster'[q] = roster[q]
           /\ \A u \in Teams : /\ RosterIn(roster', u) = RosterIn(roster, u) \ {p}
                               /\ StartersIn(roster', u) = StartersIn(roster, u) \ {p}
<1>1. /\ roster' \in [Players -> Assignments \cup {None}] /\ roster'[p] = None
      /\ \A q \in Players \ {p} : roster'[q] = roster[q]
  BY DEF RosterTypes
<1>2. \A u \in Teams : RosterIn(roster', u) = RosterIn(roster, u) \ {p}
  BY <1>1 DEF RosterIn
<1>3. \A u \in Teams : StartersIn(roster', u) = StartersIn(roster, u) \ {p}
  BY <1>1, <1>2 DEF StartersIn, RosterIn
<1> QED
  BY <1>1, <1>2, <1>3

\* Where a team's lineup is set again or not.
Replaced(r, t, plan) == IF t \in DOMAIN plan THEN Fielded(r, t, plan[t]) ELSE r

LEMMA ReplacedEffect ==
    ASSUME NEW r \in [Players -> Assignments \cup {None}], NEW t \in Teams, NEW plan,
           t \in DOMAIN plan => plan[t] \in Lineups /\ IsInjective(plan[t])
    PROVE  /\ Replaced(r, t, plan) \in [Players -> Assignments \cup {None}]
           /\ \A p \in Players : Replaced(r, t, plan)[p] = None <=> r[p] = None
           /\ \A p \in Players : r[p] # None => Replaced(r, t, plan)[p].team = r[p].team
           /\ \A p \in Players : r[p] = None \/ r[p].team # t => Replaced(r, t, plan)[p] = r[p]
           /\ t \in DOMAIN plan => FieldedAs(Replaced(r, t, plan), t, plan[t])
           /\ t \notin DOMAIN plan => Replaced(r, t, plan) = r
<1>1. CASE t \in DOMAIN plan
  BY <1>1, FieldedEffect DEF Replaced
<1>2. CASE t \notin DOMAIN plan
  BY <1>2 DEF Replaced
<1> QED
  BY <1>1, <1>2

\* Who is on which team once the players are exchanged.
LEMMA ExchangeEffect ==
    ASSUME RosterTypes, NEW deal \in Deals, NEW drops,
           Owned(deal), Droppable(deal.from, deal.drops, deal), Droppable(deal.to, drops, deal)
    PROVE  /\ Exchanged(deal, drops) \in [Players -> Assignments \cup {None}]
           /\ \A p \in deal.give : /\ roster[p] # None /\ roster[p].team = deal.from
                                   /\ Exchanged(deal, drops)[p] = [team |-> deal.to, slot |-> "BENCH"]
           /\ \A p \in deal.get : /\ roster[p] # None /\ roster[p].team = deal.to
                                  /\ Exchanged(deal, drops)[p] = [team |-> deal.from, slot |-> "BENCH"]
           /\ \A p \in deal.drops : /\ roster[p] # None /\ roster[p].team = deal.from
                                    /\ Exchanged(deal, drops)[p] = None
           /\ \A p \in drops : /\ roster[p] # None /\ roster[p].team = deal.to
                               /\ Exchanged(deal, drops)[p] = None
           /\ \A p \in Players \ Gone(deal, drops) : Exchanged(deal, drops)[p] = roster[p]
           /\ PlayersOf(deal) \subseteq Players /\ Gone(deal, drops) \subseteq Players
           /\ PlayersOf(deal) \cap (deal.drops \cup drops) = {}
           /\ deal.from \in Teams /\ deal.to \in Teams /\ deal.from # deal.to
<1>1. /\ deal.from \in Teams /\ deal.to \in Teams /\ deal.from # deal.to
      /\ deal.give \subseteq Players /\ deal.get \subseteq Players /\ deal.drops \subseteq Players
  BY TradesAssumption
<1>2. /\ deal.give \subseteq RosterIn(roster, deal.from) /\ deal.get \subseteq RosterIn(roster, deal.to)
      /\ deal.drops \subseteq RosterIn(roster, deal.from) \ (deal.give \cup deal.get)
      /\ drops \subseteq RosterIn(roster, deal.to) \ (deal.give \cup deal.get)
  BY RosterNow DEF Owned, Droppable
<1>3. deal.give \cap deal.get = {}
  BY <1>1, <1>2 DEF RosterIn
<1>4. PlayersOf(deal) \subseteq Players /\ Gone(deal, drops) \subseteq Players
  BY <1>1, <1>2 DEF PlayersOf, Gone, RosterIn
<1>5. /\ [team |-> deal.to, slot |-> "BENCH"] \in Assignments
      /\ [team |-> deal.from, slot |-> "BENCH"] \in Assignments
  BY <1>1 DEF Assignments
<1>6. \A p \in Players : Exchanged(deal, drops)[p] =
          CASE p \in deal.give -> [team |-> deal.to, slot |-> "BENCH"]
            [] p \in deal.get -> [team |-> deal.from, slot |-> "BENCH"]
            [] p \in deal.drops \cup drops -> None
            [] OTHER -> roster[p]
  BY DEF Exchanged
<1>7. \A p \in deal.give : Exchanged(deal, drops)[p] = [team |-> deal.to, slot |-> "BENCH"]
  BY <1>1, <1>2, <1>3, <1>6
<1>8. \A p \in deal.get : Exchanged(deal, drops)[p] = [team |-> deal.from, slot |-> "BENCH"]
  BY <1>1, <1>2, <1>3, <1>6
<1>9. \A p \in deal.drops \cup drops : Exchanged(deal, drops)[p] = None
  BY <1>1, <1>2, <1>6 DEF RosterIn
<1>10. \A p \in Players \ Gone(deal, drops) : Exchanged(deal, drops)[p] = roster[p]
  BY <1>6 DEF Gone, PlayersOf
<1>11. Exchanged(deal, drops) \in [Players -> Assignments \cup {None}]
  <2>1. \A p \in Players : Exchanged(deal, drops)[p] \in Assignments \cup {None}
    BY <1>5, <1>7, <1>8, <1>9, <1>10 DEF RosterTypes, Gone, PlayersOf
  <2>2. Exchanged(deal, drops) = [p \in Players |-> Exchanged(deal, drops)[p]]
    BY DEF Exchanged
  <2> QED
    BY <2>1, <2>2
<1>12. PlayersOf(deal) \cap (deal.drops \cup drops) = {}
  BY <1>2 DEF PlayersOf
<1>13. /\ \A p \in deal.give \cup deal.drops : roster[p] # None /\ roster[p].team = deal.from
       /\ \A p \in deal.get \cup drops : roster[p] # None /\ roster[p].team = deal.to
  BY <1>2 DEF RosterIn
<1> QED
  BY <1>1, <1>4, <1>7, <1>8, <1>9, <1>10, <1>11, <1>12, <1>13

\* Which lineups an accepted trade sets again, and what it decides.
Settled(deal, drops, plan) ==
    /\ plan \in [LosesStarter(deal, drops) -> Lineups]
    /\ \A t \in DOMAIN plan : plan[t] \in Planned(t, deal, drops)
    /\ roster' = Replaced(Replaced(Exchanged(deal, drops), deal.from, plan), deal.to, plan)
    /\ decided' = [t \in Teams |-> IF t \in DOMAIN plan THEN [decided[t] EXCEPT ![week] = plan[t]]
                                   ELSE decided[t]]

LEMMA AcceptSettles ==
    ASSUME NEW rows, NEW drops, Accept(rows, drops)
    PROVE  \E plan : Settled(rows.o.deal, drops, plan)
<1> DEFINE deal == rows.o.deal
<1>1. PICK plan \in [LosesStarter(deal, drops) -> Lineups] :
         /\ \A t \in DOMAIN plan : plan[t] \in Planned(t, deal, drops)
         /\ LET giver == IF deal.from \in DOMAIN plan
                         THEN Fielded(Exchanged(deal, drops), deal.from, plan[deal.from])
                         ELSE Exchanged(deal, drops)
            IN  roster' = IF deal.to \in DOMAIN plan
                          THEN Fielded(giver, deal.to, plan[deal.to]) ELSE giver
         /\ decided' = [t \in Teams |-> IF t \in DOMAIN plan
                                        THEN [decided[t] EXCEPT ![week] = plan[t]]
                                        ELSE decided[t]]
  BY DEF Accept
<1> QED
  BY <1>1 DEF Settled, Replaced

\* What a trade does to the rosters and to the decisions of this week.
TradeEffect(deal, drops, plan) ==
    /\ roster' \in [Players -> Assignments \cup {None}]
    /\ \A p \in deal.give : Moves(p, deal.from, deal.to)
    /\ \A p \in deal.get : Moves(p, deal.to, deal.from)
    /\ \A p \in deal.drops \cup drops : roster[p] # None /\ roster'[p] = None
    /\ \A p \in Players \ Gone(deal, drops) :
          /\ roster'[p] = None <=> roster[p] = None
          /\ roster[p] # None => roster'[p].team = roster[p].team
    /\ \A p \in Players \ Gone(deal, drops) :
          roster[p] = None \/ roster[p].team \notin LosesStarter(deal, drops) => roster'[p] = roster[p]
    /\ \A p \in PlayersOf(deal) :
          roster'[p].team \notin LosesStarter(deal, drops) => roster'[p].slot = "BENCH"
    /\ \A t \in Teams \ {deal.from, deal.to} : RosterIn(roster', t) = RosterIn(roster, t)
    /\ \A t \in {deal.from, deal.to} :
          RosterIn(roster', t) = (RosterIn(roster, t) \ Gone(deal, drops)) \cup Incoming(t, deal)
    /\ \A t \in LosesStarter(deal, drops) :
          plan[t] \in Lineups /\ Legal(plan[t], RosterIn(roster', t)) /\ FieldedAs(roster', t, plan[t])

LEMMA AcceptEffect ==
    ASSUME RosterTypes, NEW deal \in Deals, NEW drops, NEW plan, Settled(deal, drops, plan),
           Owned(deal), Droppable(deal.from, deal.drops, deal), Droppable(deal.to, drops, deal)
    PROVE  TradeEffect(deal, drops, plan)
<1> DEFINE ex == Exchanged(deal, drops)
           giver == Replaced(ex, deal.from, plan)
<1>1. /\ ex \in [Players -> Assignments \cup {None}]
      /\ \A p \in deal.give : /\ roster[p] # None /\ roster[p].team = deal.from
                              /\ ex[p] = [team |-> deal.to, slot |-> "BENCH"]
      /\ \A p \in deal.get : /\ roster[p] # None /\ roster[p].team = deal.to
                             /\ ex[p] = [team |-> deal.from, slot |-> "BENCH"]
      /\ \A p \in deal.drops : roster[p] # None /\ roster[p].team = deal.from /\ ex[p] = None
      /\ \A p \in drops : roster[p] # None /\ roster[p].team = deal.to /\ ex[p] = None
      /\ \A p \in Players \ Gone(deal, drops) : ex[p] = roster[p]
      /\ PlayersOf(deal) \subseteq Players /\ Gone(deal, drops) \subseteq Players
      /\ PlayersOf(deal) \cap (deal.drops \cup drops) = {}
      /\ deal.from \in Teams /\ deal.to \in Teams /\ deal.from # deal.to
  BY ExchangeEffect
<1>2. /\ DOMAIN plan = LosesStarter(deal, drops)
      /\ \A t \in DOMAIN plan :
            /\ plan[t] \in Lineups /\ IsInjective(plan[t])
            /\ Legal(plan[t], (RosterIn(roster, t) \ Gone(deal, drops)) \cup Incoming(t, deal))
      /\ roster' = Replaced(giver, deal.to, plan)
  BY RosterNow DEF Settled, Planned, Legal
<1>3. /\ giver \in [Players -> Assignments \cup {None}]
      /\ \A p \in Players : giver[p] = None <=> ex[p] = None
      /\ \A p \in Players : ex[p] # None => giver[p].team = ex[p].team
      /\ \A p \in Players : ex[p] = None \/ ex[p].team # deal.from => giver[p] = ex[p]
      /\ deal.from \in DOMAIN plan => FieldedAs(giver, deal.from, plan[deal.from])
      /\ deal.from \notin DOMAIN plan => giver = ex
  <2> HIDE DEF ex
  <2>1. /\ ex \in [Players -> Assignments \cup {None}] /\ deal.from \in Teams
        /\ deal.from \in DOMAIN plan => plan[deal.from] \in Lineups /\ IsInjective(plan[deal.from])
    BY <1>1, <1>2
  <2> QED
    BY <2>1, ReplacedEffect
<1>4. /\ roster' \in [Players -> Assignments \cup {None}]
      /\ \A p \in Players : roster'[p] = None <=> giver[p] = None
      /\ \A p \in Players : giver[p] # None => roster'[p].team = giver[p].team
      /\ \A p \in Players : giver[p] = None \/ giver[p].team # deal.to => roster'[p] = giver[p]
      /\ deal.to \in DOMAIN plan => FieldedAs(roster', deal.to, plan[deal.to])
      /\ deal.to \notin DOMAIN plan => roster' = giver
  <2> HIDE DEF giver
  <2>1. /\ giver \in [Players -> Assignments \cup {None}] /\ deal.to \in Teams
        /\ deal.to \in DOMAIN plan => plan[deal.to] \in Lineups /\ IsInjective(plan[deal.to])
    BY <1>1, <1>2, <1>3
  <2> QED
    BY <1>2, <2>1, ReplacedEffect
<1> HIDE DEF ex, giver
<1>5. /\ \A p \in Players : roster'[p] = None <=> ex[p] = None
      /\ \A p \in Players : ex[p] # None => roster'[p].team = ex[p].team
  BY <1>3, <1>4
<1>6. None \notin Assignments
  BY RostersAssumption
<1>7. \A p \in deal.give : Moves(p, deal.from, deal.to)
  BY <1>1, <1>5, <1>6 DEF Moves, PlayersOf, Assignments
<1>8. \A p \in deal.get : Moves(p, deal.to, deal.from)
  BY <1>1, <1>5, <1>6 DEF Moves, PlayersOf, Assignments
<1>9. \A p \in deal.drops \cup drops : roster[p] # None /\ roster'[p] = None
  BY <1>1, <1>5 DEF Gone
<1>10. \A p \in Players \ Gone(deal, drops) :
          /\ roster'[p] = None <=> roster[p] = None
          /\ roster[p] # None => roster'[p].team = roster[p].team
  BY <1>1, <1>5
<1>11. LosesStarter(deal, drops) \subseteq {deal.from, deal.to}
  BY DEF LosesStarter
<1>12. \A p \in Players : ex[p] = None \/ ex[p].team \notin LosesStarter(deal, drops) => roster'[p] = ex[p]
  <2> SUFFICES ASSUME NEW p \in Players, ex[p] = None \/ ex[p].team \notin LosesStarter(deal, drops)
               PROVE  roster'[p] = ex[p]
    OBVIOUS
  <2>1. giver[p] = ex[p]
    BY <1>2, <1>3
  <2>2. CASE ex[p] = None \/ ex[p].team # deal.to
    BY <1>4, <2>1, <2>2
  <2>3. CASE deal.to \notin LosesStarter(deal, drops)
    BY <1>2, <1>4, <2>1, <2>3
  <2> QED
    BY <2>2, <2>3
<1>13. \A p \in Players \ Gone(deal, drops) :
          roster[p] = None \/ roster[p].team \notin LosesStarter(deal, drops) => roster'[p] = roster[p]
  BY <1>1, <1>12
<1>14. \A p \in PlayersOf(deal) :
          roster'[p].team \notin LosesStarter(deal, drops) => roster'[p].slot = "BENCH"
  <2> SUFFICES ASSUME NEW p \in PlayersOf(deal), roster'[p].team \notin LosesStarter(deal, drops)
               PROVE  roster'[p].slot = "BENCH"
    OBVIOUS
  <2>1. ex[p].slot = "BENCH"
    BY <1>1 DEF PlayersOf
  <2>2. ex[p] # None
    BY <1>1, <1>7, <1>8, <1>5 DEF PlayersOf, Moves
  <2>3. p \in Players
    BY <1>1
  <2>4. ex[p].team \notin LosesStarter(deal, drops)
    BY <1>5, <2>2, <2>3
  <2> QED
    BY <1>12, <2>1, <2>3, <2>4
<1>15. \A t \in Teams \ {deal.from, deal.to} : RosterIn(roster', t) = RosterIn(roster, t)
  <2> SUFFICES ASSUME NEW t \in Teams \ {deal.from, deal.to}, NEW p \in Players
               PROVE  p \in RosterIn(roster', t) <=> p \in RosterIn(roster, t)
    BY DEF RosterIn
  <2>1. CASE p \in Gone(deal, drops)
    BY <1>1, <1>7, <1>8, <1>9, <2>1 DEF Gone, PlayersOf, Moves, RosterIn
  <2>2. CASE p \notin Gone(deal, drops)
    BY <1>10, <2>2 DEF RosterIn
  <2> QED
    BY <2>1, <2>2
<1>16. \A t \in {deal.from, deal.to} :
          RosterIn(roster', t) = (RosterIn(roster, t) \ Gone(deal, drops)) \cup Incoming(t, deal)
  <2> SUFFICES ASSUME NEW t \in {deal.from, deal.to}, NEW p \in Players
               PROVE  p \in RosterIn(roster', t)
                         <=> p \in (RosterIn(roster, t) \ Gone(deal, drops)) \cup Incoming(t, deal)
    BY <1>1 DEF RosterIn, Incoming, PlayersOf
  <2>1. CASE p \in PlayersOf(deal)
    <3>1. p \in Gone(deal, drops)
      BY <2>1 DEF Gone
    <3>2. p \in RosterIn(roster', t) <=> p \in Incoming(t, deal)
      <4>1. CASE p \in deal.give
        <5>1. p \notin deal.get
          BY <1>1, <4>1
        <5> QED
          BY <1>1, <1>7, <4>1, <5>1 DEF Moves, Incoming, RosterIn
      <4>2. CASE p \in deal.get
        <5>1. p \notin deal.give
          BY <1>1, <4>2
        <5> QED
          BY <1>1, <1>8, <4>2, <5>1 DEF Moves, Incoming, RosterIn
      <4> QED
        BY <2>1, <4>1, <4>2 DEF PlayersOf
    <3> QED
      BY <3>1, <3>2
  <2>2. CASE p \in deal.drops \cup drops
    BY <1>1, <1>9, <2>2 DEF Gone, PlayersOf, RosterIn, Incoming
  <2>3. CASE p \notin Gone(deal, drops)
    BY <1>10, <2>3 DEF RosterIn, Gone, PlayersOf, Incoming
  <2> QED
    BY <2>1, <2>2, <2>3 DEF Gone, PlayersOf
<1>17. \A t \in LosesStarter(deal, drops) :
          plan[t] \in Lineups /\ Legal(plan[t], RosterIn(roster', t)) /\ FieldedAs(roster', t, plan[t])
  <2>1. \A t \in LosesStarter(deal, drops) : plan[t] \in Lineups /\ Legal(plan[t], RosterIn(roster', t))
    BY <1>2, <1>11, <1>16
  <2>2. deal.to \in LosesStarter(deal, drops) => FieldedAs(roster', deal.to, plan[deal.to])
    BY <1>2, <1>4
  <2>3. ASSUME deal.from \in LosesStarter(deal, drops)
        PROVE  FieldedAs(roster', deal.from, plan[deal.from])
    <3>1. FieldedAs(giver, deal.from, plan[deal.from])
      BY <1>2, <1>3, <2>3
    <3>2. \A p \in RosterIn(roster', deal.from) : p \in RosterIn(giver, deal.from) /\ roster'[p] = giver[p]
      BY <1>1, <1>4 DEF RosterIn
    <3> QED
      BY <3>1, <3>2 DEF FieldedAs
  <2> QED
    BY <1>11, <2>1, <2>2, <2>3
<1> QED
  BY <1>4, <1>7, <1>8, <1>9, <1>10, <1>13, <1>14, <1>15, <1>16, <1>17 DEF TradeEffect
-----------------------------------------------------------------------------
(* What each operation adds to the log.                                    *)

\* The log keeps its rows and gains those of new, each once.
LogGrows(new) ==
    /\ log' \in Seq(LogRows)
    /\ \A i \in DOMAIN log : i \in DOMAIN log' /\ log'[i] = log[i]
    /\ \A i \in DOMAIN log' \ DOMAIN log : log'[i] \in new
    /\ \A r \in new : \E i \in DOMAIN log' \ DOMAIN log : log'[i] = r
    /\ \A i, j \in DOMAIN log' \ DOMAIN log : log'[i] = log'[j] => i = j

LEMMA LogStays == ASSUME RosterTypes, UNCHANGED log PROVE LogGrows({})
BY DEF RosterTypes, LogGrows

LEMMA Lengthened ==
    ASSUME RosterTypes, NEW s \in Seq(LogRows), log' = log \o s, IsInjective(s)
    PROVE  LogGrows({s[i] : i \in DOMAIN s})
<1>1. log \in Seq(LogRows) /\ Len(log) \in Nat /\ Len(s) \in Nat
  BY DEF RosterTypes
<1>2. /\ DOMAIN log = 1..Len(log) /\ DOMAIN s = 1..Len(s)
      /\ log' \in Seq(LogRows) /\ DOMAIN log' = 1..(Len(log) + Len(s))
      /\ \A i \in 1..Len(log) : log'[i] = log[i]
      /\ \A i \in 1..(Len(log) + Len(s)) : i > Len(log) => log'[i] = s[i - Len(log)]
  BY <1>1, ConcatProperties
<1>3. \A i \in DOMAIN log' \ DOMAIN log :
         i - Len(log) \in DOMAIN s /\ log'[i] = s[i - Len(log)]
  BY <1>1, <1>2
<1>4. \A i \in DOMAIN s : Len(log) + i \in DOMAIN log' \ DOMAIN log /\ log'[Len(log) + i] = s[i]
  BY <1>1, <1>2
<1>5. \A i, j \in DOMAIN log' \ DOMAIN log : log'[i] = log'[j] => i = j
  <2> SUFFICES ASSUME NEW i \in DOMAIN log' \ DOMAIN log, NEW j \in DOMAIN log' \ DOMAIN log,
                      log'[i] = log'[j]
               PROVE  i = j
    OBVIOUS
  <2>1. i - Len(log) = j - Len(log)
    BY <1>3 DEF IsInjective
  <2> QED
    BY <1>1, <1>2, <2>1
<1>6. \A i \in DOMAIN log' \ DOMAIN log : log'[i] \in {s[m] : m \in DOMAIN s}
  BY <1>3
<1>7. \A r \in {s[m] : m \in DOMAIN s} : \E i \in DOMAIN log' \ DOMAIN log : log'[i] = r
  BY <1>4
<1>8. \A i \in DOMAIN log : i \in DOMAIN log' /\ log'[i] = log[i]
  BY <1>1, <1>2
<1> QED
  BY <1>2, <1>5, <1>6, <1>7, <1>8 DEF LogGrows

\* The sequence of a finite set has each of its elements once.
LEMMA ListOfSet ==
    ASSUME NEW S, IsFiniteSet(S)
    PROVE  /\ SetToSeq(S) \in Seq(S) /\ IsInjective(SetToSeq(S))
           /\ {SetToSeq(S)[i] : i \in DOMAIN SetToSeq(S)} = S
<1> DEFINE n == Cardinality(S)
<1>1. n \in Nat /\ ExistsBijection(1..n, S)
  BY FS_CardinalityType
<1>2. \E f \in [1..n -> S] : IsInjective(f)
  BY <1>1 DEF ExistsBijection, Bijection, Injection
<1>3. SetToSeq(S) \in [1..n -> S] /\ IsInjective(SetToSeq(S))
  BY <1>2 DEF SetToSeq
<1>4. SetToSeq(S) \in Surjection(1..n, S)
  <2>1. SetToSeq(S) \in Injection(1..n, S)
    BY <1>3 DEF Injection
  <2>2. Cardinality(1..n) = Cardinality(S)
    BY <1>1, FS_Interval
  <2> QED
    BY <2>1, <2>2, FS_Injection
<1>5. SetToSeq(S) \in Seq(S)
  BY <1>1, <1>3, SeqDef
<1> QED
  BY <1>3, <1>4, <1>5 DEF Surjection

LEMMA LogTypes ==
    ASSUME NEW t \in Teams, NEW p \in Players, NEW w \in Weeks
    PROVE  /\ \A k \in Keys, q \in Players \cup {None} :
                 /\ RecordWith(<<k, "add">>, "FREE_AGENT_ADD", t, p, w, q) \in LogRows
                 /\ RecordWith(<<k, "drop">>, "DROP", t, p, w, q) \in LogRows
           /\ \A k \in Keys : Record(<<k, "forced">>, "COMMISSIONER_DROP", t, p, w) \in LogRows
           /\ \A j \in Nat : /\ Record(<<"trade", j, p>>, "TRADE", t, p, w) \in LogRows
                             /\ Record(<<"trade", j, p>>, "DROP", t, p, w) \in LogRows
BY DEF Record, RecordWith, LogRows, LogKeys

Added(k, t, p, d, w) == RecordWith(<<k, "add">>, "FREE_AGENT_ADD", t, p, w, d)
Dropped(k, t, p, d, w) == RecordWith(<<k, "drop">>, "DROP", t, d, w, p)
AddedRecords(k, t, p, d, w) ==
    {Added(k, t, p, d, w)} \cup {r \in {Dropped(k, t, p, d, w)} : d # None}

LEMMA AddLogged ==
    ASSUME RosterTypes, NEW k \in Keys, NEW t \in Teams, NEW p \in Players,
           NEW d \in Players \cup {None}, NEW w \in Weeks,
           Add(k, t, p, d, w)
    PROVE  /\ NewRequest(k) => LogGrows(AddedRecords(k, t, p, d, w))
           /\ ~NewRequest(k) => log' = log
           /\ \A r \in AddedRecords(k, t, p, d, w) : Recordable(r)
<1> DEFINE dropped == Dropped(k, t, p, d, w)
           added == Added(k, t, p, d, w)
           s == AddRecords(k, t, p, d, w)
<1>1. added \in LogRows /\ (d # None => dropped \in LogRows) /\ dropped # added
  <2>1. added \in LogRows
    BY LogTypes DEF Added
  <2>2. d # None => dropped \in LogRows
    BY LogTypes DEF Dropped
  <2>3. dropped # added
    BY DEF Added, Dropped, RecordWith
  <2> QED
    BY <2>1, <2>2, <2>3
<1>2. /\ s = IF d = None THEN <<added>> ELSE <<dropped, added>>
      /\ AddedRecords(k, t, p, d, w) = IF d = None THEN {added} ELSE {dropped, added}
  BY DEF AddRecords, AddedRecords, Added, Dropped
<1>3. /\ log' = IF NewRequest(k) THEN log \o s ELSE log
      /\ \A i \in DOMAIN s : Recordable(s[i])
  BY DEF Add
<1> HIDE DEF s, added, dropped
<1>4. s \in Seq(LogRows) /\ IsInjective(s) /\ {s[i] : i \in DOMAIN s} = AddedRecords(k, t, p, d, w)
  <2>1. CASE d = None
    <3>1. s = <<added>> /\ s \in Seq(LogRows) /\ DOMAIN s = {1} /\ s[1] = added
      BY <1>1, <1>2, <2>1
    <3> QED
      BY <1>2, <2>1, <3>1 DEF IsInjective
  <2>2. CASE d # None
    <3>1. s = <<dropped, added>> /\ s \in Seq(LogRows) /\ DOMAIN s = {1, 2} /\ s[1] = dropped /\ s[2] = added
      BY <1>1, <1>2, <2>2
    <3> QED
      BY <1>1, <1>2, <2>2, <3>1 DEF IsInjective
  <2> QED
    BY <2>1, <2>2
<1>5. NewRequest(k) => LogGrows({s[i] : i \in DOMAIN s})
  BY <1>3, <1>4, Lengthened
<1> QED
  BY <1>3, <1>4, <1>5

DropRecords(k, t, p) ==
    {rec \in {Record(<<k, "forced">>, "COMMISSIONER_DROP", t, p, week)} : ~Known(rec.key)}

LEMMA DropLogged ==
    ASSUME RosterTypes, NEW k \in Keys, NEW t \in Teams, NEW p \in Players, LogDrop(k, t, p)
    PROVE  LogGrows(DropRecords(k, t, p))
<1> DEFINE rec == Record(<<k, "forced">>, "COMMISSIONER_DROP", t, p, week)
<1>1. rec \in LogRows /\ log \in Seq(LogRows)
  BY LogTypes DEF RosterTypes
<1>2. log' = IF Known(rec.key) THEN log ELSE Append(log, rec)
  BY DEF LogDrop, Logged
<1>3. DropRecords(k, t, p) = IF Known(rec.key) THEN {} ELSE {rec}
  BY DEF DropRecords
<1> HIDE DEF rec
<1>4. CASE Known(rec.key)
  BY <1>2, <1>3, <1>4, LogStays
<1>5. CASE ~Known(rec.key)
  <2>1. log' = log \o <<rec>>
    BY <1>1, <1>2, <1>5, AppendIsConcat
  <2>2. <<rec>> \in Seq(LogRows) /\ IsInjective(<<rec>>) /\ {<<rec>>[i] : i \in DOMAIN <<rec>>} = {rec}
    BY <1>1 DEF IsInjective
  <2>3. LogGrows({<<rec>>[i] : i \in DOMAIN <<rec>>})
    BY <2>1, <2>2, Lengthened
  <2> QED
    BY <1>3, <1>5, <2>2, <2>3
<1> QED
  BY <1>4, <1>5

NewRecords(j, deal, drops) == {rec \in TradeRecords(j, deal, drops) : ~Known(rec.key)}

\* The records of a trade: one for each player that moves or goes.
LEMMA TradeRecordsType ==
    ASSUME RosterTypes, NEW j \in Nat, NEW deal \in Deals, NEW drops,
           Owned(deal), Droppable(deal.from, deal.drops, deal), Droppable(deal.to, drops, deal)
    PROVE  /\ TradeRecords(j, deal, drops) \subseteq LogRows
           /\ \A r, s \in TradeRecords(j, deal, drops) : r.player = s.player => r = s
           /\ \A r \in TradeRecords(j, deal, drops) : r.key = <<"trade", j, r.player>>
           /\ \A p \in PlayersOf(deal) : \E r \in TradeRecords(j, deal, drops) :
                 /\ r.player = p /\ r.type = "TRADE"
                 /\ r.team = IF p \in deal.give THEN deal.to ELSE deal.from
           /\ \A p \in deal.drops \cup drops : \E r \in TradeRecords(j, deal, drops) :
                 r.player = p /\ r.type = "DROP"
           /\ \A r \in TradeRecords(j, deal, drops) : r.player \in Gone(deal, drops)
<1>1. /\ PlayersOf(deal) \subseteq Players /\ Gone(deal, drops) \subseteq Players
      /\ PlayersOf(deal) \cap (deal.drops \cup drops) = {}
      /\ deal.from \in Teams /\ deal.to \in Teams
      /\ \A p \in deal.drops \cup drops : roster[p] # None
  <2>1. /\ PlayersOf(deal) \subseteq Players /\ Gone(deal, drops) \subseteq Players
        /\ PlayersOf(deal) \cap (deal.drops \cup drops) = {}
        /\ deal.from \in Teams /\ deal.to \in Teams
    BY ExchangeEffect
  <2>2. \A p \in deal.drops : roster[p] # None
    BY ExchangeEffect
  <2>3. \A p \in drops : roster[p] # None
    <3>1. drops \subseteq RosterIn(roster, deal.to)
      BY RosterNow DEF Droppable
    <3> QED
      BY <3>1 DEF RosterIn
  <2> QED
    BY <2>1, <2>2, <2>3
<1>2. week \in Weeks /\ \A p \in deal.drops \cup drops : p \in Players /\ roster[p].team \in Teams
  BY <1>1 DEF RosterTypes, Gone, Assignments
<1>3. /\ \A p \in PlayersOf(deal) :
            Record(<<"trade", j, p>>, "TRADE", IF p \in deal.give THEN deal.to ELSE deal.from, p, week)
               \in LogRows
      /\ \A p \in deal.drops \cup drops :
            Record(<<"trade", j, p>>, "DROP", roster[p].team, p, week) \in LogRows
  BY <1>1, <1>2, LogTypes
<1>4. TradeRecords(j, deal, drops) \subseteq LogRows
  BY <1>3 DEF TradeRecords, Transfers
<1>5. \A r, s \in TradeRecords(j, deal, drops) : r.player = s.player => r = s
  BY <1>1 DEF TradeRecords, Transfers, Record, RecordWith
<1>6. \A r \in TradeRecords(j, deal, drops) :
         r.key = <<"trade", j, r.player>> /\ r.player \in Gone(deal, drops)
  BY DEF TradeRecords, Transfers, Record, RecordWith, Gone
<1>7. \A p \in PlayersOf(deal) : \E r \in TradeRecords(j, deal, drops) :
         /\ r.player = p /\ r.type = "TRADE"
         /\ r.team = IF p \in deal.give THEN deal.to ELSE deal.from
  <2> TAKE p \in PlayersOf(deal)
  <2> DEFINE r == Record(<<"trade", j, p>>, "TRADE", IF p \in deal.give THEN deal.to ELSE deal.from, p, week)
  <2>1. r \in TradeRecords(j, deal, drops)
    BY DEF TradeRecords, Transfers
  <2>2. r.player = p /\ r.type = "TRADE" /\ r.team = IF p \in deal.give THEN deal.to ELSE deal.from
    BY DEF Record, RecordWith
  <2> QED
    BY <2>1, <2>2
<1>8. \A p \in deal.drops \cup drops : \E r \in TradeRecords(j, deal, drops) :
         r.player = p /\ r.type = "DROP"
  <2> TAKE p \in deal.drops \cup drops
  <2> DEFINE r == Record(<<"trade", j, p>>, "DROP", roster[p].team, p, week)
  <2>1. r \in TradeRecords(j, deal, drops)
    BY DEF TradeRecords
  <2>2. r.player = p /\ r.type = "DROP"
    BY DEF Record, RecordWith
  <2> QED
    BY <2>1, <2>2
<1> QED
  BY <1>4, <1>5, <1>6, <1>7, <1>8

LEMMA TradeLogged ==
    ASSUME RosterTypes, NEW j \in Nat, NEW deal \in Deals, NEW drops,
           Owned(deal), Droppable(deal.from, deal.drops, deal), Droppable(deal.to, drops, deal),
           log' = log \o SetToSeq(NewRecords(j, deal, drops))
    PROVE  LogGrows(NewRecords(j, deal, drops))
<1> DEFINE new == NewRecords(j, deal, drops)
<1>1. /\ new \subseteq LogRows
      /\ \A r, s \in new : r.player = s.player => r = s
  <2>1. /\ TradeRecords(j, deal, drops) \subseteq LogRows
        /\ \A r, s \in TradeRecords(j, deal, drops) : r.player = s.player => r = s
    BY TradeRecordsType
  <2> QED
    BY <2>1 DEF NewRecords
<1> HIDE DEF new
<1>2. IsFiniteSet(new)
  <2> DEFINE f == [r \in new |-> r.player]
  <2>1. f \in Injection(new, Players)
    BY <1>1 DEF Injection, IsInjective, LogRows
  <2> HIDE DEF f
  <2> QED
    BY <2>1, FS_Injection, RostersAssumption
<1>3. /\ SetToSeq(new) \in Seq(new) /\ IsInjective(SetToSeq(new))
      /\ {SetToSeq(new)[i] : i \in DOMAIN SetToSeq(new)} = new
  BY <1>2, ListOfSet
<1>4. SetToSeq(new) \in Seq(LogRows)
  BY <1>1, <1>3, SeqMonotonic
<1>5. log' = log \o SetToSeq(new)
  BY DEF new
<1>6. LogGrows({SetToSeq(new)[i] : i \in DOMAIN SetToSeq(new)})
  BY <1>3, <1>4, <1>5, Lengthened
<1> QED
  BY <1>3, <1>6 DEF new
-----------------------------------------------------------------------------
(* What each operation does to the rows of negotiations.                   *)

\* Who asks of which rows: a request that need not wait reads them as they are.
Asked(rows) ==
    \/ (\E j \in DOMAIN offers : rows = Rows(j)) /\ loaded' = loaded
    \/ loaded # None /\ rows = loaded /\ loaded' = None

OffersTyped ==
    /\ threads \in Seq(Threads) /\ offers \in Seq(OfferRows)
    /\ \A j \in DOMAIN offers : offers[j].thread \in DOMAIN threads

\* Offers and threads are never deleted, and an offer's terms never change.
OffersKept ==
    /\ DOMAIN threads \subseteq DOMAIN threads' /\ DOMAIN offers \subseteq DOMAIN offers'
    /\ \A j \in DOMAIN offers : /\ offers'[j].thread = offers[j].thread
                                /\ offers'[j].deal = offers[j].deal
                                /\ offers'[j].seq = offers[j].seq

LEMMA RowsHeld == ASSUME OffersTyped, NEW j \in DOMAIN offers PROVE Held(Rows(j))
<1>1. offers[j] \in OfferRows /\ offers[j].thread \in DOMAIN threads
  BY DEF OffersTyped
<1>2. threads[offers[j].thread] \in Threads
  BY <1>1 DEF OffersTyped
<1> QED
  BY <1>1, <1>2 DEF Held, Rows, Threads, OfferRows

LEMMA AskedHeld == ASSUME TradeTypes, NEW rows, Asked(rows) PROVE Held(rows)
BY RowsHeld DEF TradeTypes, OffersTyped, Asked

LEMMA HeldTypes ==
    ASSUME OffersTyped, NEW rows, Held(rows)
    PROVE  rows.o.deal \in Deals /\ rows.offer \in Nat /\ rows.offer \in DOMAIN offers
<1>1. rows.offer \in DOMAIN offers /\ offers[rows.offer] \in OfferRows /\ rows.offer \in Nat
  BY DEF OffersTyped, Held
<1> QED
  BY <1>1 DEF Held, OfferRows

LEMMA HeldStays == ASSUME NEW rows, Held(rows), OffersKept PROVE Held(rows)'
BY DEF Held, OffersKept

LEMMA AnswerRows ==
    ASSUME OffersTyped, NEW rows, Held(rows), NEW s \in Statuses \cup {"ACCEPTED"}, NEW u \in Statuses,
           offers' = [offers EXCEPT ![rows.offer].status = s],
           threads' = [threads EXCEPT ![rows.thread].status = u]
    PROVE  /\ OffersTyped' /\ OffersKept
           /\ DOMAIN offers' = DOMAIN offers
           /\ offers'[rows.offer].status = s
           /\ \A j \in DOMAIN offers \ {rows.offer} : offers'[j] = offers[j]
<1> DEFINE j == rows.offer
           i == rows.thread
<1>1. /\ offers \in Seq(OfferRows) /\ j \in 1..Len(offers) /\ offers[j] \in OfferRows
      /\ threads \in Seq(Threads) /\ i \in 1..Len(threads) /\ threads[i] \in Threads
      /\ DOMAIN offers = 1..Len(offers) /\ DOMAIN threads = 1..Len(threads)
  BY DEF OffersTyped, Held
<1>2. /\ [offers[j] EXCEPT !.status = s] \in OfferRows
      /\ [threads[i] EXCEPT !.status = u] \in Threads
  BY <1>1 DEF OfferRows, Threads
<1>3. /\ offers' = [offers EXCEPT ![j] = [offers[j] EXCEPT !.status = s]]
      /\ threads' = [threads EXCEPT ![i] = [threads[i] EXCEPT !.status = u]]
  OBVIOUS
<1> HIDE DEF i, j
<1>4. /\ offers' \in Seq(OfferRows) /\ Len(offers') = Len(offers)
      /\ \A k \in 1..Len(offers) :
            offers'[k] = IF k = j THEN [offers[j] EXCEPT !.status = s] ELSE offers[k]
  <2> DEFINE e == [offers[j] EXCEPT !.status = s]
  <2>1. e \in OfferRows /\ offers' = [offers EXCEPT ![j] = e]
    BY <1>2, <1>3
  <2> HIDE DEF e
  <2>2. /\ [offers EXCEPT ![j] = e] \in Seq(OfferRows)
        /\ Len([offers EXCEPT ![j] = e]) = Len(offers)
        /\ \A k \in 1..Len(offers) : [offers EXCEPT ![j] = e][k] = IF k = j THEN e ELSE offers[k]
    BY <1>1, <2>1, ExceptSeq
  <2> QED
    BY <2>1, <2>2 DEF e
<1>5. threads' \in Seq(Threads) /\ Len(threads') = Len(threads)
  <2> DEFINE e == [threads[i] EXCEPT !.status = u]
  <2>1. e \in Threads /\ threads' = [threads EXCEPT ![i] = e]
    BY <1>2, <1>3
  <2> HIDE DEF e
  <2>2. /\ [threads EXCEPT ![i] = e] \in Seq(Threads)
        /\ Len([threads EXCEPT ![i] = e]) = Len(threads)
    BY <1>1, <2>1, ExceptSeq
  <2> QED
    BY <2>1, <2>2
<1>6. DOMAIN offers' = DOMAIN offers /\ DOMAIN threads' = DOMAIN threads
  BY <1>1, <1>4, <1>5
<1>7. \A k \in DOMAIN offers : /\ offers'[k].thread = offers[k].thread
                               /\ offers'[k].deal = offers[k].deal
                               /\ offers'[k].seq = offers[k].seq
  BY <1>1, <1>4 DEF OfferRows
<1>8. offers'[j].status = s /\ \A k \in DOMAIN offers \ {j} : offers'[k] = offers[k]
  BY <1>1, <1>4 DEF OfferRows
<1> QED
  BY <1>4, <1>5, <1>6, <1>7, <1>8 DEF OffersTyped, OffersKept, j

LEMMA AppendedRow ==
    ASSUME OffersTyped, NEW thread \in DOMAIN threads', NEW deal \in Deals, NEW seq \in 1..MaxRounds,
           NEW status \in Statuses, NEW rest \in Seq(OfferRows),
           Len(rest) = Len(offers),
           \A j \in DOMAIN offers : /\ rest[j].thread = offers[j].thread
                                    /\ rest[j].deal = offers[j].deal
                                    /\ rest[j].seq = offers[j].seq,
           threads' \in Seq(Threads), Len(threads') >= Len(threads),
           offers' = Append(rest, Offer(thread, deal, seq, status))
    PROVE  /\ OffersTyped' /\ OffersKept
           /\ DOMAIN offers' = DOMAIN offers \cup {Len(offers) + 1}
           /\ \A j \in DOMAIN offers : offers'[j] = rest[j]
           /\ offers'[Len(offers) + 1] = Offer(thread, deal, seq, status)
<1> DEFINE n == Len(offers)
           row == Offer(thread, deal, seq, status)
<1>1. /\ n \in Nat /\ DOMAIN offers = 1..n /\ DOMAIN rest = 1..n
      /\ DOMAIN threads = 1..Len(threads) /\ DOMAIN threads' = 1..Len(threads')
      /\ Len(threads) \in Nat /\ Len(threads') \in Nat
  BY DEF OffersTyped
<1>2. row \in OfferRows /\ row.thread = thread
  BY <1>1 DEF Offer, OfferRows
<1> HIDE DEF row
<1>3. /\ offers' \in Seq(OfferRows) /\ Len(offers') = n + 1
      /\ \A j \in 1..n : offers'[j] = rest[j]
      /\ offers'[n + 1] = row
  BY <1>2, AppendProperties DEF row
<1>4. DOMAIN offers' = 1..(n + 1) /\ 1..(n + 1) = (1..n) \cup {n + 1}
  BY <1>1, <1>3
<1>5. OffersTyped'
  BY <1>1, <1>2, <1>3, <1>4 DEF OffersTyped
<1>6. OffersKept
  BY <1>1, <1>3, <1>4 DEF OffersKept
<1> QED
  BY <1>1, <1>3, <1>4, <1>5, <1>6 DEF row

LEMMA ProposeRows ==
    ASSUME OffersTyped, NEW deal \in Deals, NEW expires \in BOOLEAN, Propose(deal, expires)
    PROVE  /\ OffersTyped' /\ OffersKept
           /\ DOMAIN offers' = DOMAIN offers \cup {Len(offers) + 1}
           /\ \A j \in DOMAIN offers : offers'[j] = offers[j]
           /\ offers'[Len(offers) + 1] = Offer(Len(threads) + 1, deal, 1, "PROPOSED")
<1>1. /\ threads' = Append(threads, [status |-> "PROPOSED", rounds |-> 1, expires |-> expires])
      /\ offers' = Append(offers, Offer(Len(threads) + 1, deal, 1, "PROPOSED"))
  BY DEF Propose
<1>2. threads \in Seq(Threads) /\ Len(threads) \in Nat /\ 1 \in 1..MaxRounds
  BY TradesAssumption DEF OffersTyped
<1>3. [status |-> "PROPOSED", rounds |-> 1, expires |-> expires] \in Threads
  BY <1>2 DEF Threads, Statuses, PendingStates
<1>4. threads' \in Seq(Threads) /\ Len(threads') = Len(threads) + 1
  BY <1>1, <1>2, <1>3, AppendProperties
<1>5. Len(threads) + 1 \in DOMAIN threads'
  BY <1>2, <1>4
<1>6. "PROPOSED" \in Statuses /\ offers \in Seq(OfferRows)
  BY DEF Statuses, PendingStates, OffersTyped
<1>7. Len(threads') >= Len(threads)
  BY <1>2, <1>4
<1> QED
  BY <1>1, <1>2, <1>4, <1>5, <1>6, <1>7, AppendedRow

LEMMA CounterRows ==
    ASSUME OffersTyped, NEW rows, Held(rows), NEW deal \in Deals, Counter(rows, deal)
    PROVE  /\ OffersTyped' /\ OffersKept
           /\ DOMAIN offers' = DOMAIN offers \cup {Len(offers) + 1}
           /\ \A j \in DOMAIN offers : offers'[j].status \in {offers[j].status, "COUNTERED"}
           /\ offers'[Len(offers) + 1] = Offer(rows.thread, deal, rows.th.rounds + 1, "COUNTERED")
<1> DEFINE j == rows.offer
           i == rows.thread
           s == Written(offers[j].status, rows.o.status, "COUNTERED")
           u == Written(threads[i].status, rows.th.status, "COUNTERED")
           n == rows.th.rounds + 1
           rest == [offers EXCEPT ![j] = [offers[j] EXCEPT !.status = s]]
<1>1. /\ offers \in Seq(OfferRows) /\ j \in 1..Len(offers) /\ offers[j] \in OfferRows
      /\ threads \in Seq(Threads) /\ i \in 1..Len(threads) /\ threads[i] \in Threads
      /\ DOMAIN offers = 1..Len(offers) /\ DOMAIN threads = 1..Len(threads)
  <2>1. /\ offers \in Seq(OfferRows) /\ threads \in Seq(Threads)
        /\ j \in DOMAIN offers /\ i \in DOMAIN threads
    BY DEF OffersTyped, Held
  <2> HIDE DEF i, j
  <2> QED
    BY <2>1
<1>2. /\ s \in {offers[j].status, "COUNTERED"}
      /\ u \in {threads[i].status, "COUNTERED"}
  BY DEF Written
<1>3. n \in 1..MaxRounds
  BY TradesAssumption DEF Counter, RoundsLeft, Held
<1>4. threads' = [threads EXCEPT ![i] = [threads[i] EXCEPT !.status = u, !.rounds = n]]
  BY DEF Counter
<1>5. offers' = Append(rest, Offer(i, deal, n, "COUNTERED"))
  BY DEF Counter
<1> HIDE DEF i, j, s, u, n
<1>6. /\ [offers[j] EXCEPT !.status = s] \in OfferRows
      /\ [threads[i] EXCEPT !.status = u, !.rounds = n] \in Threads
  BY <1>1, <1>2, <1>3 DEF OfferRows, Threads, Statuses, PendingStates
<1>7. /\ rest \in Seq(OfferRows) /\ Len(rest) = Len(offers)
      /\ \A k \in 1..Len(offers) :
            rest[k] = IF k = j THEN [offers[j] EXCEPT !.status = s] ELSE offers[k]
  BY <1>1, <1>6, ExceptSeq
<1>8. threads' \in Seq(Threads) /\ Len(threads') = Len(threads)
  BY <1>1, <1>4, <1>6, ExceptSeq
<1>9. i \in DOMAIN threads'
  BY <1>1, <1>8
<1>10. \A k \in DOMAIN offers : /\ rest[k].thread = offers[k].thread
                                /\ rest[k].deal = offers[k].deal
                                /\ rest[k].seq = offers[k].seq
                                /\ rest[k].status \in {offers[k].status, "COUNTERED"}
  BY <1>1, <1>2, <1>7 DEF OfferRows
<1>11. "COUNTERED" \in Statuses /\ Len(threads') >= Len(threads)
  BY <1>8 DEF Statuses, PendingStates, OffersTyped
<1> HIDE DEF rest
<1>12. /\ OffersTyped' /\ OffersKept
       /\ DOMAIN offers' = DOMAIN offers \cup {Len(offers) + 1}
       /\ \A k \in DOMAIN offers : offers'[k] = rest[k]
       /\ offers'[Len(offers) + 1] = Offer(i, deal, n, "COUNTERED")
  BY <1>3, <1>5, <1>7, <1>8, <1>9, <1>10, <1>11, AppendedRow
<1> QED
  BY <1>10, <1>12 DEF i, n

LEMMA ExpireRows ==
    ASSUME OffersTyped, ExpireTrades
    PROVE  /\ OffersTyped' /\ OffersKept
           /\ DOMAIN offers' = DOMAIN offers
           /\ \A j \in DOMAIN offers : offers'[j].status \in {offers[j].status, "EXPIRED"}
<1>1. /\ threads \in Seq(Threads) /\ DOMAIN threads = 1..Len(threads) /\ Len(threads) \in Nat
      /\ offers \in Seq(OfferRows) /\ DOMAIN offers = 1..Len(offers) /\ Len(offers) \in Nat
      /\ \A i \in DOMAIN threads : threads[i] \in Threads
      /\ \A j \in DOMAIN offers : offers[j] \in OfferRows
  BY DEF OffersTyped
<1>2. /\ threads' = [i \in DOMAIN threads |->
                        IF Overdue(i) THEN [threads[i] EXCEPT !.status = "EXPIRED"] ELSE threads[i]]
      /\ offers' = [j \in DOMAIN offers |->
                       IF Overdue(offers[j].thread) /\ offers[j].status \in PendingStates
                       THEN [offers[j] EXCEPT !.status = "EXPIRED"] ELSE offers[j]]
  BY DEF ExpireTrades
<1>3. \A i \in DOMAIN threads : threads'[i] \in Threads
  BY <1>1, <1>2 DEF Threads, Statuses
<1>4. \A j \in DOMAIN offers : offers'[j] \in OfferRows
  BY <1>1, <1>2 DEF OfferRows, Statuses
<1>5. \A j \in DOMAIN offers : /\ offers'[j].thread = offers[j].thread
                               /\ offers'[j].deal = offers[j].deal
                               /\ offers'[j].seq = offers[j].seq
                               /\ offers'[j].status \in {offers[j].status, "EXPIRED"}
  BY <1>1, <1>2 DEF OfferRows
<1>6. DOMAIN threads' = DOMAIN threads /\ DOMAIN offers' = DOMAIN offers
  BY <1>2
<1>7. threads' \in [1..Len(threads) -> Threads] /\ offers' \in [1..Len(offers) -> OfferRows]
  BY <1>1, <1>2, <1>3, <1>4, <1>6
<1>8. threads' \in Seq(Threads) /\ offers' \in Seq(OfferRows)
  <2>1. Len(threads) \in Nat /\ Len(offers) \in Nat
    BY <1>1
  <2>2. threads' \in Seq(Threads)
    BY <1>7, <2>1, SeqDef
  <2>3. offers' \in Seq(OfferRows)
    BY <1>7, <2>1, SeqDef
  <2> QED
    BY <2>2, <2>3
<1> QED
  BY <1>5, <1>6, <1>8 DEF OffersTyped, OffersKept
-----------------------------------------------------------------------------
(* The steps, with who asks of which rows.                                 *)

Answers(rows) == Asked(rows) /\ UNCHANGED <<clock, past>>
RequestStep ==
    /\ UNCHANGED <<roster, decided, log, clock, threads, offers>>
    /\ \/ loaded' \in {loaded, None}
       \/ \E j \in DOMAIN offers : loaded' = Rows(j)

\* An add at once or by a request whose key was new when it looked, and a drop at once
\* or of a row that was loaded before.
LateKey(k) == waiting # None /\ waiting' = None /\ waiting.for = "add" /\ waiting.key = k
LateRow(p) == waiting # None /\ waiting' = None /\ waiting.for = "drop" /\ waiting.player = p
Adds(k, t, p, d, w) == Add(k, t, p, d, w) /\ (NewRequest(k) \/ LateKey(k))
Drops(k, t, p) ==
    /\ LogDrop(k, t, p) /\ UNCHANGED <<decided, clock>>
    /\ \/ roster' = roster /\ DropsNobody(p)
       \/ /\ roster' = [roster EXCEPT ![p] = None] /\ ~KickedOff(p)
          /\ roster[p].slot = "BENCH" \/ LateRow(p)

LEMMA Steps ==
    ASSUME [Next]_vars, RowsInv
    PROVE  \/ /\ \E t \in Teams, lineup \in Lineups, w \in Weeks : SetLineup(t, lineup, w)
              /\ UNCHANGED tradeVars
           \/ /\ \E k \in Keys, t \in Teams, p \in Players, d \in Players \cup {None}, w \in Weeks :
                    Adds(k, t, p, d, w)
              /\ UNCHANGED tradeVars
           \/ /\ \E k \in Keys, t \in Teams, p \in Players : Drops(k, t, p)
              /\ UNCHANGED tradeVars
           \/ /\ \E deal \in Deals, expires \in BOOLEAN : Propose(deal, expires)
              /\ UNCHANGED <<clock, past, loaded>>
           \/ \E rows : Answers(rows) /\ \E drops : Accept(rows, drops)
           \/ \E rows : Answers(rows) /\ \E deal \in Deals : Counter(rows, deal)
           \/ \E rows : Answers(rows) /\ \E status \in {"REJECTED", "CANCELLED"} : Withdraw(rows, status)
           \/ ClockStep /\ UNCHANGED tradeVars
           \/ ExpireTrades
           \/ RequestStep
<1>1. week \in Weeks /\ \A w \in 1..week : w \in Weeks
  BY RostersAssumption DEF RowsInv, RosterTypes, Weeks
<1>2. ASSUME RosterStep
      PROVE  \/ \E t \in Teams, lineup \in Lineups, w \in Weeks : SetLineup(t, lineup, w)
             \/ \E k \in Keys, t \in Teams, p \in Players, d \in Players \cup {None}, w \in Weeks :
                   Adds(k, t, p, d, w)
             \/ \E k \in Keys, t \in Teams, p \in Players : Drops(k, t, p)
  <2>1. ASSUME NEW k \in Keys, NEW t \in Teams, NEW p \in Players, NEW d \in Players \cup {None},
               NEW w \in Weeks, NEW bypass, AddFreeAgent(k, t, p, d, w, bypass)
        PROVE  Adds(k, t, p, d, w)
    BY <2>1 DEF AddFreeAgent, Adds
  <2>2. ASSUME NEW k \in Keys, NEW t \in Teams, NEW p \in Players, ForceDrop(k, t, p)
        PROVE  Drops(k, t, p)
    BY <2>2 DEF ForceDrop, Drops
  <2>3. CASE \E t \in Teams, lineup \in Lineups, w \in Weeks : SetLineup(t, lineup, w)
    BY <2>3
  <2>4. CASE \E k \in Keys, t \in Teams, p \in Players, d \in Players \cup {None}, w \in Weeks :
                \E bypass : AddFreeAgent(k, t, p, d, w, bypass)
    BY <2>1, <2>4
  <2>5. CASE \E k \in Keys, t \in Teams, p \in Players : ForceDrop(k, t, p)
    BY <2>2, <2>5
  <2> QED
    BY <1>1, <1>2, <2>3, <2>4, <2>5 DEF RosterStep
<1>3. ASSUME NEW t \in Teams, NEW p \in Players, NEW d \in Players \cup {None}, LateAdd(t, p, d)
      PROVE  \E k \in Keys : Adds(k, t, p, d, week)
  <2>1. waiting # None /\ waiting.for = "add" /\ waiting \in Waits
    BY <1>3 DEF LateAdd, RowsInv, WaitTypes
  <2>2. waiting.key \in Keys
    BY <2>1 DEF Waits
  <2>3. Adds(waiting.key, t, p, d, week)
    BY <1>3 DEF LateAdd, Adds, LateKey
  <2> QED
    BY <2>2, <2>3
<1>4. ASSUME NEW k \in Keys, LateDrop(k)
      PROVE  \E t \in Teams, p \in Players : Drops(k, t, p)
  <2>1. waiting # None /\ waiting.for = "drop" /\ waiting \in Waits
    BY <1>4 DEF LateDrop, RowsInv, WaitTypes
  <2>2. waiting.team \in Teams /\ waiting.player \in Players
    BY <2>1 DEF Waits
  <2>3. Drops(k, waiting.team, waiting.player)
    BY <1>4 DEF LateDrop, Drops, LateRow, DropsNobody
  <2> QED
    BY <2>2, <2>3
<1>5. ASSUME NEW rows, Answers(rows), Answer(rows)
      PROVE  \/ \E r : Answers(r) /\ \E drops : Accept(r, drops)
             \/ \E r : Answers(r) /\ \E deal \in Deals : Counter(r, deal)
             \/ \E r : Answers(r) /\ \E status \in {"REJECTED", "CANCELLED"} : Withdraw(r, status)
  BY <1>5 DEF Answer
<1>6. ASSUME PromptAnswer PROVE \E rows : Answers(rows) /\ Answer(rows)
  BY <1>6 DEF PromptAnswer, Answers, Asked
<1>7. ASSUME LateAnswer PROVE \E rows : Answers(rows) /\ Answer(rows)
  BY <1>7 DEF LateAnswer, Answers, Asked
<1>8. ASSUME Load \/ LateRefusal \/ DeadlinePasses \/ UNCHANGED vars \/ (Ask /\ UNCHANGED tradeVars)
      PROVE  RequestStep
  BY <1>8 DEF Load, LateRefusal, DeadlinePasses, Ask, RequestStep, vars, rosterVars, tradeVars, clock
<1>9. CASE Move
  <2>1. CASE RosterStep /\ UNCHANGED tradeVars
    BY <1>2, <2>1
  <2>2. CASE PromptAnswer
    BY <1>5, <1>6, <2>2
  <2>3. CASE Load
    BY <1>8, <2>3
  <2>4. CASE Ask /\ UNCHANGED tradeVars
    BY <1>8, <2>4
  <2>5. CASE \E deal \in Deals, expires \in BOOLEAN :
                Propose(deal, expires) /\ UNCHANGED <<clock, past, loaded>>
    BY <2>5
  <2> QED
    BY <1>9, <2>1, <2>2, <2>3, <2>4, <2>5 DEF Move
<1>10. CASE LateStep /\ UNCHANGED <<moves, tradeVars>>
  <2>1. CASE \E t \in Teams, p \in Players, d \in Players \cup {None} : LateAdd(t, p, d)
    BY <1>1, <1>3, <1>10, <2>1 DEF tradeVars
  <2>2. CASE \E k \in Keys : LateDrop(k)
    BY <1>4, <1>10, <2>2 DEF tradeVars
  <2> QED
    BY <1>10, <2>1, <2>2 DEF LateStep
<1>11. CASE LateAnswer
  BY <1>5, <1>7, <1>11
<1>12. CASE ClockStep /\ (TimeMatters \/ UNCHANGED <<kicked, week, open>>) /\ UNCHANGED <<moves, tradeVars>>
  BY <1>12 DEF tradeVars
<1>13. CASE LateRefusal \/ DeadlinePasses \/ UNCHANGED vars
  BY <1>8, <1>13
<1>14. CASE ExpireTrades
  BY <1>14
<1> QED
  BY <1>9, <1>10, <1>11, <1>12, <1>13, <1>14 DEF Next

-----------------------------------------------------------------------------
(* Types.                                                                  *)

LEMMA LineupTypes ==
    /\ Lineups \subseteq PartialLineups
    /\ \A r, t : Current(r, t) \in PartialLineups
<1>1. Lineups \subseteq PartialLineups
  <2>1. Slots \in SUBSET Slots
    OBVIOUS
  <2> QED
    BY <2>1 DEF Lineups, PartialLineups
<1>2. ASSUME NEW r, NEW t PROVE Current(r, t) \in PartialLineups
  <2> DEFINE S == {s \in Slots : \E p \in Players : r[p] = [team |-> t, slot |-> s]}
  <2>1. Current(r, t) \in [S -> Players]
    BY DEF Current
  <2>2. S \in SUBSET Slots
    OBVIOUS
  <2> QED
    BY <2>1, <2>2 DEF PartialLineups
<1> QED
  BY <1>1, <1>2

LEMMA DecidedTypes ==
    ASSUME RosterTypes, NEW t \in Teams, NEW w \in Weeks, NEW l \in PartialLineups
    PROVE  /\ [decided EXCEPT ![t][w] = l] \in [Teams -> [Weeks -> PartialLineups \cup {None}]]
           /\ [decided[t] EXCEPT ![w] = l] \in [Weeks -> PartialLineups \cup {None}]
BY DEF RosterTypes

LEMMA InitTypes == Init => RowsInv
<1> SUFFICES ASSUME Init PROVE RowsInv
  OBVIOUS
<1> USE DEF Init, RosterInit
<1>1. decided \in [Teams -> [Weeks -> PartialLineups \cup {None}]]
  OBVIOUS
<1>2. log \in Seq(LogRows) /\ threads \in Seq(Threads) /\ offers \in Seq(OfferRows)
  BY EmptySeq
<1>3. week \in Weeks
  BY RostersAssumption DEF Weeks
<1>4. RosterTypes
  BY <1>1, <1>2, <1>3, RostersAssumption DEF RosterTypes
<1>5. TradeTypes
  BY <1>2 DEF TradeTypes
<1>6. WaitTypes
  BY DEF WaitTypes
<1> QED
  BY <1>4, <1>5, <1>6 DEF RowsInv

LEMMA RosterTypesStep == ASSUME RowsInv, [Next]_vars PROVE RosterTypes'
<1> USE DEF RowsInv
<1>1. ASSUME NEW t \in Teams, NEW lineup \in Lineups, NEW w \in Weeks, SetLineup(t, lineup, w)
      PROVE  RosterTypes'
  <2>1. roster' \in [Players -> Assignments \cup {None}]
    BY <1>1, SetLineupEffect
  <2>2. decided' \in [Teams -> [Weeks -> PartialLineups \cup {None}]]
    BY <1>1, DecidedTypes, LineupTypes DEF SetLineup
  <2> QED
    BY <1>1, <2>1, <2>2 DEF SetLineup, clock, RosterTypes
<1>2. ASSUME NEW k \in Keys, NEW t \in Teams, NEW p \in Players, NEW d \in Players \cup {None},
             NEW w \in Weeks, Adds(k, t, p, d, w)
      PROVE  RosterTypes'
  <2>1. roster' \in [Players -> Assignments \cup {None}]
    <3>1. AddedFor(t, p, d)
      BY <1>2, AddEffect DEF Adds
    <3> QED
      BY <3>1 DEF AddedFor
  <2>2. log' \in Seq(LogRows)
    <3>1. (NewRequest(k) => LogGrows(AddedRecords(k, t, p, d, w))) /\ (~NewRequest(k) => log' = log)
      BY <1>2, AddLogged DEF Adds
    <3> QED
      BY <3>1 DEF LogGrows, RosterTypes
  <2>3. decided' \in [Teams -> [Weeks -> PartialLineups \cup {None}]]
    <3>1. decided' = decided \/ decided' = [decided EXCEPT ![t][w] = Current(roster', t)]
      BY <1>2 DEF Adds, Add, DecidedAnew
    <3>2. Current(roster', t) \in PartialLineups
      BY LineupTypes
    <3>3. [decided EXCEPT ![t][w] = Current(roster', t)] \in [Teams -> [Weeks -> PartialLineups \cup {None}]]
      BY <3>2, DecidedTypes
    <3> QED
      BY <3>1, <3>3 DEF RosterTypes
  <2> QED
    BY <1>2, <2>1, <2>2, <2>3 DEF Adds, Add, clock, RosterTypes
<1>3. ASSUME NEW k \in Keys, NEW t \in Teams, NEW p \in Players, Drops(k, t, p) PROVE RosterTypes'
  <2>1. roster' \in [Players -> Assignments \cup {None}]
    BY <1>3, DropEffect DEF Drops, RosterTypes
  <2>2. log' \in Seq(LogRows)
    <3>1. LogGrows(DropRecords(k, t, p))
      BY <1>3, DropLogged DEF Drops
    <3> QED
      BY <3>1 DEF LogGrows
  <2> QED
    BY <1>3, <2>1, <2>2 DEF Drops, clock, RosterTypes
<1>4. ASSUME NEW rows, Answers(rows), NEW drops, Accept(rows, drops) PROVE RosterTypes'
  <2>1. Held(rows)
    BY <1>4, AskedHeld DEF Answers
  <2> DEFINE deal == rows.o.deal
             j == rows.offer
  <2>2. deal \in Deals /\ j \in Nat
    BY <2>1, HeldTypes DEF TradeTypes, OffersTyped
  <2>3. /\ Owned(deal) /\ Droppable(deal.from, deal.drops, deal) /\ Droppable(deal.to, drops, deal)
        /\ log' = log \o SetToSeq(NewRecords(j, deal, drops))
    BY <1>4 DEF Accept, NewRecords
  <2>4. PICK plan : Settled(deal, drops, plan)
    BY <1>4, AcceptSettles
  <2> HIDE DEF deal, j
  <2>5. roster' \in [Players -> Assignments \cup {None}]
    BY <2>2, <2>3, <2>4, AcceptEffect DEF TradeEffect
  <2>6. log' \in Seq(LogRows)
    <3>1. LogGrows(NewRecords(j, deal, drops))
      BY <2>2, <2>3, TradeLogged
    <3> QED
      BY <3>1 DEF LogGrows
  <2>7. decided' \in [Teams -> [Weeks -> PartialLineups \cup {None}]]
    <3>1. \A t \in DOMAIN plan : plan[t] \in PartialLineups
      BY <2>4, LineupTypes DEF Settled
    <3>2. week \in Weeks
      BY DEF RosterTypes
    <3>3. \A t \in Teams : t \in DOMAIN plan =>
             [decided[t] EXCEPT ![week] = plan[t]] \in [Weeks -> PartialLineups \cup {None}]
      BY <3>1, <3>2, DecidedTypes
    <3>4. \A t \in Teams : decided[t] \in [Weeks -> PartialLineups \cup {None}]
      BY DEF RosterTypes
    <3> QED
      BY <2>4, <3>3, <3>4 DEF Settled
  <2> QED
    BY <1>4, <2>5, <2>6, <2>7 DEF Answers, clock, RosterTypes
<1>5. CASE \E deal \in Deals, expires \in BOOLEAN : Propose(deal, expires) /\ UNCHANGED <<clock, past, loaded>>
  BY <1>5 DEF Propose, clock, RosterTypes
<1>6. ASSUME NEW rows, Answers(rows), NEW deal, Counter(rows, deal) PROVE RosterTypes'
  BY <1>6 DEF Answers, Counter, clock, RosterTypes
<1>7. ASSUME NEW rows, Answers(rows), NEW status, Withdraw(rows, status) PROVE RosterTypes'
  BY <1>7 DEF Answers, Withdraw, clock, RosterTypes
<1>8. CASE ClockStep
  <2>1. week' \in Weeks
    BY <1>8, RostersAssumption
       DEF ClockStep, Kickoff, WaiversClear, NextWeek, SetLock, RosterTypes, Weeks
  <2>2. kicked' \subseteq {Game[p] : p \in Players}
    BY <1>8 DEF ClockStep, Kickoff, WaiversClear, NextWeek, SetLock, RosterTypes
  <2>3. open' \in BOOLEAN /\ locked' \in BOOLEAN
    BY <1>8 DEF ClockStep, Kickoff, WaiversClear, NextWeek, SetLock, RosterTypes
  <2> QED
    BY <1>8, <2>1, <2>2, <2>3 DEF ClockStep, RosterTypes
<1>9. CASE ExpireTrades
  BY <1>9 DEF ExpireTrades, rosterVars, clock, RosterTypes
<1>10. CASE RequestStep
  BY <1>10 DEF RequestStep, clock, RosterTypes
<1> QED
  BY <1>1, <1>2, <1>3, <1>4, <1>5, <1>6, <1>7, <1>8, <1>9, <1>10, Steps

\* A waiting request is replaced by none or by a new one; its row may be gone.
LEMMA WaitTypesStep == ASSUME RowsInv, [Next]_vars PROVE WaitTypes'
<1>1. waiting \in Waits \cup {None} /\ week \in Weeks
  BY DEF RowsInv, WaitTypes, RosterTypes
<1>2. CASE waiting' \in {waiting, None}
  BY <1>1, <1>2 DEF WaitTypes, Waits
<1>3. CASE RowsGo
  <2>1. [waiting EXCEPT !.there = FALSE] \in Waits \/ ~(waiting # None /\ waiting.for = "drop")
    BY <1>1 DEF Waits
  <2> QED
    BY <1>1, <1>3, <2>1 DEF RowsGo, WaitTypes, Waits
<1>4. ASSUME NEW k \in Keys, AskAdd(k) PROVE WaitTypes'
  BY <1>1, <1>4 DEF AskAdd, WaitTypes, Waits
<1>5. ASSUME NEW t \in Teams, NEW p \in Players, AskDrop(t, p) PROVE WaitTypes'
  BY <1>1, <1>5 DEF AskDrop, WaitTypes, Waits
<1>6. CASE RosterStep
  BY <1>2, <1>3, <1>6 DEF RosterStep, SetLineup, AddFreeAgent, ForceDrop
<1>7. CASE LateStep
  BY <1>2, <1>7 DEF LateStep, LateAdd, LateDrop
<1>8. ASSUME NEW rows, Answer(rows) PROVE WaitTypes'
  BY <1>2, <1>3, <1>8 DEF Answer, Accept, Counter, Withdraw
<1>9. CASE Move
  <2>1. CASE Ask
    BY <1>4, <1>5, <2>1 DEF Ask
  <2>2. CASE PromptAnswer
    BY <1>8, <2>2 DEF PromptAnswer
  <2> QED
    BY <1>2, <1>6, <1>9, <2>1, <2>2 DEF Move, Propose, Load
<1>10. CASE LateAnswer
  BY <1>8, <1>10 DEF LateAnswer
<1>11. CASE ClockStep \/ LateRefusal \/ DeadlinePasses \/ ExpireTrades \/ UNCHANGED vars
  BY <1>2, <1>11 DEF ClockStep, LateRefusal, DeadlinePasses, ExpireTrades, rosterVars, vars
<1> QED
  BY <1>7, <1>9, <1>10, <1>11 DEF Next

\* An accepted offer is the one asked about.
LEMMA AcceptRows ==
    ASSUME OffersTyped, NEW rows, Held(rows), NEW drops, Accept(rows, drops)
    PROVE  /\ OffersTyped' /\ OffersKept /\ DOMAIN offers' = DOMAIN offers
           /\ offers'[rows.offer].status = "ACCEPTED"
           /\ \A j \in DOMAIN offers \ {rows.offer} : offers'[j] = offers[j]
<1>1. "ACCEPTED" \in Statuses \cup {"ACCEPTED"} /\ "PROCESSED" \in Statuses
  BY DEF Statuses
<1>2. /\ offers' = [offers EXCEPT ![rows.offer].status = "ACCEPTED"]
      /\ threads' = [threads EXCEPT ![rows.thread].status = "PROCESSED"]
  BY DEF Accept
<1> QED
  BY <1>1, <1>2, AnswerRows

LEMMA WithdrawRows ==
    ASSUME OffersTyped, NEW rows, Held(rows), NEW status \in {"REJECTED", "CANCELLED"},
           Withdraw(rows, status)
    PROVE  /\ OffersTyped' /\ OffersKept /\ DOMAIN offers' = DOMAIN offers
           /\ offers'[rows.offer].status = status
           /\ \A j \in DOMAIN offers \ {rows.offer} : offers'[j] = offers[j]
<1>1. status \in Statuses /\ status \in Statuses \cup {"ACCEPTED"}
  BY DEF Statuses
<1>2. /\ offers' = [offers EXCEPT ![rows.offer].status = status]
      /\ threads' = [threads EXCEPT ![rows.thread].status = status]
  BY DEF Withdraw
<1> QED
  BY <1>1, <1>2, AnswerRows

LEMMA OffersStep ==
    ASSUME RowsInv, [Next]_vars
    PROVE  /\ OffersTyped' /\ OffersKept
           /\ \/ loaded' \in {loaded, None}
              \/ UNCHANGED <<threads, offers>> /\ \E j \in DOMAIN offers : loaded' = Rows(j)
<1> USE DEF RowsInv
<1>1. OffersTyped /\ RosterTypes /\ TradeTypes
  BY DEF TradeTypes, OffersTyped
<1>2. ASSUME UNCHANGED <<threads, offers>> PROVE OffersTyped' /\ OffersKept
  BY <1>1, <1>2 DEF OffersTyped, OffersKept
<1>3. ASSUME UNCHANGED tradeVars
      PROVE  OffersTyped' /\ OffersKept /\ loaded' = loaded
  BY <1>2, <1>3 DEF tradeVars
<1>4. ASSUME NEW deal \in Deals, NEW expires \in BOOLEAN, Propose(deal, expires),
             UNCHANGED <<clock, past, loaded>>
      PROVE  OffersTyped' /\ OffersKept /\ loaded' = loaded
  BY <1>1, <1>4, ProposeRows
<1>5. ASSUME NEW rows, Answers(rows) PROVE Held(rows) /\ loaded' \in {loaded, None}
  BY <1>1, <1>5, AskedHeld DEF Answers, Asked
<1>6. ASSUME NEW rows, Answers(rows), NEW drops, Accept(rows, drops)
      PROVE  OffersTyped' /\ OffersKept /\ loaded' \in {loaded, None}
  BY <1>1, <1>5, <1>6, AcceptRows
<1>7. ASSUME NEW rows, Answers(rows), NEW deal \in Deals, Counter(rows, deal)
      PROVE  OffersTyped' /\ OffersKept /\ loaded' \in {loaded, None}
  BY <1>1, <1>5, <1>7, CounterRows
<1>8. ASSUME NEW rows, Answers(rows), NEW status \in {"REJECTED", "CANCELLED"}, Withdraw(rows, status)
      PROVE  OffersTyped' /\ OffersKept /\ loaded' \in {loaded, None}
  BY <1>1, <1>5, <1>8, WithdrawRows
<1>9. ASSUME ExpireTrades PROVE OffersTyped' /\ OffersKept /\ loaded' = loaded
  <2>1. OffersTyped' /\ OffersKept
    BY <1>1, <1>9, ExpireRows
  <2> QED
    BY <1>9, <2>1 DEF ExpireTrades
<1>10. ASSUME RequestStep
       PROVE  /\ OffersTyped' /\ OffersKept /\ UNCHANGED <<threads, offers>>
              /\ loaded' \in {loaded, None} \/ \E j \in DOMAIN offers : loaded' = Rows(j)
  BY <1>2, <1>10 DEF RequestStep
<1> QED
  BY <1>1, <1>3, <1>4, <1>6, <1>7, <1>8, <1>9, <1>10, Steps

LEMMA TradeTypesStep == ASSUME RowsInv, [Next]_vars PROVE TradeTypes'
<1>1. /\ OffersTyped' /\ OffersKept
      /\ \/ loaded' \in {loaded, None}
         \/ UNCHANGED <<threads, offers>> /\ \E j \in DOMAIN offers : loaded' = Rows(j)
  BY OffersStep
<1>2. OffersTyped
  BY DEF RowsInv, TradeTypes, OffersTyped
<1>3. loaded' # None => Held(loaded)'
  <2>1. CASE loaded' = loaded
    <3>1. loaded # None => Held(loaded)
      BY DEF RowsInv, TradeTypes
    <3> QED
      BY <1>1, <2>1, <3>1 DEF Held, OffersKept
  <2>2. ASSUME UNCHANGED <<threads, offers>>, NEW j \in DOMAIN offers, loaded' = Rows(j)
        PROVE  Held(loaded)'
    <3>1. Held(Rows(j))
      BY <1>2, <2>2, RowsHeld
    <3> QED
      BY <2>2, <3>1 DEF Held
  <2> QED
    BY <1>1, <2>1, <2>2
<1> QED
  BY <1>1, <1>3 DEF TradeTypes, OffersTyped

LEMMA RowsStep == RowsInv /\ [Next]_vars => RowsInv'
BY RosterTypesStep, TradeTypesStep, WaitTypesStep DEF RowsInv

\* Every column keeps its type, and a waiting request's rows are rows of an offer.
THEOREM RowsCorrect == Spec => []RowsInv
<1> QED
  BY InitTypes, RowsStep, PTL DEF Spec

\* Offers, threads, records, rosters and the clock keep to their types.
THEOREM TradeTypesCorrect == Spec => []TypeOK
<1>1. RowsInv => TypeOK
  BY RowsTyped
<1> QED
  BY <1>1, RowsCorrect, PTL
-----------------------------------------------------------------------------
(* Rosters keep to the rules.                                              *)

\* A trade leaves the starters of a team that loses none as they are.
LEMMA StartersKept ==
    ASSUME RosterTypes, NEW deal \in Deals, NEW drops, NEW plan, TradeEffect(deal, drops, plan),
           NEW t \in Teams, t \notin LosesStarter(deal, drops)
    PROVE  /\ StartersIn(roster', t) = StartersIn(roster, t)
           /\ \A p \in StartersIn(roster, t) : roster'[p] = roster[p]
<1>1. t \in {deal.from, deal.to} => StartersIn(roster, t) \cap Gone(deal, drops) = {}
  BY RosterNow DEF LosesStarter
<1>2. \A p \in RosterIn(roster, t) : p \notin Gone(deal, drops) => roster'[p] = roster[p]
  BY DEF TradeEffect, RosterIn
<1>3. CASE t \in {deal.from, deal.to}
  <2>1. \A p \in StartersIn(roster, t) : roster'[p] = roster[p]
    BY <1>1, <1>2, <1>3 DEF StartersIn
  <2>2. RosterIn(roster', t) = (RosterIn(roster, t) \ Gone(deal, drops)) \cup Incoming(t, deal)
    BY <1>3 DEF TradeEffect
  <2>3. Incoming(t, deal) \subseteq PlayersOf(deal)
    BY DEF Incoming, PlayersOf
  <2>4. \A p \in PlayersOf(deal) : p \in RosterIn(roster', t) => roster'[p].slot = "BENCH"
    BY DEF TradeEffect, RosterIn
  <2>5. \A p \in StartersIn(roster', t) : p \in RosterIn(roster, t) \ Gone(deal, drops)
    BY <2>2, <2>3, <2>4 DEF StartersIn
  <2>6. \A p \in StartersIn(roster', t) : p \in StartersIn(roster, t)
    BY <1>2, <2>5 DEF StartersIn
  <2>7. \A p \in StartersIn(roster, t) : p \in StartersIn(roster', t)
    BY <1>1, <1>3, <2>1, <2>2 DEF StartersIn
  <2> QED
    BY <2>1, <2>6, <2>7
<1>4. CASE t \notin {deal.from, deal.to}
  <2>1. RosterIn(roster', t) = RosterIn(roster, t)
    BY <1>4 DEF TradeEffect
  <2>2. \A p \in RosterIn(roster, t) : p \notin Gone(deal, drops)
    <3> SUFFICES ASSUME NEW p \in RosterIn(roster, t), p \in Gone(deal, drops) PROVE FALSE
      OBVIOUS
    <3>1. roster'[p] # None /\ roster'[p].team = t /\ roster[p].team = t
      BY <2>1 DEF RosterIn
    <3> QED
      BY <1>4, <3>1 DEF TradeEffect, Moves, Gone, PlayersOf
  <2> QED
    BY <1>2, <2>1, <2>2 DEF StartersIn
<1> QED
  BY <1>3, <1>4

LEMMA LawfulStep == ASSUME RowsInv, RostersLegal, [Next]_vars PROVE RostersLegal'
<1> SUFFICES \A u \in Teams : LawfulFor(roster', u)
  <2>1. RostersLegal' <=> Lawful(roster')
    BY DEF RostersLegal, Lawful, Capacity
  <2> QED
    BY <2>1, LawfulTeams
<1>1. /\ \A u \in Teams : LawfulFor(roster, u)
      /\ RosterTypes /\ TradeTypes /\ OffersTyped
  BY RosterNow DEF RowsInv, TradeTypes, OffersTyped
<1>2. ASSUME NEW u \in Teams, RosterIn(roster', u) = RosterIn(roster, u),
             \A q \in RosterIn(roster, u) : roster'[q] = roster[q]
      PROVE  LawfulFor(roster', u)
  BY <1>1, <1>2, SameRules
<1>3. ASSUME UNCHANGED roster PROVE \A u \in Teams : LawfulFor(roster', u)
  BY <1>1, <1>3
<1>4. ASSUME NEW t \in Teams, NEW lineup \in Lineups, NEW w \in Weeks, SetLineup(t, lineup, w)
      PROVE  \A u \in Teams : LawfulFor(roster', u)
  <2>1. /\ roster' \in [Players -> Assignments \cup {None}]
        /\ \A u : RosterIn(roster', u) = RosterIn(roster, u)
        /\ \A p \in Players : roster[p] = None \/ roster[p].team # t => roster'[p] = roster[p]
        /\ FieldedAs(roster', t, lineup) /\ Legal(lineup, RosterIn(roster', t))
    BY <1>1, <1>4, SetLineupEffect
  <2>2. \A u \in Teams \ {t} : LawfulFor(roster', u)
    BY <1>2, <2>1 DEF RosterIn
  <2>3. LawfulFor(roster', t)
    BY <1>1, <2>1, FieldedLawfully DEF LawfulFor
  <2> QED
    BY <2>2, <2>3
<1>5. ASSUME NEW k \in Keys, NEW t \in Teams, NEW p \in Players, NEW d \in Players \cup {None},
             NEW w \in Weeks, Adds(k, t, p, d, w)
      PROVE  \A u \in Teams : LawfulFor(roster', u)
  <2>1. /\ roster' \in [Players -> Assignments \cup {None}]
        /\ roster[p] = None /\ p # d /\ p \notin RosterIn(roster, t)
        /\ d # None => d \in RosterIn(roster, t)
        /\ Inherited(d) \in Slots \cup {"BENCH"}
        /\ roster'[p] = [team |-> t, slot |-> Inherited(d)]
        /\ d # None => roster'[d] = None
        /\ \A q \in Players \ {p, d} : roster'[q] = roster[q]
        /\ RosterIn(roster', t) = (RosterIn(roster, t) \ {d}) \cup {p}
        /\ \A u \in Teams \ {t} : /\ RosterIn(roster', u) = RosterIn(roster, u)
                                  /\ \A q \in RosterIn(roster, u) : roster'[q] = roster[q]
    <3>1. AddedFor(t, p, d)
      BY <1>1, <1>5, AddEffect DEF Adds
    <3> QED
      BY <3>1 DEF AddedFor
  <2>2. \A u \in Teams \ {t} : LawfulFor(roster', u)
    BY <1>2, <2>1
  <2>3. Cardinality(RosterIn(roster', t)) <= Capacity
    <3>1. Cardinality(RosterIn(roster, t) \ {d}) < Capacity
      BY <1>5, RosterNow DEF Adds, Add, RoomFor
    <3>2. IsFiniteSet(RosterIn(roster, t) \ {d})
      BY RosterFinite, FS_RemoveElement
    <3>3. Cardinality(RosterIn(roster, t) \ {d}) \in Nat
      BY <3>2, FS_CardinalityType
    <3>4. Cardinality(RosterIn(roster', t)) = Cardinality(RosterIn(roster, t) \ {d}) + 1
      BY <2>1, <3>2, FS_AddElement
    <3>5. Capacity \in Nat
      BY RostersAssumption, FS_CardinalityType DEF Capacity
    <3> QED
      BY <3>1, <3>3, <3>4, <3>5
  <2>4. Inherited(d) # "BENCH" => /\ d # None /\ d \in StartersIn(roster, t)
                                  /\ Inherited(d) = roster[d].slot /\ Eligible(p, Inherited(d))
    BY <1>5, <2>1 DEF Inherited, Adds, Add, StartersIn
  <2>5. \A q \in StartersIn(roster', t) :
           IF q = p THEN Inherited(d) # "BENCH" /\ roster'[q].slot = Inherited(d)
           ELSE q \in StartersIn(roster, t) \ {d} /\ roster'[q] = roster[q]
    BY <2>1 DEF StartersIn, RosterIn
  <2>6. \A q \in StartersIn(roster', t) :
           /\ Eligible(q, roster'[q].slot)
           /\ \A s \in StartersIn(roster', t) \ {q} : roster'[q].slot # roster'[s].slot
    <3> SUFFICES ASSUME NEW q \in StartersIn(roster', t)
                 PROVE  /\ Eligible(q, roster'[q].slot)
                        /\ \A s \in StartersIn(roster', t) \ {q} : roster'[q].slot # roster'[s].slot
      OBVIOUS
    <3>1. \A x \in StartersIn(roster, t) :
             /\ Eligible(x, roster[x].slot)
             /\ \A y \in StartersIn(roster, t) \ {x} : roster[x].slot # roster[y].slot
      BY <1>1 DEF LawfulFor
    <3>2. Eligible(q, roster'[q].slot)
      BY <2>4, <2>5, <3>1
    <3>3. ASSUME NEW s \in StartersIn(roster', t) \ {q} PROVE roster'[q].slot # roster'[s].slot
      <4>1. CASE q = p
        BY <2>4, <2>5, <3>1, <4>1
      <4>2. CASE s = p
        BY <2>4, <2>5, <3>1, <4>2
      <4>3. CASE q # p /\ s # p
        BY <2>5, <3>1, <4>3
      <4> QED
        BY <4>1, <4>2, <4>3
    <3> QED
      BY <3>2, <3>3
  <2> QED
    BY <2>2, <2>3, <2>6 DEF LawfulFor
<1>6. ASSUME NEW k \in Keys, NEW t \in Teams, NEW p \in Players, Drops(k, t, p)
      PROVE  \A u \in Teams : LawfulFor(roster', u)
  <2>1. CASE roster' = roster
    BY <1>3, <2>1
  <2>2. CASE roster' = [roster EXCEPT ![p] = None]
    <3>1. /\ \A q \in Players \ {p} : roster'[q] = roster[q]
          /\ \A u \in Teams : /\ RosterIn(roster', u) = RosterIn(roster, u) \ {p}
                              /\ StartersIn(roster', u) = StartersIn(roster, u) \ {p}
      BY <1>1, <2>2, DropEffect
    <3>2. ASSUME NEW u \in Teams PROVE Cardinality(RosterIn(roster', u)) <= Capacity
      <4>1. IsFiniteSet(RosterIn(roster, u))
        BY RosterFinite
      <4>2. Cardinality(RosterIn(roster', u)) <= Cardinality(RosterIn(roster, u))
        BY <3>1, <4>1, FS_Subset
      <4>3. /\ Cardinality(RosterIn(roster, u)) \in Nat
            /\ Cardinality(RosterIn(roster', u)) \in Nat
        BY <3>1, <4>1, FS_CardinalityType, FS_Subset
      <4>4. Capacity \in Nat /\ Cardinality(RosterIn(roster, u)) <= Capacity
        BY <1>1, RostersAssumption, FS_CardinalityType DEF Capacity, LawfulFor
      <4> QED
        BY <4>2, <4>3, <4>4
    <3>3. \A u \in Teams : \A q \in StartersIn(roster', u) : q \in StartersIn(roster, u) /\ roster'[q] = roster[q]
      BY <3>1 DEF StartersIn, RosterIn
    <3> QED
      BY <1>1, <3>2, <3>3 DEF LawfulFor
  <2> QED
    BY <1>6, <2>1, <2>2 DEF Drops
<1>7. ASSUME NEW rows, Answers(rows), NEW drops, Accept(rows, drops)
      PROVE  \A u \in Teams : LawfulFor(roster', u)
  <2> DEFINE deal == rows.o.deal
  <2>1. Held(rows) /\ deal \in Deals
    BY <1>1, <1>7, AskedHeld, HeldTypes DEF Answers
  <2>2. PICK plan : Settled(deal, drops, plan)
    BY <1>7, AcceptSettles
  <2>3. /\ Owned(deal) /\ Droppable(deal.from, deal.drops, deal) /\ Droppable(deal.to, drops, deal)
        /\ Fits(deal, drops)
    BY <1>7 DEF Accept
  <2> HIDE DEF deal
  <2>4. TradeEffect(deal, drops, plan)
    BY <1>1, <2>1, <2>2, <2>3, AcceptEffect
  <2>5. \A u \in Teams : Cardinality(RosterIn(roster', u)) <= Capacity
    <3>1. \A u \in {deal.from, deal.to} : Cardinality(RosterIn(roster', u)) <= Capacity
      BY <2>3, <2>4, RosterNow DEF Fits, TradeEffect
    <3>2. \A u \in Teams \ {deal.from, deal.to} : Cardinality(RosterIn(roster', u)) <= Capacity
      BY <1>1, <2>4 DEF LawfulFor, TradeEffect
    <3> QED
      BY <3>1, <3>2
  <2>6. ASSUME NEW u \in Teams, u \in LosesStarter(deal, drops)
        PROVE  \A p \in StartersIn(roster', u) :
                  /\ Eligible(p, roster'[p].slot)
                  /\ \A q \in StartersIn(roster', u) \ {p} : roster'[p].slot # roster'[q].slot
    <3>1. /\ roster' \in [Players -> Assignments \cup {None}] /\ plan[u] \in Lineups
          /\ Legal(plan[u], RosterIn(roster', u)) /\ FieldedAs(roster', u, plan[u])
      BY <2>4, <2>6 DEF TradeEffect
    <3> QED
      BY <3>1, FieldedLawfully
  <2>7. ASSUME NEW u \in Teams, u \notin LosesStarter(deal, drops)
        PROVE  \A p \in StartersIn(roster', u) :
                  /\ Eligible(p, roster'[p].slot)
                  /\ \A q \in StartersIn(roster', u) \ {p} : roster'[p].slot # roster'[q].slot
    <3>1. /\ StartersIn(roster', u) = StartersIn(roster, u)
          /\ \A p \in StartersIn(roster, u) : roster'[p] = roster[p]
      BY <1>1, <2>1, <2>4, <2>7, StartersKept
    <3> QED
      BY <1>1, <3>1 DEF LawfulFor
  <2> QED
    BY <2>5, <2>6, <2>7 DEF LawfulFor
<1>8. ASSUME NEW rows, NEW deal, Counter(rows, deal) PROVE UNCHANGED roster
  BY <1>8 DEF Counter
<1>9. ASSUME NEW rows, NEW status, Withdraw(rows, status) PROVE UNCHANGED roster
  BY <1>9 DEF Withdraw
<1>10. ASSUME NEW deal, NEW expires, Propose(deal, expires) PROVE UNCHANGED roster
  BY <1>10 DEF Propose
<1>11. ASSUME ClockStep \/ ExpireTrades \/ RequestStep PROVE UNCHANGED roster
  BY <1>11 DEF ClockStep, ExpireTrades, rosterVars, RequestStep
<1> QED
  BY <1>1, <1>3, <1>4, <1>5, <1>6, <1>7, <1>8, <1>9, <1>10, <1>11, Steps

\* The rules of a roster hold through lineups, adds, drops and trades, whatever
\* request waits beside them.
THEOREM RostersAlwaysLegal == Spec => []RostersLegal
<1>1. Init => RostersLegal
  BY RostersAssumption DEF Init, RosterInit, RostersLegal
<1>2. RowsInv /\ RostersLegal /\ [Next]_vars => RostersLegal'
  BY LawfulStep
<1> QED
  BY <1>1, <1>2, RowsCorrect, PTL DEF Spec
-----------------------------------------------------------------------------
(* Sides alternate.                                                        *)

Answered(o, j) ==
    \E i \in DOMAIN o :
        /\ i \in 1..j - 1
        /\ o[i].thread = o[j].thread /\ o[i].seq = o[j].seq - 1
        /\ o[i].deal.to = o[j].deal.from /\ o[i].deal.from = o[j].deal.to

LEMMA AnsweredStays ==
    ASSUME OffersKept, NEW j \in DOMAIN offers, Answered(offers, j)
    PROVE  Answered(offers', j)
BY DEF Answered, OffersKept

LEMMA SidesStep == ASSUME RowsInv, SidesAlternate, [Next]_vars PROVE SidesAlternate'
<1>1. OffersTyped /\ OffersTyped' /\ OffersKept /\ RosterTypes /\ TradeTypes
  BY OffersStep DEF RowsInv, TradeTypes, OffersTyped
<1>2. \A j \in DOMAIN offers : offers[j].seq > 1 => Answered(offers, j)
  <2>1. \A j \in DOMAIN offers : \A i \in 1..j - 1 : i \in DOMAIN offers
    BY <1>1 DEF OffersTyped
  <2> QED
    BY <2>1 DEF SidesAlternate, Answered
<1>3. \A j \in DOMAIN offers : offers'[j].seq > 1 => Answered(offers', j)
  BY <1>1, <1>2, AnsweredStays DEF OffersKept
<1>4. ASSUME DOMAIN offers' = DOMAIN offers PROVE \A j \in DOMAIN offers' : offers'[j].seq > 1 => Answered(offers', j)
  BY <1>3, <1>4
<1>5. ASSUME NEW deal \in Deals, NEW expires \in BOOLEAN, Propose(deal, expires)
      PROVE  \A j \in DOMAIN offers' : offers'[j].seq > 1 => Answered(offers', j)
  <2>1. /\ DOMAIN offers' = DOMAIN offers \cup {Len(offers) + 1}
        /\ offers'[Len(offers) + 1] = Offer(Len(threads) + 1, deal, 1, "PROPOSED")
    BY <1>1, <1>5, ProposeRows
  <2>2. offers'[Len(offers) + 1].seq = 1
    BY <2>1 DEF Offer
  <2> QED
    BY <1>3, <2>1, <2>2
<1>6. ASSUME NEW rows, Answers(rows), NEW deal \in Deals, Counter(rows, deal)
      PROVE  \A j \in DOMAIN offers' : offers'[j].seq > 1 => Answered(offers', j)
  <2> DEFINE n == Len(offers) + 1
             i == rows.offer
  <2>1. Held(rows)
    BY <1>1, <1>6, AskedHeld DEF Answers
  <2>2. /\ DOMAIN offers' = DOMAIN offers \cup {n}
        /\ offers'[n].thread = rows.thread /\ offers'[n].deal = deal
        /\ offers'[n].seq = rows.th.rounds + 1
    <3>1. /\ DOMAIN offers' = DOMAIN offers \cup {n}
          /\ offers'[n] = Offer(rows.thread, deal, rows.th.rounds + 1, "COUNTERED")
      BY <1>1, <1>6, <2>1, CounterRows
    <3> QED
      BY <3>1 DEF Offer
  <2>3. /\ i \in DOMAIN offers /\ rows.thread = offers[i].thread
        /\ rows.o.deal = offers[i].deal /\ rows.o.seq = offers[i].seq
        /\ rows.th.rounds \in Nat
    BY <2>1 DEF Held
  <2>4. rows.o.seq = rows.th.rounds /\ deal.from = rows.o.deal.to /\ deal.to = rows.o.deal.from
    BY <1>6 DEF Counter, Answerable, IsLatest, TheOtherWay
  <2>5. i \in DOMAIN offers' /\ i \in 1..n - 1
    BY <1>1, <2>2, <2>3 DEF OffersTyped
  <2>6. /\ offers'[i].thread = offers[i].thread /\ offers'[i].deal = offers[i].deal
        /\ offers'[i].seq = offers[i].seq
    BY <1>1, <2>3 DEF OffersKept
  <2> HIDE DEF n, i
  <2>7. Answered(offers', n)
    <3>1. /\ offers'[i].thread = offers'[n].thread
          /\ offers'[i].seq = offers'[n].seq - 1
          /\ offers'[i].deal.to = offers'[n].deal.from
          /\ offers'[i].deal.from = offers'[n].deal.to
      <4>1. offers'[i].seq = offers'[n].seq - 1
        <5> DEFINE r == rows.th.rounds
        <5>1. r \in Nat /\ offers'[n].seq = r + 1
          BY <2>2, <2>3
        <5>2. offers'[i].seq = r
          BY <2>3, <2>4, <2>6
        <5> HIDE DEF r
        <5> QED
          BY <5>1, <5>2
      <4> QED
        BY <2>2, <2>3, <2>4, <2>6, <4>1
    <3> QED
      BY <2>5, <3>1 DEF Answered
  <2> QED
    BY <1>3, <2>2, <2>7
<1>7. ASSUME NEW rows, Answers(rows),
             \/ \E drops : Accept(rows, drops)
             \/ \E status \in {"REJECTED", "CANCELLED"} : Withdraw(rows, status)
      PROVE  DOMAIN offers' = DOMAIN offers
  <2>1. Held(rows)
    BY <1>1, <1>7, AskedHeld DEF Answers
  <2> QED
    BY <1>1, <1>7, <2>1, AcceptRows, WithdrawRows
<1>8. ASSUME ExpireTrades PROVE DOMAIN offers' = DOMAIN offers
  BY <1>1, <1>8, ExpireRows
<1>9. ASSUME UNCHANGED tradeVars \/ RequestStep PROVE DOMAIN offers' = DOMAIN offers
  BY <1>9 DEF tradeVars, RequestStep
<1>10. \A j \in DOMAIN offers' : offers'[j].seq > 1 => Answered(offers', j)
  BY <1>1, <1>4, <1>5, <1>6, <1>7, <1>8, <1>9, Steps
<1>11. \A j \in DOMAIN offers' : \A i \in 1..j - 1 : i \in DOMAIN offers'
  BY <1>1 DEF OffersTyped
<1> QED
  BY <1>10, <1>11 DEF SidesAlternate, Answered

\* Rows keep to their values, rosters to the rules and negotiations to turns.
THEOREM TradesCorrect == Spec => []TradesConsistent
<1>1. Init => SidesAlternate
  BY DEF Init, SidesAlternate
<1>2. RowsInv /\ SidesAlternate /\ [Next]_vars => SidesAlternate'
  BY SidesStep
<1>3. Spec => []SidesAlternate
  BY <1>1, <1>2, RowsCorrect, PTL DEF Spec
<1>4. TypeOK /\ RostersLegal /\ SidesAlternate => TradesConsistent
  BY DEF TradesConsistent
<1> QED
  BY <1>3, <1>4, TradeTypesCorrect, RostersAlwaysLegal, PTL
-----------------------------------------------------------------------------
(* Trades are exact.                                                       *)

NobodyMoves == \A p \in Players, t, u \in Teams : Moves(p, t, u) => t = u
NothingAccepted ==
    /\ roster' = roster \/ loaded' = loaded
    /\ \A j \in DOMAIN offers : offers'[j].status = "ACCEPTED" => offers[j].status = "ACCEPTED"

LEMMA AcceptCarriesOut ==
    ASSUME RowsInv, NEW rows, Answers(rows), NEW drops, Accept(rows, drops)
    PROVE  /\ \A j \in DOMAIN offers : CarriedOut(j) <=> j = rows.offer
           /\ rows.offer \in DOMAIN offers
           /\ rows.o.deal = offers[rows.offer].deal /\ rows.o.deal \in Deals
           /\ \E plan : TradeEffect(rows.o.deal, drops, plan)
<1> DEFINE deal == rows.o.deal
<1>1. OffersTyped /\ RosterTypes /\ TradeTypes
  BY DEF RowsInv, TradeTypes, OffersTyped
<1>2. Held(rows)
  BY <1>1, AskedHeld DEF Answers
<1>3. /\ rows.offer \in DOMAIN offers /\ deal \in Deals
      /\ deal = offers[rows.offer].deal
  BY <1>1, <1>2, HeldTypes DEF Held
<1>4. /\ offers'[rows.offer].status = "ACCEPTED"
      /\ \A j \in DOMAIN offers \ {rows.offer} : offers'[j] = offers[j]
  BY <1>1, <1>2, AcceptRows
<1>5. \E plan : TradeEffect(deal, drops, plan)
  <2>1. PICK plan : Settled(deal, drops, plan)
    BY AcceptSettles
  <2>2. Owned(deal) /\ Droppable(deal.from, deal.drops, deal) /\ Droppable(deal.to, drops, deal)
    BY DEF Accept
  <2> HIDE DEF deal
  <2> QED
    BY <1>1, <1>3, <2>1, <2>2, AcceptEffect
<1>6. roster' # roster
  <2>1. PICK p \in deal.give : Moves(p, deal.from, deal.to)
    BY <1>3, <1>5, TradesAssumption DEF TradeEffect
  <2> QED
    BY <1>3, <2>1, TradesAssumption DEF Moves
<1>7. ASSUME NEW j \in DOMAIN offers, CarriedOut(j) PROVE j = rows.offer
  <2>1. CASE offers[j].status # "ACCEPTED"
    BY <1>4, <1>7, <2>1 DEF CarriedOut
  <2>2. CASE Repeats(j)
    BY <2>2 DEF Repeats, Answers, Asked
  <2> QED
    BY <1>7, <2>1, <2>2 DEF CarriedOut
<1>8. CarriedOut(rows.offer)
  <2>1. CASE \E j \in DOMAIN offers : rows = Rows(j)
    <3>1. offers[rows.offer].status \in PendingStates
      BY <2>1 DEF Accept, Answerable, Rows
    <3> QED
      BY <1>4, <3>1 DEF CarriedOut, PendingStates
  <2>2. CASE loaded # None /\ rows = loaded /\ loaded' = None
    BY <1>4, <1>6, <2>2 DEF CarriedOut, Repeats
  <2> QED
    BY <2>1, <2>2 DEF Answers, Asked
<1> QED
  BY <1>3, <1>5, <1>7, <1>8

LEMMA ExactStep ==
    ASSUME RowsInv, [Next]_vars
    PROVE  /\ \A j \in DOMAIN offers : CarriedOut(j) =>
                 LET deal == offers[j].deal
                 IN  /\ \A p \in deal.give : Moves(p, deal.from, deal.to)
                     /\ \A p \in deal.get : Moves(p, deal.to, deal.from)
                     /\ \A p \in RosterOf(deal.from) \ PlayersOf(deal) :
                           roster'[p] = None <=> p \in deal.drops
           /\ \A p \in Players, t, u \in Teams : t # u /\ Moves(p, t, u) =>
                 \E j \in DOMAIN offers : CarriedOut(j) /\ p \in PlayersOf(offers[j].deal)
<1>1. OffersTyped /\ RosterTypes /\ TradeTypes
  BY DEF RowsInv, TradeTypes, OffersTyped
<1>2. ASSUME NobodyMoves, NothingAccepted
      PROVE  /\ \A j \in DOMAIN offers : ~CarriedOut(j)
             /\ \A p \in Players, t, u \in Teams : ~(t # u /\ Moves(p, t, u))
  BY <1>2 DEF NobodyMoves, NothingAccepted, CarriedOut, Repeats
<1>3. ASSUME UNCHANGED roster PROVE NobodyMoves
  BY <1>3 DEF NobodyMoves, Moves
<1>4. ASSUME UNCHANGED tradeVars PROVE NothingAccepted
  BY <1>4 DEF NothingAccepted, tradeVars
<1>5. ASSUME NEW t \in Teams, NEW lineup \in Lineups, NEW w \in Weeks, SetLineup(t, lineup, w)
      PROVE  NobodyMoves
  <2>1. \A u : RosterIn(roster', u) = RosterIn(roster, u)
    BY <1>1, <1>5, SetLineupEffect
  <2> QED
    BY <2>1 DEF NobodyMoves, Moves, RosterIn
<1>6. ASSUME NEW k \in Keys, NEW t \in Teams, NEW p \in Players, NEW d \in Players \cup {None},
             NEW w \in Weeks, Adds(k, t, p, d, w)
      PROVE  NobodyMoves
  <2>1. /\ roster' \in [Players -> Assignments \cup {None}]
        /\ roster[p] = None
        /\ d # None => roster'[d] = None
        /\ \A q \in Players \ {p, d} : roster'[q] = roster[q]
    <3>1. AddedFor(t, p, d)
      BY <1>1, <1>6, AddEffect DEF Adds
    <3> QED
      BY <3>1 DEF AddedFor
  <2>2. None \notin Players
    BY RostersAssumption
  <2> QED
    BY <2>1, <2>2 DEF NobodyMoves, Moves
<1>7. ASSUME NEW k \in Keys, NEW t \in Teams, NEW p \in Players, Drops(k, t, p)
      PROVE  NobodyMoves
  <2>1. roster' = roster \/ (roster'[p] = None /\ \A q \in Players \ {p} : roster'[q] = roster[q])
    BY <1>1, <1>7, DropEffect DEF Drops
  <2> QED
    BY <2>1 DEF NobodyMoves, Moves
<1>8. ASSUME NEW deal \in Deals, NEW expires \in BOOLEAN, Propose(deal, expires),
             UNCHANGED <<clock, past, loaded>>
      PROVE  NobodyMoves /\ NothingAccepted
  <2>1. UNCHANGED roster
    BY <1>8 DEF Propose
  <2>2. \A j \in DOMAIN offers : offers'[j] = offers[j]
    BY <1>1, <1>8, ProposeRows
  <2> QED
    BY <1>3, <2>1, <2>2 DEF NothingAccepted
<1>9. ASSUME NEW rows, Answers(rows), NEW deal \in Deals, Counter(rows, deal)
      PROVE  NobodyMoves /\ NothingAccepted
  <2>1. UNCHANGED roster /\ Held(rows)
    BY <1>1, <1>9, AskedHeld DEF Counter, Answers
  <2>2. \A j \in DOMAIN offers : offers'[j].status \in {offers[j].status, "COUNTERED"}
    BY <1>1, <1>9, <2>1, CounterRows
  <2> QED
    BY <1>3, <2>1, <2>2 DEF NothingAccepted
<1>10. ASSUME NEW rows, Answers(rows), NEW status \in {"REJECTED", "CANCELLED"}, Withdraw(rows, status)
       PROVE  NobodyMoves /\ NothingAccepted
  <2>1. UNCHANGED roster /\ Held(rows)
    BY <1>1, <1>10, AskedHeld DEF Withdraw, Answers
  <2>2. /\ offers'[rows.offer].status = status
        /\ \A j \in DOMAIN offers \ {rows.offer} : offers'[j] = offers[j]
    BY <1>1, <1>10, <2>1, WithdrawRows
  <2> QED
    BY <1>3, <2>1, <2>2 DEF NothingAccepted
<1>11. ASSUME ClockStep, UNCHANGED tradeVars PROVE NobodyMoves /\ NothingAccepted
  BY <1>3, <1>4, <1>11 DEF ClockStep
<1>12. ASSUME ExpireTrades PROVE NobodyMoves /\ NothingAccepted
  <2>1. UNCHANGED roster
    BY <1>12 DEF ExpireTrades, rosterVars
  <2>2. \A j \in DOMAIN offers : offers'[j].status \in {offers[j].status, "EXPIRED"}
    BY <1>1, <1>12, ExpireRows
  <2> QED
    BY <1>3, <2>1, <2>2 DEF NothingAccepted
<1>13. ASSUME RequestStep PROVE NobodyMoves /\ NothingAccepted
  BY <1>3, <1>13 DEF RequestStep, NothingAccepted
<1>14. ASSUME NEW rows, Answers(rows), NEW drops, Accept(rows, drops)
       PROVE  /\ \A j \in DOMAIN offers : CarriedOut(j) =>
                    LET deal == offers[j].deal
                    IN  /\ \A p \in deal.give : Moves(p, deal.from, deal.to)
                        /\ \A p \in deal.get : Moves(p, deal.to, deal.from)
                        /\ \A p \in RosterOf(deal.from) \ PlayersOf(deal) :
                              roster'[p] = None <=> p \in deal.drops
              /\ \A p \in Players, t, u \in Teams : t # u /\ Moves(p, t, u) =>
                    \E j \in DOMAIN offers : CarriedOut(j) /\ p \in PlayersOf(offers[j].deal)
  <2> DEFINE deal == rows.o.deal
  <2>1. /\ \A j \in DOMAIN offers : CarriedOut(j) <=> j = rows.offer
        /\ rows.offer \in DOMAIN offers
        /\ deal = offers[rows.offer].deal /\ deal \in Deals
        /\ \E plan : TradeEffect(deal, drops, plan)
    BY <1>14, AcceptCarriesOut
  <2>2. PICK plan : TradeEffect(deal, drops, plan)
    BY <2>1
  <2>3. drops \subseteq RosterIn(roster, deal.to) /\ deal.from # deal.to
    BY <1>14, <2>1, RosterNow, TradesAssumption DEF Accept, Droppable
  <2> HIDE DEF deal
  <2>4. \A p \in RosterOf(deal.from) \ PlayersOf(deal) : roster'[p] = None <=> p \in deal.drops
    <3> SUFFICES ASSUME NEW p \in RosterIn(roster, deal.from) \ PlayersOf(deal)
                 PROVE  roster'[p] = None <=> p \in deal.drops
      BY RosterNow
    <3>1. roster[p] # None /\ p \in Players /\ p \notin drops
      BY <2>3 DEF RosterIn
    <3> QED
      BY <2>2, <3>1 DEF TradeEffect, Gone
  <2>5. \A p \in Players \ PlayersOf(deal), t, u \in Teams : Moves(p, t, u) => t = u
    BY <2>2 DEF TradeEffect, Moves, Gone
  <2>6. /\ \A p \in deal.give : Moves(p, deal.from, deal.to)
        /\ \A p \in deal.get : Moves(p, deal.to, deal.from)
    BY <2>2 DEF TradeEffect
  <2> QED
    BY <2>1, <2>4, <2>5, <2>6
<1>15. CASE \E rows : Answers(rows) /\ \E drops : Accept(rows, drops)
  BY <1>14, <1>15
<1>16. CASE NobodyMoves /\ NothingAccepted
  BY <1>2, <1>16
<1> QED
  BY <1>1, <1>4, <1>5, <1>6, <1>7, <1>8, <1>9, <1>10, <1>11, <1>12, <1>13, <1>15, <1>16, Steps

\* A trade moves all of its players or none, and nothing but a trade moves a player
\* from team to team.
THEOREM TradesExact == Spec => TradesAreExact
<1>1. RowsInv /\ [Next]_vars =>
         [/\ \A j \in DOMAIN offers : CarriedOut(j) =>
                LET deal == offers[j].deal
                IN  /\ \A p \in deal.give : Moves(p, deal.from, deal.to)
                    /\ \A p \in deal.get : Moves(p, deal.to, deal.from)
                    /\ \A p \in RosterOf(deal.from) \ PlayersOf(deal) :
                          roster'[p] = None <=> p \in deal.drops
          /\ \A p \in Players, t, u \in Teams : t # u /\ Moves(p, t, u) =>
                \E j \in DOMAIN offers : CarriedOut(j) /\ p \in PlayersOf(offers[j].deal)]_vars
  BY ExactStep
<1> QED
  BY <1>1, RowsCorrect, PTL DEF Spec, TradesAreExact
-----------------------------------------------------------------------------
(* The records.                                                            *)

\* No key is used twice, and a request's drop and add are recorded together.
KeysUsedOnce == \A i, j \in DOMAIN log : log[i].key = log[j].key => i = j
DropsWithAdds == \A k \in Keys : Known(<<k, "drop">>) => Known(<<k, "add">>)
AddsWithDrops ==
    \A k \in Keys, i \in DOMAIN log :
        log[i].key = <<k, "add">> /\ log[i].other # None => Known(<<k, "drop">>)

\* New records with keys of their own.
FreshKeys(new) ==
    /\ \A r \in new : ~Known(r.key)
    /\ \A r, s \in new : r.key = s.key => r = s
    /\ \A k \in Keys : (\E r \in new : r.key = <<k, "drop">>) => \E r \in new : r.key = <<k, "add">>
    /\ \A k \in Keys, r \in new :
          r.key = <<k, "add">> /\ r.other # None => \E s \in new : s.key = <<k, "drop">>

LEMMA KeysStay ==
    ASSUME KeysUsedOnce, DropsWithAdds, AddsWithDrops, NEW new, LogGrows(new), FreshKeys(new)
    PROVE  KeysUsedOnce' /\ DropsWithAdds' /\ AddsWithDrops'
<1>1. KeysUsedOnce'
  <2> SUFFICES ASSUME NEW i \in DOMAIN log', NEW j \in DOMAIN log', log'[i].key = log'[j].key
               PROVE  i = j
    BY DEF KeysUsedOnce
  <2>1. CASE i \in DOMAIN log /\ j \in DOMAIN log
    BY <2>1 DEF KeysUsedOnce, LogGrows
  <2>2. CASE i \notin DOMAIN log /\ j \notin DOMAIN log
    BY <2>2 DEF LogGrows, FreshKeys
  <2>3. CASE i \in DOMAIN log /\ j \notin DOMAIN log
    BY <2>3 DEF LogGrows, FreshKeys, Known
  <2>4. CASE i \notin DOMAIN log /\ j \in DOMAIN log
    BY <2>4 DEF LogGrows, FreshKeys, Known
  <2> QED
    BY <2>1, <2>2, <2>3, <2>4
<1>2. DropsWithAdds'
  <2> SUFFICES ASSUME NEW k \in Keys, NEW i \in DOMAIN log', log'[i].key = <<k, "drop">>
               PROVE  \E j \in DOMAIN log' : log'[j].key = <<k, "add">>
    BY DEF DropsWithAdds, Known
  <2>1. CASE i \in DOMAIN log
    <3>1. log[i].key = <<k, "drop">>
      BY <2>1 DEF LogGrows
    <3>2. PICK j \in DOMAIN log : log[j].key = <<k, "add">>
      BY <2>1, <3>1 DEF DropsWithAdds, Known
    <3> QED
      BY <3>2 DEF LogGrows
  <2>2. CASE i \notin DOMAIN log
    <3>1. log'[i] \in new
      BY <2>2 DEF LogGrows
    <3>2. PICK r \in new : r.key = <<k, "add">>
      BY <3>1 DEF FreshKeys
    <3> QED
      BY <3>2 DEF LogGrows
  <2> QED
    BY <2>1, <2>2
<1>3. AddsWithDrops'
  <2> SUFFICES ASSUME NEW k \in Keys, NEW i \in DOMAIN log', log'[i].key = <<k, "add">>, log'[i].other # None
               PROVE  \E j \in DOMAIN log' : log'[j].key = <<k, "drop">>
    BY DEF AddsWithDrops, Known
  <2>1. CASE i \in DOMAIN log
    <3>1. log[i].key = <<k, "add">> /\ log[i].other # None
      BY <2>1 DEF LogGrows
    <3>2. PICK j \in DOMAIN log : log[j].key = <<k, "drop">>
      BY <2>1, <3>1 DEF AddsWithDrops, Known
    <3> QED
      BY <3>2 DEF LogGrows
  <2>2. CASE i \notin DOMAIN log
    <3>1. log'[i] \in new
      BY <2>2 DEF LogGrows
    <3>2. PICK r \in new : r.key = <<k, "drop">>
      BY <3>1 DEF FreshKeys
    <3> QED
      BY <3>2 DEF LogGrows
  <2> QED
    BY <2>1, <2>2
<1> QED
  BY <1>1, <1>2, <1>3

\* A nonempty set of a log's indices has a largest.
LEMMA LargestIndex ==
    ASSUME NEW n \in Nat, NEW S \in SUBSET (1..n), S # {}
    PROVE  \E x \in S : \A y \in S : x >= y
<1> DEFINE above(x) == (x + 1)..n
           R == StrictSubsetOrdering(Nat)
           F == FiniteSubsetsOf(Nat)
           T == {above(x) : x \in S}
<1>1. \A x \in S : above(x) \in F
  BY FS_Interval DEF FiniteSubsetsOf
<1>2. IsWellFoundedOn(R, F) /\ T \subseteq F /\ T # {}
  BY <1>1, FS_StrictSubsetOrderingWellFounded
<1>3. \E X \in T : \A Y \in T : ~ (<<Y, X>> \in R)
  <2> HIDE DEF R, F, T
  <2> QED
    BY <1>2, WFMin
<1>4. PICK x \in S : \A y \in S : ~ (<<above(y), above(x)>> \in R)
  BY <1>3
<1>5. ASSUME NEW y \in S, y > x PROVE FALSE
  <2>1. above(y) \subseteq above(x) /\ y \in above(x) /\ y \notin above(y)
    BY <1>5
  <2>2. above(x) \in SUBSET Nat /\ above(y) \in SUBSET Nat
    BY <1>1, <1>4, <1>5 DEF FiniteSubsetsOf
  <2> HIDE DEF above
  <2>3. <<above(y), above(x)>> \in R
    BY <2>1, <2>2 DEF StrictSubsetOrdering
  <2> QED
    BY <1>4, <1>5, <2>3
<1>6. \A y \in S : x >= y
  BY <1>5
<1> QED
  BY <1>4, <1>6

\* What the new records say of the owners: at most one about a player, and none only
\* where the owner stays or a request is repeated.  One that says nothing of the owner is
\* the drop of a row that was gone.
Explained(new) ==
    /\ \A r, s \in new : r.player = s.player => r = s
    /\ \A p \in Players :
          \/ \E r \in new : r.player = p /\ OwnerBy(r) = Owner(p)'
          \/ (\A r \in new : r.player # p) /\ (Owner(p)' = Owner(p) \/ Repeated(p))
          \/ DropsNobody(p) /\ Owner(p)' = Owner(p)

\* What a step does to the account of p: the last record names the owner, or else it
\* says as much of p as before, or one of the exceptions applies.
Accounted(p) ==
    OwnerOnRecord(p) = Owner(p) \/ About(p)' # About(p) =>
        OwnerOnRecord(p)' = Owner(p)' \/ Repeated(p) \/ DropsNobody(p)

LEMMA ExplainStays ==
    ASSUME RosterTypes, OwnersOnRecord, NEW new, LogGrows(new), Explained(new), NEW p \in Players
    PROVE  /\ Accounted(p)
           /\ Owner(p)' = DraftedBy(p) \/ \E i \in About(p)' : OwnerBy(log'[i]) = Owner(p)'
<1>1. /\ log \in Seq(LogRows) /\ log' \in Seq(LogRows)
      /\ DOMAIN log \subseteq DOMAIN log'
      /\ \A i \in DOMAIN log : log'[i] = log[i]
  BY DEF RosterTypes, LogGrows
<1>2. About(p) \subseteq About(p)' /\ \A i \in About(p) : log'[i] = log[i]
  BY <1>1 DEF About
<1>3. ASSUME Owner(p)' = Owner(p)
      PROVE  Owner(p)' = DraftedBy(p) \/ \E i \in About(p)' : OwnerBy(log'[i]) = Owner(p)'
  BY <1>2, <1>3 DEF OwnersOnRecord
<1>4. CASE \E r \in new : r.player = p /\ OwnerBy(r) = Owner(p)'
  <2>1. PICK r \in new : r.player = p /\ OwnerBy(r) = Owner(p)'
    BY <1>4
  <2>2. PICK i \in DOMAIN log' \ DOMAIN log : log'[i] = r
    BY <2>1 DEF LogGrows
  <2>3. \A j \in About(p)' : j = i \/ j \in DOMAIN log
    BY <2>1, <2>2 DEF About, LogGrows, Explained
  <2>4. i \in About(p)'
    BY <2>1, <2>2 DEF About
  <2>5. \A j \in About(p)' : i >= j
    BY <1>1, <2>2, <2>3
  <2>6. About(p)' \subseteq Nat
    BY <1>1 DEF About
  <2>7. Max(About(p)') = i
    <3> DEFINE S == About(p)'
    <3> HIDE DEF S
    <3>1. i \in S /\ S \subseteq Nat /\ \A j \in S : i >= j
      BY <2>4, <2>5, <2>6 DEF S
    <3>2. \A x \in S : (\A y \in S : x >= y) => x = i
      BY <3>1
    <3>3. Max(S) = i
      BY <3>1, <3>2 DEF Max
    <3> QED
      BY <3>3 DEF S
  <2>8. OwnerOnRecord(p)' = OwnerBy(log'[i])
    <3>1. OwnerOnRecord(p)' = IF About(p)' = {} THEN DraftedBy(p) ELSE OwnerBy(log'[Max(About(p)')])
      BY DEF OwnerOnRecord, Max, OwnerBy, DraftedBy
    <3> QED
      BY <2>4, <2>7, <3>1
  <2> QED
    BY <2>1, <2>2, <2>4, <2>8 DEF Accounted
<1>5. CASE Repeated(p)
  <2>1. PICK i \in About(p) : OwnerBy(log[i]) = Owner(p)'
    BY <1>5 DEF Repeated
  <2>2. i \in About(p)' /\ OwnerBy(log'[i]) = Owner(p)'
    BY <1>2, <2>1
  <2> QED
    BY <1>5, <2>2 DEF Accounted
<1>6. CASE (\A r \in new : r.player # p) /\ Owner(p)' = Owner(p)
  <2>1. About(p)' = About(p)
    <3>1. \A i \in DOMAIN log' : i \notin DOMAIN log => log'[i].player # p
      BY <1>6 DEF LogGrows
    <3> QED
      BY <1>1, <3>1 DEF About
  <2>2. ASSUME OwnerOnRecord(p) = Owner(p) PROVE OwnerOnRecord(p)' = Owner(p)'
    <3>1. CASE About(p) = {}
      BY <1>6, <2>1, <2>2, <3>1 DEF OwnerOnRecord, DraftedBy
    <3>2. CASE About(p) # {}
      <4>1. Max(About(p)) \in About(p)
        <5>1. \E x \in About(p) : \A y \in About(p) : x >= y
          <6>1. Len(log) \in Nat /\ About(p) \in SUBSET (1..Len(log))
            BY <1>1 DEF About
          <6> QED
            BY <3>2, <6>1, LargestIndex
        <5> QED
          BY <5>1 DEF Max
      <4>2. OwnerOnRecord(p) = OwnerBy(log[Max(About(p))])
        BY <3>2 DEF OwnerOnRecord
      <4>3. OwnerOnRecord(p)' = OwnerBy(log'[Max(About(p)')])
        BY <2>1, <3>2 DEF OwnerOnRecord, Max, OwnerBy
      <4> QED
        BY <1>2, <1>6, <2>1, <2>2, <4>1, <4>2, <4>3
    <3> QED
      BY <3>1, <3>2
  <2> QED
    BY <1>3, <1>6, <2>1, <2>2 DEF Accounted
<1>7. CASE DropsNobody(p) /\ Owner(p)' = Owner(p)
  BY <1>3, <1>7 DEF Accounted
<1> QED
  BY <1>4, <1>5, <1>6, <1>7 DEF Explained

RecordsInv == OwnersOnRecord /\ KeysUsedOnce /\ DropsWithAdds /\ AddsWithDrops

LEMMA RecordsStay ==
    ASSUME RowsInv, RecordsInv, NEW new, LogGrows(new), FreshKeys(new), Explained(new)
    PROVE  RecordsInv' /\ \A p \in Players : Accounted(p)
<1>1. KeysUsedOnce' /\ DropsWithAdds' /\ AddsWithDrops'
  BY KeysStay DEF RecordsInv
<1>2. \A p \in Players :
         /\ Accounted(p)
         /\ Owner(p)' = DraftedBy(p) \/ \E i \in About(p)' : OwnerBy(log'[i]) = Owner(p)'
  BY ExplainStays DEF RecordsInv, RowsInv
<1>3. OwnersOnRecord'
  BY <1>2 DEF OwnersOnRecord, DraftedBy, OwnerBy
<1> QED
  BY <1>1, <1>2, <1>3 DEF RecordsInv

LEMMA AddKeepsRecords ==
    ASSUME RowsInv, RecordsInv, NEW k \in Keys, NEW t \in Teams, NEW p \in Players,
           NEW d \in Players \cup {None}, NEW w \in Weeks, Adds(k, t, p, d, w)
    PROVE  \E new : LogGrows(new) /\ FreshKeys(new) /\ Explained(new)
<1> DEFINE all == AddedRecords(k, t, p, d, w)
           dropped == Dropped(k, t, p, d, w)
           added == Added(k, t, p, d, w)
<1>1. RosterTypes /\ None \notin Players
  BY RostersAssumption DEF RowsInv
<1>2. /\ NewRequest(k) => LogGrows(all)
      /\ ~NewRequest(k) => log' = log
      /\ \A r \in all : Recordable(r)
  BY <1>1, AddLogged DEF Adds
<1>3. AddedFor(t, p, d)
  BY <1>1, AddEffect DEF Adds
<1>4. /\ added \in all /\ (d # None => dropped \in all)
      /\ \A r \in all : r = added \/ (d # None /\ r = dropped)
  BY DEF AddedRecords
<1>5. /\ added.key = <<k, "add">> /\ added.player = p /\ OwnerBy(added) = t /\ added.other = d
      /\ dropped.key = <<k, "drop">> /\ dropped.player = d /\ OwnerBy(dropped) = None
      /\ <<k, "drop">> # <<k, "add">>
  BY DEF Added, Dropped, RecordWith, OwnerBy
<1> HIDE DEF all, added, dropped
<1>6. \A r, s \in all : r.player = s.player => r = s
  BY <1>3, <1>4, <1>5 DEF AddedFor
<1>7. ASSUME NEW q \in Players
      PROVE  \/ \E r \in all : r.player = q /\ OwnerBy(r) = Owner(q)'
             \/ (\A r \in all : r.player # q) /\ Owner(q)' = Owner(q)
  <2>1. CASE q = p
    <3>1. roster'[p] # None /\ roster'[p].team = t
      BY <1>1, <1>3, RostersAssumption DEF AddedFor, Assignments
    <3> QED
      BY <1>4, <1>5, <2>1, <3>1 DEF Owner
  <2>2. CASE q = d /\ q # p
    <3>1. roster'[d] = None /\ d # None
      BY <1>1, <1>3, <2>2 DEF AddedFor
    <3> QED
      BY <1>4, <1>5, <2>2, <3>1 DEF Owner
  <2>3. CASE q # p /\ q # d
    <3>1. roster'[q] = roster[q]
      BY <1>3, <2>3 DEF AddedFor
    <3> QED
      BY <1>4, <1>5, <2>3, <3>1 DEF Owner
  <2> QED
    BY <2>1, <2>2, <2>3
<1>8. CASE NewRequest(k)
  <2>1. FreshKeys(all)
    <3>1. ~Known(<<k, "add">>)
      BY <1>8 DEF NewRequest
    <3>2. ~Known(<<k, "drop">>)
      BY <3>1 DEF RecordsInv, DropsWithAdds
    <3>3. \A r \in all : ~Known(r.key)
      BY <1>4, <1>5, <3>1, <3>2
    <3>4. \A r, s \in all : r.key = s.key => r = s
      BY <1>4, <1>5
    <3>5. \A kk \in Keys : (\E r \in all : r.key = <<kk, "drop">>) => kk = k
      BY <1>4, <1>5
    <3>6. \A kk \in Keys, r \in all : r.key = <<kk, "add">> /\ r.other # None => kk = k /\ d # None
      BY <1>4, <1>5
    <3> QED
      BY <1>4, <1>5, <3>3, <3>4, <3>5, <3>6 DEF FreshKeys
  <2>2. Explained(all)
    BY <1>6, <1>7 DEF Explained
  <2> QED
    BY <1>2, <1>8, <2>1, <2>2
<1>9. CASE ~NewRequest(k)
  <2>1. LogGrows({}) /\ FreshKeys({})
    BY <1>1, <1>2, <1>9, LogStays DEF FreshKeys
  <2>2. LateKey(k)
    BY <1>9 DEF Adds
  <2>3. \A r \in all : \E i \in DOMAIN log : log[i] = r
    <3>1. PICK i \in DOMAIN log : log[i] = added
      BY <1>2, <1>4, <1>5, <1>9 DEF NewRequest, Recordable
    <3>2. d # None => Known(<<k, "drop">>)
      BY <1>5, <3>1 DEF RecordsInv, AddsWithDrops
    <3>3. d # None => \E j \in DOMAIN log : log[j] = dropped
      BY <1>2, <1>4, <1>5, <3>2 DEF Recordable
    <3> QED
      BY <1>4, <3>1, <3>3
  <2>4. ASSUME NEW r \in all, OwnerBy(r) = Owner(r.player)' PROVE Repeated(r.player)
    <3>1. PICK i \in DOMAIN log : log[i] = r
      BY <2>3
    <3>2. log[i].key[1] = k /\ i \in About(r.player)
      BY <1>4, <1>5, <3>1 DEF About
    <3> QED
      BY <2>2, <2>4, <3>1, <3>2 DEF Repeated, LateKey
  <2>5. Explained({})
    BY <1>7, <2>4 DEF Explained
  <2> QED
    BY <2>1, <2>5
<1> QED
  BY <1>8, <1>9

LEMMA DropKeepsRecords ==
    ASSUME RowsInv, NEW k \in Keys, NEW t \in Teams, NEW p \in Players, Drops(k, t, p)
    PROVE  \E new : LogGrows(new) /\ FreshKeys(new) /\ Explained(new)
<1> DEFINE new == DropRecords(k, t, p)
           rec == Record(<<k, "forced">>, "COMMISSIONER_DROP", t, p, week)
<1>1. LogGrows(new)
  BY DropLogged DEF RowsInv, Drops
<1>2. /\ (roster' = roster /\ DropsNobody(p)) \/ roster'[p] = None
      /\ \A q \in Players \ {p} : roster'[q] = roster[q]
  BY DropEffect DEF RowsInv, Drops
<1>3. new = IF Known(rec.key) THEN {} ELSE {rec}
  BY DEF DropRecords
<1>4. Known(rec.key) => \E i \in DOMAIN log : log[i] = rec
  BY DEF Drops, LogDrop, Recordable
<1>5. /\ rec.key = <<k, "forced">> /\ rec.player = p /\ OwnerBy(rec) = None
      /\ rec.type = "COMMISSIONER_DROP"
      /\ \A kk \in Keys : rec.key # <<kk, "drop">> /\ rec.key # <<kk, "add">>
  BY DEF Record, RecordWith, OwnerBy
<1> HIDE DEF new, rec
<1>6. FreshKeys(new)
  BY <1>3, <1>5 DEF FreshKeys
<1>7. \A q \in Players \ {p} : (\A r \in new : r.player # q) /\ Owner(q)' = Owner(q)
  BY <1>2, <1>3, <1>5 DEF Owner
<1>8. \/ \E r \in new : r.player = p /\ OwnerBy(r) = Owner(p)'
      \/ (\A r \in new : r.player # p) /\ Repeated(p)
      \/ DropsNobody(p) /\ Owner(p)' = Owner(p)
  <2>1. CASE roster' = roster /\ DropsNobody(p)
    BY <2>1 DEF Owner
  <2>2. CASE roster'[p] = None /\ Known(rec.key)
    <3>1. PICK i \in DOMAIN log : log[i] = rec
      BY <1>4, <2>2
    <3>2. i \in About(p) /\ OwnerBy(log[i]) = Owner(p)' /\ log[i].type = "COMMISSIONER_DROP"
      BY <1>5, <2>2, <3>1 DEF About, Owner
    <3>3. \A r \in new : FALSE
      BY <1>3, <2>2
    <3> QED
      BY <3>2, <3>3 DEF Repeated
  <2>3. CASE roster'[p] = None /\ ~Known(rec.key)
    BY <1>3, <1>5, <2>3 DEF Owner
  <2> QED
    BY <1>2, <2>1, <2>2, <2>3
<1>9. \A r, s \in new : r.player = s.player => r = s
  BY <1>3
<1>10. Explained(new)
  BY <1>7, <1>8, <1>9 DEF Explained
<1> QED
  BY <1>1, <1>6, <1>10

LEMMA TradeKeepsRecords ==
    ASSUME RowsInv, NEW rows, Answers(rows), NEW drops, Accept(rows, drops)
    PROVE  \E new : LogGrows(new) /\ FreshKeys(new) /\ Explained(new)
<1> DEFINE deal == rows.o.deal
           j == rows.offer
           all == TradeRecords(j, deal, drops)
           new == NewRecords(j, deal, drops)
<1>1. RosterTypes /\ OffersTyped
  BY DEF RowsInv, TradeTypes, OffersTyped
<1>2. j \in DOMAIN offers /\ j \in Nat /\ deal \in Deals
  BY <1>1, AcceptCarriesOut DEF OffersTyped
<1>3. PICK plan : TradeEffect(deal, drops, plan)
  BY AcceptCarriesOut
<1>4. /\ Owned(deal) /\ Droppable(deal.from, deal.drops, deal) /\ Droppable(deal.to, drops, deal)
      /\ \A rec \in all : Recordable(rec)
      /\ log' = log \o SetToSeq(new)
  BY DEF Accept, NewRecords
<1> HIDE DEF deal, j
<1>5. LogGrows(new)
  BY <1>1, <1>2, <1>4, TradeLogged
<1>6. /\ \A r, s \in all : r.player = s.player => r = s
      /\ \A r \in all : r.key = <<"trade", j, r.player>>
      /\ \A p \in PlayersOf(deal) : \E r \in all :
            /\ r.player = p /\ r.type = "TRADE"
            /\ r.team = IF p \in deal.give THEN deal.to ELSE deal.from
      /\ \A p \in deal.drops \cup drops : \E r \in all : r.player = p /\ r.type = "DROP"
      /\ \A r \in all : r.player \in Gone(deal, drops)
  BY <1>1, <1>2, <1>4, TradeRecordsType
<1>7. new \subseteq all /\ \A r \in all : r \in new \/ Known(r.key)
  BY DEF NewRecords
<1>8. \A r \in all : \E i \in DOMAIN offers : r.key = <<"trade", i, r.player>>
  BY <1>2, <1>6
<1>9. FreshKeys(new)
  <2>1. \A r \in new : ~Known(r.key)
    BY DEF NewRecords
  <2>2. \A r, s \in new : r.key = s.key => r = s
    <3> SUFFICES ASSUME NEW r \in new, NEW s \in new, r.key = s.key PROVE r = s
      OBVIOUS
    <3>1. r.key[3] = r.player /\ s.key[3] = s.player
      BY <1>6, <1>7
    <3> QED
      BY <1>6, <1>7, <3>1
  <2>3. \A k \in Keys : \A r \in new : r.key # <<k, "drop">> /\ r.key # <<k, "add">>
    <3> SUFFICES ASSUME NEW k \in Keys, NEW r \in new PROVE r.key # <<k, "drop">> /\ r.key # <<k, "add">>
      OBVIOUS
    <3>1. r.key = <<"trade", j, r.player>>
      BY <1>6, <1>7
    <3>2. <<"trade", j, r.player>> # <<k, "drop">> /\ <<"trade", j, r.player>> # <<k, "add">>
      <4>1. Len(<<"trade", j, r.player>>) = 3 /\ Len(<<k, "drop">>) = 2 /\ Len(<<k, "add">>) = 2
        OBVIOUS
      <4> QED
        BY <4>1
    <3> QED
      BY <3>1, <3>2
  <2> QED
    BY <2>1, <2>2, <2>3 DEF FreshKeys
<1>10. \A p \in Gone(deal, drops) : \E r \in all : r.player = p /\ OwnerBy(r) = Owner(p)'
  <2>1. ASSUME NEW p \in PlayersOf(deal)
        PROVE  \E r \in all : r.player = p /\ OwnerBy(r) = Owner(p)'
    <3>1. PICK r \in all : /\ r.player = p /\ r.type = "TRADE"
                           /\ r.team = IF p \in deal.give THEN deal.to ELSE deal.from
      BY <1>6, <2>1
    <3>2. roster'[p] # None /\ roster'[p].team = IF p \in deal.give THEN deal.to ELSE deal.from
      BY <1>3, <2>1 DEF TradeEffect, Moves, PlayersOf
    <3> QED
      BY <3>1, <3>2 DEF OwnerBy, Owner
  <2>2. ASSUME NEW p \in deal.drops \cup drops
        PROVE  \E r \in all : r.player = p /\ OwnerBy(r) = Owner(p)'
    <3>1. PICK r \in all : r.player = p /\ r.type = "DROP"
      BY <1>6, <2>2
    <3>2. roster'[p] = None
      BY <1>3, <2>2 DEF TradeEffect
    <3> QED
      BY <3>1, <3>2 DEF OwnerBy, Owner
  <2> QED
    BY <2>1, <2>2 DEF Gone
<1>11. \A p \in Players \ Gone(deal, drops) : Owner(p)' = Owner(p)
  BY <1>3 DEF TradeEffect, Owner
<1>12. Explained(new)
  <2>1. \A r, s \in new : r.player = s.player => r = s
    BY <1>6, <1>7
  <2>2. ASSUME NEW p \in Players
        PROVE  \/ \E r \in new : r.player = p /\ OwnerBy(r) = Owner(p)'
               \/ (\A r \in new : r.player # p) /\ (Owner(p)' = Owner(p) \/ Repeated(p))
    <3>1. CASE p \notin Gone(deal, drops)
      BY <1>6, <1>7, <1>11, <3>1
    <3>2. CASE p \in Gone(deal, drops)
      <4>1. PICK r \in all : r.player = p /\ OwnerBy(r) = Owner(p)'
        BY <1>10, <3>2
      <4>2. CASE r \in new
        BY <4>1, <4>2
      <4>3. CASE r \notin new
        <5>1. PICK i \in DOMAIN log : log[i] = r
          BY <1>4, <1>7, <4>3 DEF Recordable
        <5>2. Repeated(p)
          BY <1>8, <4>1, <5>1 DEF About, Repeated
        <5>3. \A s \in new : s.player # p
          BY <1>6, <1>7, <4>1, <4>3
        <5> QED
          BY <5>2, <5>3
      <4> QED
        BY <4>2, <4>3
    <3> QED
      BY <3>1, <3>2
  <2> QED
    BY <2>1, <2>2 DEF Explained
<1> QED
  BY <1>5, <1>9, <1>12

LEMMA RecordsStep ==
    ASSUME RowsInv, RecordsInv, [Next]_vars
    PROVE  RecordsInv' /\ \A p \in Players : Accounted(p)
<1>1. RosterTypes /\ TradeTypes
  BY DEF RowsInv
<1>2. ASSUME UNCHANGED log, \A p \in Players : Owner(p)' = Owner(p)
      PROVE  \E new : LogGrows(new) /\ FreshKeys(new) /\ Explained(new)
  <2>1. LogGrows({})
    BY <1>1, <1>2, LogStays
  <2>2. FreshKeys({}) /\ Explained({})
    BY <1>2 DEF FreshKeys, Explained
  <2> QED
    BY <2>1, <2>2
<1>3. ASSUME UNCHANGED <<roster, log>> PROVE \E new : LogGrows(new) /\ FreshKeys(new) /\ Explained(new)
  BY <1>2, <1>3 DEF Owner
<1>4. ASSUME NEW t \in Teams, NEW lineup \in Lineups, NEW w \in Weeks, SetLineup(t, lineup, w)
      PROVE  \E new : LogGrows(new) /\ FreshKeys(new) /\ Explained(new)
  <2>1. \A u : RosterIn(roster', u) = RosterIn(roster, u)
    BY <1>1, <1>4, SetLineupEffect
  <2>2. \A p \in Players : Owner(p)' = Owner(p)
    <3> TAKE p \in Players
    <3>1. p \in RosterIn(roster', roster'[p].team) <=> p \in RosterIn(roster, roster'[p].team)
      BY <2>1
    <3>2. p \in RosterIn(roster', roster[p].team) <=> p \in RosterIn(roster, roster[p].team)
      BY <2>1
    <3> QED
      BY <3>1, <3>2 DEF Owner, RosterIn
  <2> QED
    BY <1>2, <1>4, <2>2 DEF SetLineup
<1>5. ASSUME NEW deal, NEW expires, Propose(deal, expires) PROVE UNCHANGED <<roster, log>>
  BY <1>5 DEF Propose
<1>6. ASSUME NEW rows, NEW deal, Counter(rows, deal) PROVE UNCHANGED <<roster, log>>
  BY <1>6 DEF Counter
<1>7. ASSUME NEW rows, NEW status, Withdraw(rows, status) PROVE UNCHANGED <<roster, log>>
  BY <1>7 DEF Withdraw
<1>8. ASSUME ClockStep \/ ExpireTrades \/ RequestStep PROVE UNCHANGED <<roster, log>>
  BY <1>8 DEF ClockStep, ExpireTrades, rosterVars, RequestStep
<1>9. \E new : LogGrows(new) /\ FreshKeys(new) /\ Explained(new)
  BY <1>1, <1>3, <1>4, <1>5, <1>6, <1>7, <1>8, AddKeepsRecords, DropKeepsRecords,
     TradeKeepsRecords, Steps
<1> QED
  BY <1>9, RecordsStay

\* The log of transactions explains the rosters, but for requests that repeat a used key
\* or drop a row that was gone, and no key adds two players.
THEOREM RecordsCorrect == Spec => RecordsSound
<1>1. Init => RecordsInv
  <2>1. Init => OwnersOnRecord
    BY DEF Init, RosterInit, OwnersOnRecord, Owner, DraftedBy
  <2> QED
    BY <2>1 DEF Init, RosterInit, RecordsInv, KeysUsedOnce, DropsWithAdds, AddsWithDrops, Known
<1>2. RowsInv /\ RecordsInv /\ [Next]_vars => RecordsInv'
  BY RecordsStep
<1>3. RecordsInv => OwnersOnRecord /\ AddedOnce
  BY DEF RecordsInv, KeysUsedOnce, AddedOnce
<1>4. RowsInv /\ RecordsInv /\ [Next]_vars =>
         [\A p \in Players :
             OwnerOnRecord(p) = Owner(p) \/ About(p)' # About(p) =>
                 OwnerOnRecord(p)' = Owner(p)' \/ Repeated(p) \/ DropsNobody(p)]_vars
  BY RecordsStep DEF Accounted
<1> QED
  BY <1>1, <1>2, <1>3, <1>4, RowsCorrect, PTL DEF Spec, RecordsSound
-----------------------------------------------------------------------------
(* Lineups.                                                                *)

\* From kickoff on a player is not moved.
LEMMA KickedOffStep ==
    ASSUME RowsInv, [Next]_vars, NEW p \in Players, KickedOff(p)
    PROVE  roster'[p] = roster[p]
<1>1. RosterTypes /\ OffersTyped
  BY DEF RowsInv, TradeTypes, OffersTyped
<1>2. ASSUME NEW t \in Teams, NEW lineup \in Lineups, NEW w \in Weeks, SetLineup(t, lineup, w)
      PROVE  roster'[p] = roster[p]
  <2>1. CASE p \in RosterOf(t)
    BY <1>2, <2>1 DEF SetLineup
  <2>2. CASE p \notin RosterOf(t)
    <3>1. \A q \in Players : roster[q] = None \/ roster[q].team # t => roster'[q] = roster[q]
      BY <1>1, <1>2, SetLineupEffect
    <3> QED
      BY <2>2, <3>1 DEF RosterOf
  <2> QED
    BY <2>1, <2>2
<1>3. ASSUME NEW k \in Keys, NEW t \in Teams, NEW q \in Players, NEW d \in Players \cup {None},
             NEW w \in Weeks, Adds(k, t, q, d, w)
      PROVE  roster'[p] = roster[p]
  <2>1. AddedFor(t, q, d)
    BY <1>1, <1>3, AddEffect DEF Adds
  <2>2. p # q /\ p # d
    BY <1>3, RostersAssumption DEF Adds, Add
  <2> QED
    BY <2>1, <2>2 DEF AddedFor
<1>4. ASSUME NEW k \in Keys, NEW t \in Teams, NEW q \in Players, Drops(k, t, q)
      PROVE  roster'[p] = roster[p]
  BY <1>1, <1>4 DEF Drops, RosterTypes
<1>5. ASSUME NEW rows, Answers(rows), NEW drops, Accept(rows, drops)
      PROVE  roster'[p] = roster[p]
  <2> DEFINE deal == rows.o.deal
  <2>1. deal \in Deals
    BY <1>5, AcceptCarriesOut
  <2>2. PICK plan : Settled(deal, drops, plan)
    BY <1>5, AcceptSettles
  <2>3. /\ Owned(deal) /\ Droppable(deal.from, deal.drops, deal) /\ Droppable(deal.to, drops, deal)
        /\ \A q \in PlayersOf(deal) : ~KickedOff(q)
    BY <1>5 DEF Accept
  <2> HIDE DEF deal
  <2>4. TradeEffect(deal, drops, plan)
    BY <1>1, <2>1, <2>2, <2>3, AcceptEffect
  <2>5. p \notin Gone(deal, drops)
    BY <2>3 DEF Gone, Droppable
  <2>6. CASE roster[p] = None \/ roster[p].team \notin LosesStarter(deal, drops)
    BY <2>4, <2>5, <2>6 DEF TradeEffect
  <2>7. CASE roster[p] # None /\ roster[p].team \in LosesStarter(deal, drops)
    <3> DEFINE t == roster[p].team
    <3>1. /\ roster'[p] # None /\ roster'[p].team = t
          /\ roster' \in [Players -> Assignments \cup {None}]
          /\ FieldedAs(roster', t, plan[t])
      BY <2>4, <2>5, <2>7 DEF TradeEffect
    <3>2. \/ roster[p].slot # "BENCH" /\ plan[t][roster[p].slot] = p
          \/ roster[p].slot = "BENCH" /\ \A slot \in Slots : plan[t][slot] # p
      <4>1. plan[t] \in Planned(t, deal, drops)
        BY <2>2, <2>7 DEF Settled
      <4>2. p \in RosterOf(t) \ Gone(deal, drops)
        BY <2>5, <2>7 DEF RosterOf
      <4> HIDE DEF t
      <4> QED
        BY <4>1, <4>2 DEF Planned
    <3>3. roster[p] \in Assignments /\ roster'[p] \in Assignments
      BY <1>1, <2>7, <3>1 DEF RosterTypes
    <3>4. roster'[p].slot = roster[p].slot
      BY <3>1, <3>2, <3>3 DEF FieldedAs, RosterIn, Assignments
    <3> QED
      BY <3>1, <3>3, <3>4 DEF Assignments
  <2> QED
    BY <2>6, <2>7
<1>6. ASSUME NEW deal, NEW expires, Propose(deal, expires) PROVE UNCHANGED roster
  BY <1>6 DEF Propose
<1>7. ASSUME NEW rows, NEW deal, Counter(rows, deal) PROVE UNCHANGED roster
  BY <1>7 DEF Counter
<1>8. ASSUME NEW rows, NEW status, Withdraw(rows, status) PROVE UNCHANGED roster
  BY <1>8 DEF Withdraw
<1>9. ASSUME ClockStep \/ ExpireTrades \/ RequestStep PROVE UNCHANGED roster
  BY <1>9 DEF ClockStep, ExpireTrades, rosterVars, RequestStep
<1> QED
  BY <1>1, <1>2, <1>3, <1>4, <1>5, <1>6, <1>7, <1>8, <1>9, Steps

\* The slots that t's starters fill, and the lineup that is read off the rosters.
Filled(r, t) == {r[p].slot : p \in StartersIn(r, t)}

LEMMA CurrentLineup ==
    ASSUME NEW r \in [Players -> Assignments \cup {None}], NEW t \in Teams, LawfulFor(r, t)
    PROVE  /\ DOMAIN Current(r, t) = Filled(r, t) /\ IsInjective(Current(r, t))
           /\ Range(Current(r, t)) = StartersIn(r, t)
<1> DEFINE l == Current(r, t)
           D == {s \in Slots : \E p \in Players : r[p] = [team |-> t, slot |-> s]}
<1>1. l = [slot \in D |-> CHOOSE p \in Players : r[p] = [team |-> t, slot |-> slot]]
  BY DEF Current
<1>2. \A s \in D : l[s] \in Players /\ r[l[s]] = [team |-> t, slot |-> s]
  BY <1>1
<1>3. \A s \in D : l[s] \in StartersIn(r, t) /\ r[l[s]].slot = s
  BY <1>2, RostersAssumption DEF StartersIn, RosterIn, Assignments
<1>4. \A p \in StartersIn(r, t) : r[p].slot \in D /\ l[r[p].slot] = p
  <2> TAKE p \in StartersIn(r, t)
  <2>1. r[p] = [team |-> t, slot |-> r[p].slot] /\ r[p].slot \in Slots /\ p \in Players
    BY DEF StartersIn, RosterIn, Assignments
  <2>2. r[p].slot \in D
    BY <2>1
  <2>3. l[r[p].slot] \in StartersIn(r, t) /\ r[l[r[p].slot]].slot = r[p].slot
    BY <1>3, <2>2
  <2> QED
    BY <2>2, <2>3 DEF LawfulFor
<1>5. DOMAIN l = D
  BY <1>1
<1> HIDE DEF l, D
<1>6. D = Filled(r, t)
  BY <1>3, <1>4 DEF Filled
<1>7. IsInjective(l)
  BY <1>3, <1>5 DEF IsInjective
<1>8. Range(l) = StartersIn(r, t)
  BY <1>3, <1>4, <1>5 DEF Range
<1> QED
  BY <1>5, <1>6, <1>7, <1>8 DEF l

\* A step either leaves a team's starters and decisions alone or sets its lineup and
\* decides for some week what the rosters show; no filled slot is emptied.
SameLineup(t) ==
    /\ decided'[t] = decided[t]
    /\ StartersIn(roster', t) = StartersIn(roster, t) /\ Filled(roster', t) = Filled(roster, t)
NewLineup(t) ==
    /\ \E w \in Weeks : decided'[t] = [decided[t] EXCEPT ![w] = Current(roster', t)]
    /\ Filled(roster, t) \subseteq Filled(roster', t)

LEMMA FilledSlots ==
    ASSUME NEW r \in [Players -> Assignments \cup {None}], NEW t
    PROVE  Filled(r, t) \subseteq Slots
BY DEF Filled, StartersIn, RosterIn, Assignments

LEMMA LineupSteps ==
    ASSUME RowsInv, RostersLegal, [Next]_vars
    PROVE  \/ week' = week /\ \A t \in Teams : SameLineup(t) \/ NewLineup(t) \/ DropsStarter(t)
           \/ week' = week + 1 /\ UNCHANGED <<roster, decided>>
<1>1. RosterTypes /\ OffersTyped /\ RosterTypes'
  BY RosterTypesStep DEF RowsInv, TradeTypes, OffersTyped
<1>2. ASSUME UNCHANGED <<roster, decided>> PROVE \A t \in Teams : SameLineup(t)
  BY <1>2 DEF SameLineup, StartersIn, RosterIn, Filled
<1>3. ASSUME NEW u \in Teams, decided'[u] = decided[u], StartersIn(roster', u) = StartersIn(roster, u),
             \A q \in StartersIn(roster, u) : roster'[q].slot = roster[q].slot
      PROVE  SameLineup(u)
  <2>1. Filled(roster', u) = Filled(roster, u)
    BY <1>3 DEF Filled
  <2> QED
    BY <1>3, <2>1 DEF SameLineup
<1>4. ASSUME NEW u \in Teams, decided'[u] = decided[u], RosterIn(roster', u) = RosterIn(roster, u),
             \A q \in RosterIn(roster, u) : roster'[q] = roster[q]
      PROVE  SameLineup(u)
  <2>1. /\ StartersIn(roster', u) = StartersIn(roster, u)
        /\ \A q \in StartersIn(roster, u) : roster'[q] = roster[q]
    BY <1>4 DEF StartersIn
  <2> QED
    BY <1>3, <1>4, <2>1
<1>5. ASSUME NEW t \in Teams, NEW lineup \in Lineups, NEW w \in Weeks, SetLineup(t, lineup, w)
      PROVE  week' = week /\ \A u \in Teams : SameLineup(u) \/ NewLineup(u)
  <2>1. /\ roster' \in [Players -> Assignments \cup {None}]
        /\ \A u : RosterIn(roster', u) = RosterIn(roster, u)
        /\ \A p \in Players : roster[p] = None \/ roster[p].team # t => roster'[p] = roster[p]
        /\ FieldedAs(roster', t, lineup) /\ Legal(lineup, RosterIn(roster', t))
    BY <1>1, <1>5, SetLineupEffect
  <2>2. week' = week /\ decided' = [decided EXCEPT ![t][w] = lineup]
    BY <1>5 DEF SetLineup, clock
  <2>3. Filled(roster', t) = Slots /\ Current(roster', t) = lineup
    BY <2>1, FieldedLawfully DEF Filled
  <2>4. NewLineup(t)
    <3>1. Filled(roster, t) \subseteq Slots
      BY <1>1, FilledSlots DEF RosterTypes
    <3>2. decided'[t] = [decided[t] EXCEPT ![w] = lineup]
      BY <1>1, <2>2 DEF RosterTypes
    <3> QED
      BY <2>3, <3>1, <3>2 DEF NewLineup
  <2>5. ASSUME NEW u \in Teams \ {t} PROVE SameLineup(u)
    <3>1. decided'[u] = decided[u]
      BY <1>1, <2>2 DEF RosterTypes
    <3>2. \A q \in RosterIn(roster, u) : roster'[q] = roster[q]
      BY <2>1 DEF RosterIn
    <3> QED
      BY <1>4, <2>1, <3>1, <3>2
  <2> QED
    BY <2>2, <2>4, <2>5
<1>6. ASSUME NEW k \in Keys, NEW t \in Teams, NEW p \in Players, NEW d \in Players \cup {None},
             NEW w \in Weeks, Adds(k, t, p, d, w)
      PROVE  week' = week /\ \A u \in Teams : SameLineup(u) \/ NewLineup(u)
  <2>1. AddedFor(t, p, d)
    BY <1>1, <1>6, AddEffect DEF Adds
  <2>2. week' = week /\ decided' = DecidedAnew(t, w, Inherited(d))
    BY <1>6 DEF Adds, Add, clock
  <2>3. \A u \in Teams \ {t} : decided'[u] = decided[u]
    BY <1>1, <2>2 DEF DecidedAnew, RosterTypes
  <2>4. \A u \in Teams \ {t} : SameLineup(u)
    BY <1>4, <2>1, <2>3 DEF AddedFor
  <2>5. CASE Inherited(d) = "BENCH"
    <3>1. d \notin StartersIn(roster, t) /\ p \notin StartersIn(roster, t) /\ p \notin StartersIn(roster', t)
      <4>1. d \notin StartersIn(roster, t)
        BY <2>5, RostersAssumption DEF Inherited, StartersIn, RosterIn
      <4>2. p \notin StartersIn(roster, t)
        BY <2>1 DEF AddedFor, StartersIn
      <4>3. roster'[p].slot = "BENCH"
        BY <2>1, <2>5 DEF AddedFor
      <4> QED
        BY <4>1, <4>2, <4>3 DEF StartersIn
    <3>2. \A q \in Players \ {p, d} : q \in StartersIn(roster', t) <=> q \in StartersIn(roster, t)
      BY <2>1 DEF AddedFor, StartersIn, RosterIn
    <3>3. d \notin StartersIn(roster', t)
      BY <2>1, RostersAssumption DEF AddedFor, StartersIn, RosterIn
    <3>4. StartersIn(roster', t) = StartersIn(roster, t)
      BY <3>1, <3>2, <3>3 DEF StartersIn, RosterIn
    <3>5. \A q \in StartersIn(roster, t) : roster'[q] = roster[q]
      BY <2>1, <3>1 DEF AddedFor, StartersIn, RosterIn
    <3>6. decided'[t] = decided[t]
      BY <2>2, <2>5 DEF DecidedAnew
    <3>7. SameLineup(t)
      BY <1>3, <3>4, <3>5, <3>6
    <3> QED
      BY <2>2, <2>4, <3>7
  <2>6. CASE Inherited(d) # "BENCH"
    <3>1. d # None /\ d \in StartersIn(roster, t) /\ roster[d].slot = Inherited(d)
      BY <2>1, <2>6 DEF AddedFor, Inherited, StartersIn
    <3>2. p \in StartersIn(roster', t) /\ roster'[p].slot = roster[d].slot
      BY <2>1, <2>6, <3>1 DEF AddedFor, StartersIn
    <3>3. \A q \in StartersIn(roster, t) \ {d} : q \in StartersIn(roster', t) /\ roster'[q] = roster[q]
      BY <2>1 DEF AddedFor, StartersIn, RosterIn
    <3>4. Filled(roster, t) \subseteq Filled(roster', t)
      BY <3>2, <3>3 DEF Filled
    <3>5. decided'[t] = [decided[t] EXCEPT ![w] = Current(roster', t)]
      BY <1>1, <2>2, <2>6 DEF DecidedAnew, RosterTypes
    <3>6. NewLineup(t)
      BY <3>4, <3>5 DEF NewLineup
    <3> QED
      BY <2>2, <2>4, <3>6
  <2> QED
    BY <2>5, <2>6
<1>7. ASSUME NEW k \in Keys, NEW t \in Teams, NEW p \in Players, Drops(k, t, p)
      PROVE  week' = week /\ \A u \in Teams : SameLineup(u) \/ DropsStarter(u)
  <2>1. week' = week /\ decided' = decided
    BY <1>7 DEF Drops, clock
  <2>2. CASE roster' = roster
    BY <1>2, <2>1, <2>2
  <2>3. CASE roster' = [roster EXCEPT ![p] = None]
    <3>1. /\ roster'[p] = None /\ \A q \in Players \ {p} : roster'[q] = roster[q]
          /\ \A u \in Teams : StartersIn(roster', u) = StartersIn(roster, u) \ {p}
      BY <1>1, <2>3, DropEffect
    <3>2. ASSUME NEW u \in Teams, p \notin StartersIn(roster, u) PROVE SameLineup(u)
      <4>1. /\ StartersIn(roster', u) = StartersIn(roster, u)
            /\ \A q \in StartersIn(roster, u) : roster'[q] = roster[q]
        BY <3>1, <3>2 DEF StartersIn, RosterIn
      <4> QED
        BY <1>3, <2>1, <4>1
    <3>3. ASSUME NEW u \in Teams, p \in StartersIn(roster, u) PROVE DropsStarter(u)
      <4>1. roster' # roster /\ roster[p].slot # "BENCH"
        BY <3>1, <3>3 DEF StartersIn, RosterIn
      <4>2. LateRow(p)
        BY <1>7, <4>1 DEF Drops
      <4> QED
        BY <3>1, <3>3, <4>2, RosterNow DEF DropsStarter, LateRow
    <3> QED
      BY <2>1, <3>2, <3>3
  <2> QED
    BY <1>7, <2>2, <2>3 DEF Drops
<1>8. ASSUME NEW rows, Answers(rows), NEW drops, Accept(rows, drops)
      PROVE  week' = week /\ \A u \in Teams : SameLineup(u) \/ NewLineup(u)
  <2> DEFINE deal == rows.o.deal
  <2>1. deal \in Deals
    BY <1>8, AcceptCarriesOut
  <2>2. PICK plan : Settled(deal, drops, plan)
    BY <1>8, AcceptSettles
  <2>3. Owned(deal) /\ Droppable(deal.from, deal.drops, deal) /\ Droppable(deal.to, drops, deal)
    BY <1>8 DEF Accept
  <2> HIDE DEF deal
  <2>4. TradeEffect(deal, drops, plan)
    BY <1>1, <2>1, <2>2, <2>3, AcceptEffect
  <2>5. /\ week' = week /\ week \in Weeks
        /\ \A u \in Teams : decided'[u] = IF u \in LosesStarter(deal, drops)
                                          THEN [decided[u] EXCEPT ![week] = plan[u]] ELSE decided[u]
    BY <1>1, <1>8, <2>2 DEF Answers, clock, Settled, RosterTypes
  <2>6. ASSUME NEW u \in Teams, u \in LosesStarter(deal, drops) PROVE NewLineup(u)
    <3>1. /\ roster' \in [Players -> Assignments \cup {None}]
          /\ plan[u] \in Lineups /\ Legal(plan[u], RosterIn(roster', u)) /\ FieldedAs(roster', u, plan[u])
      BY <2>4, <2>6 DEF TradeEffect
    <3>2. Filled(roster', u) = Slots /\ Current(roster', u) = plan[u]
      BY <3>1, FieldedLawfully DEF Filled
    <3>3. Filled(roster, u) \subseteq Slots
      BY <1>1, FilledSlots DEF RosterTypes
    <3> QED
      BY <2>5, <2>6, <3>2, <3>3 DEF NewLineup
  <2>7. ASSUME NEW u \in Teams, u \notin LosesStarter(deal, drops) PROVE SameLineup(u)
    <3>1. /\ StartersIn(roster', u) = StartersIn(roster, u)
          /\ \A q \in StartersIn(roster, u) : roster'[q] = roster[q]
      BY <1>1, <2>1, <2>4, <2>7, StartersKept
    <3>2. decided'[u] = decided[u]
      BY <2>5, <2>7
    <3> QED
      BY <1>3, <3>1, <3>2
  <2> QED
    BY <2>5, <2>6, <2>7
<1>9. ASSUME ClockStep
      PROVE  UNCHANGED <<roster, decided>> /\ (week' = week \/ week' = week + 1)
  BY <1>9 DEF ClockStep, Kickoff, WaiversClear, NextWeek, SetLock
<1>10. ASSUME NEW deal, NEW expires, Propose(deal, expires), UNCHANGED <<clock, past, loaded>>
       PROVE  UNCHANGED <<roster, decided>> /\ week' = week
  BY <1>10 DEF Propose, clock
<1>11. ASSUME NEW rows, Answers(rows), NEW deal, Counter(rows, deal)
       PROVE  UNCHANGED <<roster, decided>> /\ week' = week
  BY <1>11 DEF Counter, Answers, clock
<1>12. ASSUME NEW rows, Answers(rows), NEW status, Withdraw(rows, status)
       PROVE  UNCHANGED <<roster, decided>> /\ week' = week
  BY <1>12 DEF Withdraw, Answers, clock
<1>13. ASSUME ExpireTrades \/ RequestStep PROVE UNCHANGED <<roster, decided>> /\ week' = week
  BY <1>13 DEF ExpireTrades, rosterVars, RequestStep, clock
<1> QED
  BY <1>1, <1>2, <1>5, <1>6, <1>7, <1>8, <1>9, <1>10, <1>11, <1>12, <1>13, Steps

LEMMA ScoredStep ==
    ASSUME RowsInv, RostersLegal, [Next]_vars, NEW t \in Teams, InSync(t), ~DropsStarter(t)
    PROVE  InSync(t)' \/ \E w \in Weeks \ {week} : decided'[t][w] = Current(roster', t)
<1>1. /\ RosterTypes /\ RosterTypes' /\ LawfulFor(roster', t)
      /\ StartersIn(roster', t) \subseteq RosterIn(roster', t)
      /\ week \in Weeks /\ week \in Nat
  <2>1. RostersLegal'
    BY LawfulStep
  <2>2. Lawful(roster')
    BY <2>1 DEF RostersLegal, Lawful, Capacity
  <2> QED
    BY <2>2, LawfulTeams, RosterTypesStep DEF RowsInv, RosterTypes, StartersIn, Weeks
<1>2. InSync(t)' <=>
         /\ decided'[t][week'] = None \/ Range(decided'[t][week']) = StartersIn(roster', t)
         /\ \A w \in Weeks : w > week' => decided'[t][w] = None
  BY DEF InSync, Starters, RosterOf, StartersIn, RosterIn, Range
<1>3. CASE week' = week + 1 /\ UNCHANGED <<roster, decided>>
  <2>1. week' \in Weeks /\ week' > week
    BY <1>1, <1>3 DEF RosterTypes
  <2>2. decided'[t][week'] = None
    BY <1>3, <2>1 DEF InSync
  <2>3. \A w \in Weeks : w > week' => decided'[t][w] = None
    <3>1. \A w \in Weeks : w \in Nat
      BY DEF Weeks
    <3>2. \A w \in Weeks : w > week' => w > week
      BY <1>1, <1>3, <3>1
    <3> QED
      BY <1>3, <3>2 DEF InSync
  <2> QED
    BY <1>2, <2>2, <2>3
<1>4. CASE week' = week /\ SameLineup(t)
  <2>1. decided[t][week] # None => Range(decided[t][week]) = StartersIn(roster, t)
    BY RosterNow DEF InSync
  <2>2. \A w \in Weeks : w > week => decided[t][w] = None
    BY DEF InSync
  <2>3. decided'[t] = decided[t] /\ StartersIn(roster', t) = StartersIn(roster, t) /\ week' = week
    BY <1>4 DEF SameLineup
  <2> QED
    BY <1>1, <1>2, <2>1, <2>2, <2>3
<1>5. CASE week' = week /\ NewLineup(t)
  <2>1. PICK w \in Weeks : decided'[t] = [decided[t] EXCEPT ![w] = Current(roster', t)]
    BY <1>5 DEF NewLineup
  <2>2. DOMAIN decided[t] = Weeks
    BY <1>1 DEF RosterTypes
  <2>3. decided'[t][w] = Current(roster', t)
    BY <2>1, <2>2
  <2>4. CASE w # week
    BY <2>3, <2>4
  <2>5. CASE w = week
    <3>1. Range(Current(roster', t)) = StartersIn(roster', t)
      BY <1>1, CurrentLineup DEF RosterTypes
    <3>2. \A v \in Weeks : v > week => decided'[t][v] = None
      <4>1. \A v \in Weeks : v # week => decided'[t][v] = decided[t][v]
        BY <2>1, <2>2, <2>5
      <4>2. \A v \in Weeks : v > week => v # week
        BY <1>1 DEF Weeks
      <4> QED
        BY <4>1, <4>2 DEF InSync
    <3> QED
      BY <1>1, <1>2, <1>5, <2>3, <2>5, <3>1, <3>2
  <2> QED
    BY <2>4, <2>5
<1> QED
  BY <1>3, <1>4, <1>5, LineupSteps

LEMMA CompleteStep ==
    ASSUME RowsInv, RostersLegal, [Next]_vars, NEW t \in Teams, Complete(t), ~DropsStarter(t)
    PROVE  Complete(t)'
<1>1. Complete(t) <=> Filled(roster, t) = Slots
  BY RosterNow DEF Complete, Filled
<1>2. Complete(t)' <=> Filled(roster', t) = Slots
  BY DEF Complete, Filled, Starters, RosterOf, StartersIn, RosterIn
<1>3. Filled(roster', t) \subseteq Slots
  BY RosterTypesStep, FilledSlots DEF RosterTypes
<1>4. Filled(roster, t) \subseteq Filled(roster', t)
  <2>1. CASE UNCHANGED <<roster, decided>>
    BY <2>1 DEF Filled, StartersIn, RosterIn
  <2>2. CASE SameLineup(t) \/ NewLineup(t)
    BY <2>2 DEF SameLineup, NewLineup
  <2> QED
    BY <2>1, <2>2, LineupSteps
<1> QED
  BY <1>1, <1>2, <1>3, <1>4

\* A lineup stays complete but for the drop of a player who became a starter while it
\* waited, a player whose game has begun stays put, and the lineup that scores stays the
\* one on the rosters unless another week's is set.
THEOREM LineupsKept == Spec => LineupsHold
<1>1. RowsInv /\ RostersLegal /\ [Next]_vars =>
         [\A t \in Teams : Complete(t) => Complete(t)' \/ DropsStarter(t)]_vars
  BY CompleteStep
<1>2. RowsInv /\ [Next]_vars => [\A p \in Players : KickedOff(p) => roster'[p] = roster[p]]_vars
  BY KickedOffStep
<1>3. RowsInv /\ RostersLegal /\ [Next]_vars =>
         [\A t \in Teams : InSync(t) =>
             \/ InSync(t)'
             \/ \E w \in Weeks \ {week} : decided'[t][w] = Current(roster', t)
             \/ DropsStarter(t)]_vars
  BY ScoredStep
<1> QED
  BY <1>1, <1>2, <1>3, RowsCorrect, RostersAlwaysLegal, PTL
     DEF Spec, LineupsHold, LineupsStayComplete, KickedOffStay, ScoredAsFielded
=============================================================================
