-------------------------- MODULE TradeReviewProofs --------------------------
(***************************************************************************)
(* Theorems about TradeReview for any number of teams, offers, retries,    *)
(* requests of others and negotiation rounds.                              *)
(***************************************************************************)
EXTENDS TradeReview, FiniteSetTheorems, SequenceTheorems, TLAPS

-----------------------------------------------------------------------------
(* The order in which a review asks.                                       *)

\* Ascending lists each number of a finite set once: the numbers before x count its
\* place, two of them never count the same, so by the pigeonhole all places are taken.
LEMMA AscendingLists ==
    ASSUME NEW S \in SUBSET Nat, IsFiniteSet(S)
    PROVE  /\ Cardinality(S) \in Nat
           /\ Ascending(S) \in [1..Cardinality(S) -> S]
           /\ \A m, n \in 1..Cardinality(S) : m # n => Ascending(S)[m] # Ascending(S)[n]
           /\ \A x \in S : \E n \in 1..Cardinality(S) : Ascending(S)[n] = x
<1> DEFINE N == Cardinality(S)
           Before(x) == {y \in S : y < x}
           Place == [x \in S |-> Cardinality(Before(x)) + 1]
<1>1. N \in Nat
  BY FS_CardinalityType
<1>2. ASSUME NEW x \in S PROVE Cardinality(Before(x)) \in 0..N - 1
  <2>1. Before(x) \in SUBSET S /\ x \notin Before(x)
    OBVIOUS
  <2>2. IsFiniteSet(Before(x)) /\ Cardinality(Before(x)) <= N /\ Cardinality(Before(x)) # N
    BY <2>1, FS_Subset
  <2> QED
    BY <1>1, <2>2, FS_CardinalityType
<1>3. ASSUME NEW x \in S, NEW z \in S, x < z PROVE Place[x] # Place[z]
  <2>1. Before(x) \in SUBSET Before(z) /\ x \in Before(z) /\ x \notin Before(x)
    <3>1. x \in Nat /\ z \in Nat /\ \A y \in S : y \in Nat
      OBVIOUS
    <3>2. \A y \in S : y < x => y < z
      BY <1>3, <3>1
    <3>3. ~(x < x)
      BY <3>1
    <3>4. x \in Before(z)
      BY <1>3
    <3>5. x \notin Before(x)
      BY <3>3
    <3>6. Before(x) \in SUBSET Before(z)
      BY <3>2
    <3> QED
      BY <3>4, <3>5, <3>6
  <2>2. IsFiniteSet(Before(z))
    BY FS_Subset
  <2>3. Cardinality(Before(x)) # Cardinality(Before(z))
    BY <2>1, <2>2, FS_Subset
  <2> QED
    BY <1>2, <2>3
<1>4. \A x, z \in S : x # z => Place[x] # Place[z]
  BY <1>3
<1>5. Place \in [S -> 1..N]
  BY <1>1, <1>2
<1>6. IsFiniteSet(1..N) /\ Cardinality(1..N) = N
  BY <1>1, FS_Interval
<1>7. Place \in Injection(S, 1..N)
  <2> HIDE DEF Place
  <2> QED
    BY <1>4, <1>5 DEF Injection, IsInjective
<1>8. Place \in Surjection(S, 1..N)
  <2> HIDE DEF Place
  <2> QED
    BY <1>6, <1>7, FS_Injection
<1>9. \A n \in 1..N : \E x \in S : Place[x] = n
  <2> HIDE DEF Place
  <2> QED
    BY <1>8 DEF Surjection
<1>10. \A n \in 1..N : Ascending(S)[n] \in S /\ Place[Ascending(S)[n]] = n
  <2> SUFFICES ASSUME NEW n \in 1..N
               PROVE  Ascending(S)[n] \in S /\ Place[Ascending(S)[n]] = n
    OBVIOUS
  <2>1. Ascending(S)[n] = CHOOSE x \in S : Cardinality(Before(x)) = n - 1
    BY DEF Ascending
  <2>2. \E x \in S : Cardinality(Before(x)) = n - 1
    BY <1>1, <1>2, <1>9
  <2>3. Ascending(S)[n] \in S /\ Cardinality(Before(Ascending(S)[n])) = n - 1
    BY <2>1, <2>2
  <2> QED
    BY <1>1, <2>3
<1>11. Ascending(S) \in [1..N -> S]
  BY <1>10 DEF Ascending
<1>12. \A m, n \in 1..N : m # n => Ascending(S)[m] # Ascending(S)[n]
  BY <1>10
<1>13. \A x \in S : \E n \in 1..N : Ascending(S)[n] = x
  <2> SUFFICES ASSUME NEW x \in S PROVE \E n \in 1..N : Ascending(S)[n] = x
    OBVIOUS
  <2>1. Place[x] \in 1..N /\ Place[Ascending(S)[Place[x]]] = Place[x]
    BY <1>5, <1>10
  <2> QED
    BY <1>4, <1>5, <1>10, <2>1
<1> QED
  BY <1>1, <1>11, <1>12, <1>13
-----------------------------------------------------------------------------
(* The rows of negotiations: offers are only added and negotiations only   *)
(* go on or end, whoever acts.                                             *)

Actors == Reviews \cup {None}
ThreadRows == [status : {"PENDING"} \cup Settled, rounds : 1..MaxRounds,
               sides : SUBSET Range(Teams), opener : Range(Teams), by : Actors]
OfferRows == [thread : Nat, round : 1..MaxRounds, from : Range(Teams), to : Range(Teams),
              by : Actors]
RowsInv ==
    /\ threads \in Seq(ThreadRows) /\ offers \in Seq(OfferRows)
    /\ \A j \in DOMAIN offers : /\ offers[j].thread \in DOMAIN threads
                                /\ offers[j].round <= threads[offers[j].thread].rounds

\* What a step of one actor can do to the rows, as the reviews see it.
NewOffer(who, j) ==
    /\ offers'[j].by = who
    /\ \/ offers'[j].thread \notin DOMAIN threads
       \/ \E k \in DOMAIN offers : /\ Current(k) /\ offers'[j].thread = offers[k].thread
                                   /\ offers'[j].round = offers[k].round + 1
Grown(who) ==
    /\ RowsInv'
    /\ DOMAIN threads \subseteq DOMAIN threads' /\ DOMAIN offers \subseteq DOMAIN offers'
    /\ \A j \in DOMAIN offers : offers'[j] = offers[j] /\ (Current(j)' => Current(j))
    /\ \A j \in DOMAIN offers' \ DOMAIN offers : NewOffer(who, j)
    /\ \A i \in DOMAIN threads : threads'[i].by = threads[i].by
                                 /\ threads'[i].opener = threads[i].opener
    /\ \A i \in DOMAIN threads' \ DOMAIN threads : threads'[i].by = who

-----------------------------------------------------------------------------
(* A review and the checkpoints of the job.                                *)

Keys == {OfferKey(j) : j \in Nat} \cup {TeamKey(t) : t \in Range(Teams)}
Outcomes == {"DONE", "FAILED"}
ReviewRows == [pc : {"asleep", "next", "asking", "reviewed", "answered", "done"},
               todo : Seq(Keys), again : BOOLEAN, result : Outcomes \cup {None},
               seen : SUBSET Nat, turn : 0..MaxRounds, heard : SUBSET Keys,
               failed : SUBSET Keys, scope : SUBSET Nat]
Types ==
    /\ RowsInv
    /\ reviews \in [Reviews -> ReviewRows]
    /\ loop \in Actors
    /\ noted \in SUBSET Range(Teams)
    /\ DOMAIN job = {"status", "attempts", "results"}
    /\ DOMAIN job.results \subseteq Keys /\ job.results \in [DOMAIN job.results -> Outcomes]

\* A checkpoint of an offer that is done stands for an offer that was dealt with.
DoneAreSettled ==
    \A key \in DOMAIN job.results : key[1] = "offer" =>
        key[2] \in DOMAIN offers /\ (job.results[key] = "DONE" => ~Current(key[2]))

\* Whoever works without waiting for an answer has the loop.
LoopHeld == \A r \in Reviews : reviews[r].pc \notin {"asleep", "asking"} => loop = r

\* The list of a review names no offer twice, none that was heard, and teams only in the
\* first turn.
ListInv(r) ==
    LET v == reviews[r]
    IN  /\ v.seen \subseteq DOMAIN offers /\ v.scope \subseteq DOMAIN threads
        /\ v.failed \subseteq v.heard
        /\ \A key \in v.heard : key[1] = "offer" /\ key[2] \in v.seen
        /\ \A n \in DOMAIN v.todo :
              /\ v.todo[n][1] = "team" => v.turn = 0
              /\ v.todo[n][1] = "offer" =>
                    /\ v.todo[n][2] \in v.seen /\ v.todo[n] \notin v.heard
                    /\ \A m \in DOMAIN v.todo : m # n => v.todo[m] # v.todo[n]
        /\ v.pc \in {"asking", "reviewed", "answered"} => v.todo # <<>>
        /\ v.pc \in {"asleep", "done"} => v.todo = <<>>
        /\ v.pc = "reviewed" => Key(r)[1] = "team"
        /\ v.pc \in {"reviewed", "answered"} => v.result \in Outcomes
        /\ v.pc = "answered" /\ v.result = "DONE" /\ Key(r)[1] = "offer" => ~Current(Key(r)[2])

\* No answer in negotiation i failed.
Unfailed(r, i) ==
    \A k \in DOMAIN offers : offers[k].thread = i => OfferKey(k) \notin reviews[r].failed

\* An offer that waits in a negotiation of the review is either listed or newer than the
\* turn: each turn moves every negotiation on by a round.
Listed(r, j) == \E n \in DOMAIN reviews[r].todo : reviews[r].todo[n] = OfferKey(j)
TurnInv(r) ==
    \A j \in DOMAIN offers :
        Current(j) /\ offers[j].thread \in reviews[r].scope /\ Unfailed(r, offers[j].thread) =>
            IF j \in reviews[r].seen THEN Listed(r, j) /\ offers[j].round >= reviews[r].turn
                                     ELSE offers[j].round > reviews[r].turn

SettledInv(r) == reviews[r].pc = "done" => ~\E j \in DOMAIN offers : Unanswered(r, j)

ReviewInv ==
    /\ Types /\ DoneAreSettled /\ LoopHeld
    /\ \A r \in Reviews : ListInv(r) /\ TurnInv(r) /\ SettledInv(r)

\* The openers of the job's negotiations are noted.
NotedInv ==
    \A i \in DOMAIN threads : threads[i].by = "job" => threads[i].opener \in noted

\* A team without an old stamp that the job asks has opened none.
AskedInv ==
    "job" \in Reviews /\ reviews["job"].pc = "asking" /\ Key("job")[1] = "team"
        /\ Key("job")[2] \notin Stamped
    => \A i \in DOMAIN threads : threads[i].by = "job" => threads[i].opener # Key("job")[2]

ProposalInv == NotedInv /\ AskedInv /\ OneProposalPerJob
-----------------------------------------------------------------------------
(* Keys and the lists of them.                                             *)

LEMMA KeyKinds ==
    /\ \A j : OfferKey(j)[1] = "offer" /\ OfferKey(j)[2] = j
    /\ \A t : TeamKey(t)[1] = "team" /\ TeamKey(t)[2] = t
    /\ \A key \in Keys : \/ key[1] = "offer" /\ key[2] \in Nat /\ key = OfferKey(key[2])
                         \/ key[1] = "team" /\ key[2] \in Range(Teams) /\ key = TeamKey(key[2])
    /\ \A j \in Nat : OfferKey(j) \in Keys
    /\ \A t \in Range(Teams) : TeamKey(t) \in Keys
BY DEF OfferKey, TeamKey, Keys

\* A list of offers has each of them once and no other.
LEMMA OfferKeysList ==
    ASSUME NEW js \in SUBSET Nat, IsFiniteSet(js)
    PROVE  /\ OfferKeys(js) \in Seq(Keys)
           /\ \A n \in DOMAIN OfferKeys(js) :
                 OfferKeys(js)[n] = OfferKey(OfferKeys(js)[n][2]) /\ OfferKeys(js)[n][2] \in js
           /\ \A m, n \in DOMAIN OfferKeys(js) : m # n => OfferKeys(js)[m] # OfferKeys(js)[n]
           /\ \A j \in js : \E n \in DOMAIN OfferKeys(js) : OfferKeys(js)[n] = OfferKey(j)
<1> DEFINE A == Ascending(js)
           N == Cardinality(js)
<1>1. /\ N \in Nat /\ A \in [1..N -> js]
      /\ \A m, n \in 1..N : m # n => A[m] # A[n]
      /\ \A x \in js : \E n \in 1..N : A[n] = x
  BY AscendingLists
<1>2. OfferKeys(js) = [n \in 1..N |-> OfferKey(A[n])]
  BY DEF OfferKeys
<1> HIDE DEF A, N
<1>3. DOMAIN OfferKeys(js) = 1..N /\ \A n \in 1..N : OfferKeys(js)[n] = OfferKey(A[n])
  BY <1>2
<1>4. \A n \in 1..N : A[n] \in js /\ OfferKey(A[n]) \in Keys
  BY <1>1, KeyKinds
<1>5. OfferKeys(js) \in Seq(Keys)
  BY <1>1, <1>2, <1>4
<1>6. \A n \in DOMAIN OfferKeys(js) :
         OfferKeys(js)[n] = OfferKey(OfferKeys(js)[n][2]) /\ OfferKeys(js)[n][2] \in js
  BY <1>3, <1>4, KeyKinds
<1>7. \A m, n \in DOMAIN OfferKeys(js) : m # n => OfferKeys(js)[m] # OfferKeys(js)[n]
  <2> SUFFICES ASSUME NEW m \in 1..N, NEW n \in 1..N, m # n
               PROVE  OfferKeys(js)[m] # OfferKeys(js)[n]
    BY <1>3
  <2>1. A[m] # A[n]
    BY <1>1
  <2>2. OfferKey(A[m])[2] = A[m] /\ OfferKey(A[n])[2] = A[n]
    BY KeyKinds
  <2>3. OfferKeys(js)[m] = OfferKey(A[m]) /\ OfferKeys(js)[n] = OfferKey(A[n])
    BY <1>3
  <2> QED
    BY <2>1, <2>2, <2>3
<1>8. \A j \in js : \E n \in DOMAIN OfferKeys(js) : OfferKeys(js)[n] = OfferKey(j)
  BY <1>1, <1>3
<1> QED
  BY <1>5, <1>6, <1>7, <1>8

LEMMA TeamKeysList ==
    ASSUME NEW ns \in SUBSET DOMAIN Teams
    PROVE  /\ TeamKeys(ns) \in Seq(Keys)
           /\ \A n \in DOMAIN TeamKeys(ns) : TeamKeys(ns)[n][1] = "team"
<1> DEFINE A == Ascending(ns)
           N == Cardinality(ns)
<1>1. DOMAIN Teams \subseteq Nat /\ IsFiniteSet(DOMAIN Teams)
  <2>1. DOMAIN Teams = 1..Len(Teams) /\ Len(Teams) \in Nat
    BY TradeReviewAssumption DEF TradeReviewAssumption
  <2> QED
    BY <2>1, FS_Interval
<1>2. ns \in SUBSET Nat /\ IsFiniteSet(ns)
  BY <1>1, FS_Subset
<1>3. N \in Nat /\ A \in [1..N -> ns]
  BY <1>2, AscendingLists
<1>4. TeamKeys(ns) = [n \in 1..N |-> TeamKey(Teams[A[n]])]
  BY DEF TeamKeys
<1> HIDE DEF A, N
<1>5. \A n \in 1..N : Teams[A[n]] \in Range(Teams)
  BY <1>3 DEF Range
<1>6. \A n \in 1..N : TeamKey(Teams[A[n]]) \in Keys
  BY <1>5, KeyKinds
<1> QED
  BY <1>3, <1>4, <1>6, KeyKinds
-----------------------------------------------------------------------------
(* Every change of the rows is growth by the one who makes it.             *)

LEMMA KeptRows ==
    ASSUME RowsInv, UNCHANGED rows, NEW who
    PROVE  Grown(who)
BY DEF Grown, RowsInv, Current, Open, rows, ThreadRows, OfferRows, Actors

LEMMA OpenedRows ==
    ASSUME RowsInv, NEW who \in Actors, NEW from \in Range(Teams), NEW to \in Range(Teams),
           OpenThread(who, from, to)
    PROVE  /\ Grown(who)
           /\ Len(threads') = Len(threads) + 1 /\ DOMAIN threads' = 1..Len(threads')
           /\ \A i \in DOMAIN threads' \ DOMAIN threads :
                 i = Len(threads') /\ threads'[i].opener = from
<1> DEFINE row == [status |-> "PENDING", rounds |-> 1, sides |-> {from, to},
                   opener |-> from, by |-> who]
           offer == [thread |-> Len(threads) + 1, round |-> 1, from |-> from,
                     to |-> to, by |-> who]
           i0 == Len(threads) + 1
           j0 == Len(offers) + 1
<1>1. /\ threads' = Append(threads, row) /\ offers' = Append(offers, offer)
      /\ threads \in Seq(ThreadRows) /\ offers \in Seq(OfferRows)
      /\ Len(threads) \in Nat /\ Len(offers) \in Nat
  BY DEF OpenThread, RowsInv
<1>2. MaxRounds \in Nat \ {0}
  BY TradeReviewAssumption DEF TradeReviewAssumption
<1>3. row \in ThreadRows
  BY <1>2 DEF ThreadRows
<1>4. offer \in OfferRows
  BY <1>1, <1>2 DEF OfferRows
<1>5. /\ offer.thread = i0 /\ offer.round = 1 /\ offer.by = who
      /\ row.rounds = 1 /\ row.by = who /\ row.opener = from
  OBVIOUS
<1> HIDE DEF row, offer
<1>6. /\ threads' \in Seq(ThreadRows) /\ Len(threads') = i0
      /\ \A i \in DOMAIN threads : threads'[i] = threads[i]
      /\ threads'[i0] = row
  BY <1>1, <1>3
<1>7. /\ offers' \in Seq(OfferRows) /\ Len(offers') = j0
      /\ \A j \in DOMAIN offers : offers'[j] = offers[j]
      /\ offers'[j0] = offer
  BY <1>1, <1>4
<1>8. /\ DOMAIN threads = 1..Len(threads) /\ DOMAIN threads' = 1..i0
      /\ DOMAIN offers = 1..Len(offers) /\ DOMAIN offers' = 1..j0
  BY <1>1, <1>6, <1>7
<1>9. /\ DOMAIN threads \subseteq DOMAIN threads' /\ DOMAIN offers \subseteq DOMAIN offers'
      /\ \A i \in DOMAIN threads' \ DOMAIN threads : i = i0
      /\ \A j \in DOMAIN offers' \ DOMAIN offers : j = j0
      /\ i0 \in DOMAIN threads' /\ i0 \notin DOMAIN threads
  BY <1>1, <1>8
<1> HIDE DEF i0, j0
<1>10. \A j \in DOMAIN offers : offers[j].thread \in DOMAIN threads
                                /\ offers[j].round <= threads[offers[j].thread].rounds
  BY DEF RowsInv
<1>11. \A j \in DOMAIN offers' : offers'[j].thread \in DOMAIN threads'
                                 /\ offers'[j].round <= threads'[offers'[j].thread].rounds
  <2> SUFFICES ASSUME NEW j \in DOMAIN offers'
               PROVE  /\ offers'[j].thread \in DOMAIN threads'
                      /\ offers'[j].round <= threads'[offers'[j].thread].rounds
    OBVIOUS
  <2>1. CASE j \in DOMAIN offers
    BY <2>1, <1>6, <1>7, <1>9, <1>10
  <2>2. CASE j = j0
    BY <2>2, <1>5, <1>6, <1>7, <1>9
  <2> QED
    BY <2>1, <2>2, <1>9
<1>12. RowsInv'
  BY <1>6, <1>7, <1>11 DEF RowsInv
<1>13. \A j \in DOMAIN offers : offers'[j] = offers[j] /\ (Current(j)' => Current(j))
  BY <1>6, <1>7, <1>10 DEF Current, Open
<1>14. \A j \in DOMAIN offers' \ DOMAIN offers : NewOffer(who, j)
  BY <1>5, <1>7, <1>9 DEF NewOffer
<1>15. Grown(who)
  BY <1>5, <1>6, <1>9, <1>12, <1>13, <1>14 DEF Grown
<1> QED
  BY <1>5, <1>6, <1>8, <1>9, <1>15 DEF i0

LEMMA CounteredRows ==
    ASSUME RowsInv, NEW who \in Actors, NEW k \in DOMAIN offers, CounterOffer(who, k)
    PROVE  Grown(who) /\ ~Current(k)' /\ DOMAIN threads' = DOMAIN threads
<1> DEFINE i == offers[k].thread
           offer == [thread |-> i, round |-> offers[k].round + 1,
                     from |-> offers[k].to, to |-> offers[k].from, by |-> who]
           row == [threads[i] EXCEPT !.rounds = @ + 1]
           j0 == Len(offers) + 1
<1>1. /\ threads' = [threads EXCEPT ![i] = row] /\ offers' = Append(offers, offer)
      /\ threads \in Seq(ThreadRows) /\ offers \in Seq(OfferRows)
      /\ Current(k) /\ offers[k].round < MaxRounds
  BY DEF CounterOffer, RowsInv
<1>2. /\ i \in DOMAIN threads /\ offers[k].round = threads[i].rounds
      /\ threads[i] \in ThreadRows /\ offers[k] \in OfferRows
  BY <1>1 DEF RowsInv, Current
<1>3. MaxRounds \in Nat /\ offers[k].round \in 1..MaxRounds
  BY <1>2, TradeReviewAssumption DEF TradeReviewAssumption, OfferRows
<1>4. /\ row \in ThreadRows /\ row.rounds = offers[k].round + 1
      /\ row.by = threads[i].by /\ row.opener = threads[i].opener
      /\ row.status = threads[i].status
  <2>1. threads[i].rounds + 1 \in 1..MaxRounds /\ threads[i].rounds = offers[k].round
    BY <1>1, <1>2, <1>3
  <2>2. /\ row \in ThreadRows /\ row.rounds = threads[i].rounds + 1
        /\ row.by = threads[i].by /\ row.opener = threads[i].opener
        /\ row.status = threads[i].status
    <3> DEFINE m == threads[i].rounds + 1
    <3>1. row = [threads[i] EXCEPT !.rounds = m] /\ m \in 1..MaxRounds
      BY <2>1
    <3> HIDE DEF m, row
    <3>2. row \in ThreadRows /\ row.rounds = m
      BY <3>1, <1>2 DEF ThreadRows
    <3>3. row.by = threads[i].by /\ row.opener = threads[i].opener
          /\ row.status = threads[i].status
      BY <3>1, <1>2 DEF ThreadRows
    <3> QED
      BY <3>2, <3>3 DEF m
  <2> QED
    BY <2>1, <2>2
<1>5. offer \in OfferRows
  BY <1>1, <1>2, <1>3 DEF OfferRows, ThreadRows, RowsInv
<1>6. offer.thread = i /\ offer.round = offers[k].round + 1 /\ offer.by = who
  OBVIOUS
<1> HIDE DEF row, offer
<1>7. /\ threads' \in Seq(ThreadRows) /\ DOMAIN threads' = DOMAIN threads
      /\ \A m \in DOMAIN threads : m # i => threads'[m] = threads[m]
      /\ threads'[i] = row
  <2>1. threads' \in Seq(ThreadRows)
    BY <1>1, <1>2, <1>4, ExceptSeq
  <2> QED
    BY <1>1, <1>2, <2>1
<1>8. /\ offers' \in Seq(OfferRows)
      /\ \A j \in DOMAIN offers : offers'[j] = offers[j]
      /\ offers'[j0] = offer
      /\ DOMAIN offers' = 1..j0 /\ DOMAIN offers = 1..Len(offers) /\ Len(offers) \in Nat
  BY <1>1, <1>5
<1>9. DOMAIN offers \subseteq DOMAIN offers' /\ \A j \in DOMAIN offers' \ DOMAIN offers : j = j0
  BY <1>8
<1> HIDE DEF j0
<1>10. \A j \in DOMAIN offers :
          /\ offers[j].thread \in DOMAIN threads /\ offers[j].round \in Nat
          /\ offers[j].round <= threads[offers[j].thread].rounds
  <2>1. \A j \in DOMAIN offers : offers[j] \in OfferRows
    BY <1>1
  <2> QED
    BY <2>1, <1>3 DEF RowsInv, OfferRows
<1>11. \A j \in DOMAIN offers' : offers'[j].thread \in DOMAIN threads'
                                 /\ offers'[j].round <= threads'[offers'[j].thread].rounds
  <2> SUFFICES ASSUME NEW j \in DOMAIN offers'
               PROVE  /\ offers'[j].thread \in DOMAIN threads'
                      /\ offers'[j].round <= threads'[offers'[j].thread].rounds
    OBVIOUS
  <2>1. CASE j \in DOMAIN offers /\ offers[j].thread # i
    BY <2>1, <1>7, <1>8, <1>10
  <2>2. CASE j \in DOMAIN offers /\ offers[j].thread = i
    <3>1. offers'[j].round = offers[j].round /\ offers[j].round <= offers[k].round
      BY <2>2, <1>2, <1>8, <1>10
    <3>2. offers[j].round \in Nat /\ offers[k].round \in Nat
      BY <2>2, <1>10
    <3>3. offers[j].round <= offers[k].round + 1
      BY <3>1, <3>2
    <3> QED
      BY <2>2, <3>1, <3>3, <1>2, <1>4, <1>7, <1>8
  <2>3. CASE j = j0
    BY <2>3, <1>2, <1>3, <1>4, <1>6, <1>7, <1>8
  <2> QED
    BY <2>1, <2>2, <2>3, <1>9
<1>12. RowsInv'
  BY <1>7, <1>8, <1>11 DEF RowsInv
<1>13. ASSUME NEW j \in DOMAIN offers, Current(j)' PROVE Current(j) /\ j # k
  <2>1. CASE offers[j].thread # i
    BY <1>13, <2>1, <1>7, <1>8, <1>10 DEF Current, Open
  <2>2. CASE offers[j].thread = i
    <3>1. offers[j].round = row.rounds
      BY <1>13, <2>2, <1>7, <1>8 DEF Current
    <3>2. offers[j].round <= offers[k].round
      BY <2>2, <1>2, <1>10
    <3> QED
      BY <3>1, <3>2, <1>3, <1>4, <1>10
  <2> QED
    BY <2>1, <2>2, <1>2
<1>14. \A j \in DOMAIN offers' \ DOMAIN offers : NewOffer(who, j)
  BY <1>1, <1>6, <1>8, <1>9 DEF NewOffer
<1>15. Grown(who)
  BY <1>4, <1>7, <1>8, <1>9, <1>12, <1>13, <1>14 DEF Grown
<1> QED
  BY <1>7, <1>13, <1>15

LEMMA SettledRows ==
    ASSUME RowsInv, NEW who, NEW k \in DOMAIN offers, NEW status \in Settled,
           SettleOffer(k, status)
    PROVE  Grown(who) /\ ~Current(k)' /\ DOMAIN threads' = DOMAIN threads
<1> DEFINE i == offers[k].thread
           row == [threads[i] EXCEPT !.status = status]
<1>1. /\ threads' = [threads EXCEPT ![i] = row] /\ offers' = offers
      /\ threads \in Seq(ThreadRows) /\ offers \in Seq(OfferRows)
      /\ i \in DOMAIN threads /\ threads[i] \in ThreadRows
  BY DEF SettleOffer, RowsInv
<1>2. /\ row \in ThreadRows /\ row.rounds = threads[i].rounds
      /\ row.by = threads[i].by /\ row.opener = threads[i].opener
      /\ row.status # "PENDING"
  BY <1>1 DEF ThreadRows, Settled
<1> HIDE DEF row
<1>3. /\ threads' \in Seq(ThreadRows) /\ DOMAIN threads' = DOMAIN threads
      /\ \A m \in DOMAIN threads : m # i => threads'[m] = threads[m]
      /\ threads'[i] = row
  <2>1. threads' \in Seq(ThreadRows)
    BY <1>1, <1>2, ExceptSeq
  <2> QED
    BY <1>1, <2>1
<1>4. RowsInv'
  BY <1>1, <1>2, <1>3 DEF RowsInv
<1>5. \A j \in DOMAIN offers : (Current(j)' => Current(j)) /\ ~Current(k)'
  BY <1>1, <1>2, <1>3 DEF Current, Open, RowsInv
<1> QED
  BY <1>1, <1>2, <1>3, <1>4, <1>5 DEF Grown
-----------------------------------------------------------------------------
(* What another actor's step leaves to a review, and what a review's own   *)
(* step leaves to the others.                                              *)

LEMMA NoneIsNoReview == None \notin Reviews
BY TradeReviewAssumption DEF TradeReviewAssumption

LEMMA RowFacts ==
    ASSUME Types, NEW u \in Reviews
    PROVE  /\ reviews[u] \in ReviewRows
           /\ reviews[u].todo \in Seq(Keys) /\ reviews[u].turn \in 0..MaxRounds
           /\ MaxRounds \in Nat \ {0}
           /\ \A j \in DOMAIN offers : /\ offers[j] \in OfferRows /\ j \in Nat
                                       /\ offers[j].round \in 1..MaxRounds
                                       /\ offers[j].thread \in DOMAIN threads
<1>1. MaxRounds \in Nat \ {0}
  BY TradeReviewAssumption DEF TradeReviewAssumption
<1>2. reviews[u] \in ReviewRows
  BY DEF Types
<1>3. reviews[u].todo \in Seq(Keys) /\ reviews[u].turn \in 0..MaxRounds
  BY <1>2 DEF ReviewRows
<1>4. offers \in Seq(OfferRows) /\ \A j \in DOMAIN offers : offers[j].thread \in DOMAIN threads
  BY DEF Types, RowsInv
<1>5. \A j \in DOMAIN offers : offers[j] \in OfferRows /\ j \in Nat
  BY <1>4
<1>6. \A j \in DOMAIN offers : offers[j].round \in 1..MaxRounds
  BY <1>5 DEF OfferRows
<1> QED
  BY <1>1, <1>2, <1>3, <1>4, <1>5, <1>6

\* As the rows grow, a list that stays keeps its promise to reach every offer in time, even
\* if negotiations begun in turn 0 come under it.
LEMMA TurnKept ==
    ASSUME Types, NEW who, Grown(who), NEW u \in Reviews, ListInv(u), TurnInv(u),
           reviews'[u].todo = reviews[u].todo, reviews'[u].turn = reviews[u].turn,
           reviews'[u].seen = reviews[u].seen, reviews'[u].failed = reviews[u].failed,
           \/ reviews'[u].scope = reviews[u].scope
           \/ /\ reviews[u].turn = 0
              /\ reviews'[u].scope \subseteq
                    reviews[u].scope \cup (DOMAIN threads' \ DOMAIN threads)
    PROVE  TurnInv(u)'
<1> SUFFICES ASSUME NEW j \in DOMAIN offers', Current(j)',
                    offers'[j].thread \in reviews'[u].scope,
                    Unfailed(u, offers[j].thread)'
             PROVE  IF j \in reviews[u].seen
                    THEN Listed(u, j) /\ offers'[j].round >= reviews[u].turn
                    ELSE offers'[j].round > reviews[u].turn
  BY DEF TurnInv, Listed
<1>1. /\ DOMAIN offers \subseteq DOMAIN offers'
      /\ \A k \in DOMAIN offers : offers'[k] = offers[k] /\ (Current(k)' => Current(k))
      /\ \A k \in DOMAIN offers' \ DOMAIN offers : NewOffer(who, k)
  BY DEF Grown
<1>2. /\ reviews[u].seen \subseteq DOMAIN offers /\ reviews[u].scope \subseteq DOMAIN threads
      /\ reviews[u].turn \in Nat
  BY RowFacts DEF ListInv
<1>3. /\ \A k \in DOMAIN offers : /\ offers[k].round \in 1..MaxRounds
                                  /\ offers[k].thread \in DOMAIN threads
      /\ MaxRounds \in Nat
  BY RowFacts
<1>4. \A k \in DOMAIN offers' : offers'[k].round \in 1..MaxRounds
  <2>1. offers' \in Seq(OfferRows)
    BY DEF Grown, RowsInv
  <2>2. \A k \in DOMAIN offers' : offers'[k] \in OfferRows
    BY <2>1
  <2> QED
    BY <2>2 DEF OfferRows
<1>5. \A i : i = offers'[j].thread => Unfailed(u, i)
  BY <1>1 DEF Unfailed
<1>6. CASE j \in DOMAIN offers
  <2>1. offers'[j] = offers[j] /\ Current(j) /\ offers[j].thread \in DOMAIN threads
    BY <1>1, <1>3, <1>6
  <2>2. offers[j].thread \in reviews[u].scope
    BY <2>1
  <2> QED
    BY <2>1, <2>2, <1>5, <1>6 DEF TurnInv
<1>7. CASE j \notin DOMAIN offers
  <2>1. NewOffer(who, j) /\ j \notin reviews[u].seen
    BY <1>1, <1>2, <1>7
  <2>2. CASE offers'[j].thread \notin DOMAIN threads
    BY <2>1, <2>2, <1>2, <1>4
  <2>3. CASE offers'[j].thread \in DOMAIN threads
    <3>1. PICK k \in DOMAIN offers : /\ Current(k) /\ offers'[j].thread = offers[k].thread
                                     /\ offers'[j].round = offers[k].round + 1
      BY <2>1, <2>3 DEF NewOffer
    <3>2. offers[k].thread \in reviews[u].scope
      BY <3>1, <2>3
    <3>3. offers[k].round >= reviews[u].turn
      BY <3>1, <3>2, <1>2, <1>3, <1>5 DEF TurnInv
    <3> QED
      BY <3>1, <3>3, <2>1, <1>2, <1>3
  <2> QED
    BY <2>2, <2>3
<1> QED
  BY <1>6, <1>7

LEMMA ListKept ==
    ASSUME Types, NEW who, Grown(who), NEW u \in Reviews, ListInv(u),
           reviews'[u] = reviews[u]
    PROVE  ListInv(u)'
<1>1. /\ DOMAIN offers \subseteq DOMAIN offers' /\ DOMAIN threads \subseteq DOMAIN threads'
      /\ \A k \in DOMAIN offers : Current(k)' => Current(k)
  BY DEF Grown
<1>2. /\ reviews[u].seen \subseteq DOMAIN offers
      /\ reviews[u].todo \in Seq(Keys)
  BY RowFacts DEF ListInv
<1>3. ASSUME reviews[u].pc = "answered", reviews[u].result = "DONE", Key(u)[1] = "offer"
      PROVE  ~Current(Key(u)[2])'
  <2>1. reviews[u].todo # <<>> /\ ~Current(Key(u)[2])
    BY <1>3 DEF ListInv
  <2>2. 1 \in DOMAIN reviews[u].todo /\ Key(u) = reviews[u].todo[1]
    BY <1>2, <2>1 DEF Key
  <2>3. Key(u)[2] \in DOMAIN offers
    BY <1>2, <1>3, <2>2 DEF ListInv
  <2>4. Key(u)' = Key(u)
    BY DEF Key
  <2> QED
    BY <1>1, <2>1, <2>3, <2>4
<1>4. Key(u)' = Key(u)
  BY DEF Key
<1>5. /\ reviews'[u].seen \subseteq DOMAIN offers' /\ reviews'[u].scope \subseteq DOMAIN threads'
  BY <1>1 DEF ListInv
<1>6. reviews'[u].pc = "answered" /\ reviews'[u].result = "DONE" /\ Key(u)'[1] = "offer"
      => ~Current(Key(u)[2])'
  BY <1>3, <1>4
<1> QED
  BY <1>4, <1>5, <1>6 DEF ListInv

\* A review that does not act stays what it is.
LEMMA OthersKept ==
    ASSUME Types, NEW who, Grown(who), NEW u \in Reviews, u # who,
           ListInv(u), TurnInv(u), SettledInv(u), reviews'[u] = reviews[u]
    PROVE  ListInv(u)' /\ TurnInv(u)' /\ SettledInv(u)'
<1>1. ListInv(u)'
  BY ListKept
<1>2. TurnInv(u)'
  BY TurnKept
<1>3. SettledInv(u)'
  <2> SUFFICES ASSUME reviews[u].pc = "done", NEW j \in DOMAIN offers', Unanswered(u, j)'
               PROVE  FALSE
    BY DEF SettledInv
  <2>1. /\ DOMAIN offers \subseteq DOMAIN offers'
        /\ \A k \in DOMAIN offers : offers'[k] = offers[k] /\ (Current(k)' => Current(k))
        /\ \A k \in DOMAIN offers' \ DOMAIN offers : NewOffer(who, k)
    BY DEF Grown
  <2>2. offers'[j].by = u
    BY DEF Unanswered
  <2>3. j \in DOMAIN offers
    BY <2>1, <2>2 DEF NewOffer
  <2>4. Unanswered(u, j)
    BY <2>1, <2>3 DEF Unanswered
  <2> QED
    BY <2>3, <2>4 DEF SettledInv
<1> QED
  BY <1>1, <1>2, <1>3

\* A step of review r keeps the invariant if it keeps r's part.
LEMMA ReviewMoves ==
    ASSUME ReviewInv, NEW r \in Reviews, Grown(r),
           \A u \in Reviews \ {r} : reviews'[u] = reviews[u],
           ListInv(r)', TurnInv(r)', SettledInv(r)'
    PROVE  \A u \in Reviews : ListInv(u)' /\ TurnInv(u)' /\ SettledInv(u)'
BY OthersKept DEF ReviewInv

\* The checkpoints of a step that leaves the job alone.
LEMMA CheckpointsKept ==
    ASSUME Types, DoneAreSettled, NEW who, Grown(who), UNCHANGED job
    PROVE  DoneAreSettled'
BY DEF DoneAreSettled, Grown

\* The first key of a list.
LEMMA FirstKey ==
    ASSUME Types, NEW r \in Reviews, ListInv(r), reviews[r].todo # <<>>
    PROVE  /\ 1 \in DOMAIN reviews[r].todo /\ Key(r) = reviews[r].todo[1] /\ Key(r) \in Keys
           /\ Key(r)[1] = "team" => reviews[r].turn = 0 /\ Key(r)[2] \in Range(Teams)
           /\ Key(r)[1] = "offer" => /\ Key(r)[2] \in reviews[r].seen
                                     /\ Key(r)[2] \in DOMAIN offers
                                     /\ Key(r) = OfferKey(Key(r)[2])
                                     /\ Key(r) \notin reviews[r].heard
           /\ Key(r)[1] \in {"offer", "team"}
<1>1. reviews[r].todo \in Seq(Keys)
  BY RowFacts
<1>2. 1 \in DOMAIN reviews[r].todo /\ Key(r) = reviews[r].todo[1] /\ Key(r) \in Keys
  BY <1>1 DEF Key
<1>3. Key(r)[1] = "team" => reviews[r].turn = 0
  BY <1>2 DEF ListInv
<1>4. Key(r)[1] = "offer" => /\ Key(r)[2] \in reviews[r].seen /\ Key(r) \notin reviews[r].heard
                             /\ Key(r)[2] \in DOMAIN offers
  BY <1>2 DEF ListInv
<1> QED
  BY <1>2, <1>3, <1>4, KeyKinds
-----------------------------------------------------------------------------
(* The steps of a review.                                                  *)

\* A step of review r keeps the invariant if the new row is one and r's part holds of it.
LEMMA StepKeeps ==
    ASSUME ReviewInv, NEW r \in Reviews, Grown(r),
           reviews'[r] \in ReviewRows,
           reviews' = [reviews EXCEPT ![r] = reviews'[r]],
           loop \in {None, r}, loop' \in {None, r},
           reviews'[r].pc \notin {"asleep", "asking"} => loop' = r,
           noted' \in SUBSET Range(Teams),
           DOMAIN job' = {"status", "attempts", "results"},
           DOMAIN job'.results \subseteq Keys, job'.results \in [DOMAIN job'.results -> Outcomes],
           DoneAreSettled',
           ListInv(r)', TurnInv(r)', SettledInv(r)'
    PROVE  ReviewInv'
<1>1. Types /\ LoopHeld
  BY DEF ReviewInv
<1>2. \A u \in Reviews \ {r} : reviews'[u] = reviews[u]
  BY <1>1 DEF Types
<1>3. reviews' \in [Reviews -> ReviewRows]
  BY <1>1 DEF Types
<1>4. \A u \in Reviews : ListInv(u)' /\ TurnInv(u)' /\ SettledInv(u)'
  BY <1>2, ReviewMoves
<1>5. RowsInv' /\ loop' \in Actors
  BY DEF Grown, Actors
<1>6. Types'
  BY <1>3, <1>5 DEF Types
<1>7. LoopHeld'
  <2> SUFFICES ASSUME NEW u \in Reviews, reviews'[u].pc \notin {"asleep", "asking"}
               PROVE  loop' = u
    BY DEF LoopHeld
  <2>1. CASE u = r
    BY <2>1
  <2>2. CASE u # r
    BY <2>2, <1>1, <1>2, NoneIsNoReview DEF LoopHeld
  <2> QED
    BY <2>1, <2>2
<1> QED
  BY <1>4, <1>6, <1>7 DEF ReviewInv

\* A step that leaves the rows and the job alone has less to show.
LEMMA QuietStepKeeps ==
    ASSUME ReviewInv, NEW r \in Reviews, UNCHANGED <<rows, noted, job>>,
           reviews'[r] \in ReviewRows,
           reviews' = [reviews EXCEPT ![r] = reviews'[r]],
           loop \in {None, r}, loop' \in {None, r},
           reviews'[r].pc \notin {"asleep", "asking"} => loop' = r,
           ListInv(r)', TurnInv(r)', SettledInv(r)'
    PROVE  ReviewInv'
<1>1. Types /\ DoneAreSettled /\ RowsInv
  BY DEF ReviewInv, Types
<1>2. Grown(r)
  BY <1>1, KeptRows
<1>3. DoneAreSettled'
  BY <1>1, <1>2, CheckpointsKept
<1> QED
  BY <1>1, <1>2, <1>3, StepKeeps DEF Types

LEMMA SameCurrent ==
    ASSUME UNCHANGED rows
    PROVE  \A j : /\ (Current(j) <=> Current(j)')
                  /\ offers'[j] = offers[j]
BY DEF rows, Current, Open

\* Waiting for an answer, and having passed over a team or got no answer.
LEMMA AskKeeps ==
    ASSUME ReviewInv, NEW r \in Reviews, Ask(r)
    PROVE  ReviewInv'
<1>1. /\ Types /\ ListInv(r) /\ TurnInv(r) /\ RowsInv
      /\ reviews[r] \in ReviewRows /\ reviews \in [Reviews -> ReviewRows]
  BY DEF ReviewInv, Types
<1>2. /\ reviews' = [reviews EXCEPT ![r].pc = "asking", ![r].again = FALSE]
      /\ loop \in {None, r} /\ loop' = None /\ UNCHANGED <<rows, noted, job>>
      /\ reviews[r].pc = "next" /\ reviews[r].todo # <<>>
  BY DEF Ask, HasLoop
<1>3. /\ reviews'[r] = [reviews[r] EXCEPT !.pc = "asking", !.again = FALSE]
      /\ reviews' = [reviews EXCEPT ![r] = reviews'[r]]
  BY <1>1, <1>2
<1>4. /\ reviews'[r] \in ReviewRows /\ reviews'[r].pc = "asking"
      /\ reviews'[r].todo = reviews[r].todo /\ reviews'[r].turn = reviews[r].turn
      /\ reviews'[r].seen = reviews[r].seen /\ reviews'[r].failed = reviews[r].failed
      /\ reviews'[r].heard = reviews[r].heard /\ reviews'[r].scope = reviews[r].scope
  BY <1>1, <1>3 DEF ReviewRows
<1>5. Grown(r)
  BY <1>1, <1>2, KeptRows
<1>6. TurnInv(r)'
  BY <1>1, <1>4, <1>5, TurnKept
<1>7. ListInv(r)'
  BY <1>1, <1>2, <1>4 DEF ListInv, Key, rows
<1>8. SettledInv(r)'
  BY <1>4 DEF SettledInv
<1> QED
  BY <1>2, <1>3, <1>4, <1>6, <1>7, <1>8, QuietStepKeeps

LEMMA AnsweredKeeps ==
    ASSUME ReviewInv, NEW r \in Reviews, UNCHANGED <<rows, noted, job>>,
           NEW result \in Outcomes, reviews' = Answered(r, result),
           result = "DONE" => Key(r)[1] = "team",
           reviews[r].todo # <<>>, loop \in {None, r}, loop' = r
    PROVE  ReviewInv'
<1>1. /\ Types /\ ListInv(r) /\ TurnInv(r) /\ RowsInv
      /\ reviews[r] \in ReviewRows /\ reviews \in [Reviews -> ReviewRows]
  BY DEF ReviewInv, Types
<1>2. /\ reviews'[r] = [reviews[r] EXCEPT !.pc = "answered", !.result = result]
      /\ reviews' = [reviews EXCEPT ![r] = reviews'[r]]
  BY <1>1 DEF Answered
<1>3. /\ reviews'[r] \in ReviewRows /\ reviews'[r].pc = "answered"
      /\ reviews'[r].result = result
      /\ reviews'[r].todo = reviews[r].todo /\ reviews'[r].turn = reviews[r].turn
      /\ reviews'[r].seen = reviews[r].seen /\ reviews'[r].failed = reviews[r].failed
      /\ reviews'[r].heard = reviews[r].heard /\ reviews'[r].scope = reviews[r].scope
  BY <1>1, <1>2 DEF ReviewRows
<1>4. Grown(r)
  BY <1>1, KeptRows
<1>5. TurnInv(r)'
  BY <1>1, <1>3, <1>4, TurnKept
<1>6. ListInv(r)'
  <2>1. Key(r)' = Key(r) /\ Key(r)[1] \in {"offer", "team"}
    BY <1>1, <1>3, FirstKey DEF Key
  <2>2. ~(result = "DONE" /\ Key(r)[1] = "offer")
    OBVIOUS
  <2> QED
    BY <1>1, <1>3, <2>1, <2>2 DEF ListInv, rows
<1>7. SettledInv(r)'
  BY <1>3 DEF SettledInv
<1> QED
  BY <1>2, <1>3, <1>5, <1>6, <1>7, QuietStepKeeps

LEMMA PassOverKeeps ==
    ASSUME ReviewInv, NEW r \in Reviews, PassOver(r)
    PROVE  ReviewInv'
<1>1. reviews \in [Reviews -> ReviewRows] /\ "DONE" \in Outcomes
  BY DEF ReviewInv, Types, Outcomes
<1>2. reviews' = Answered(r, "DONE") /\ Key(r)[1] = "team" /\ reviews[r].todo # <<>>
      /\ loop \in {None, r} /\ loop' = r /\ UNCHANGED <<rows, noted, job>>
  BY DEF PassOver, Answered, HasLoop
<1> QED
  BY <1>1, <1>2, AnsweredKeeps

LEMMA FailToAnswerKeeps ==
    ASSUME ReviewInv, NEW r \in Reviews, FailToAnswer(r)
    PROVE  ReviewInv'
<1>1. ListInv(r) /\ "FAILED" \in Outcomes
  BY DEF ReviewInv, Outcomes
<1>2. /\ reviews' = Answered(r, "FAILED") /\ reviews[r].pc = "asking"
      /\ loop = None /\ loop' = r /\ UNCHANGED <<rows, noted, job>>
  BY DEF FailToAnswer
<1>3. reviews[r].todo # <<>>
  BY <1>1, <1>2 DEF ListInv
<1> QED
  BY <1>1, <1>2, <1>3, AnsweredKeeps

LEMMA AskAgainKeeps ==
    ASSUME ReviewInv, NEW r \in Reviews, AskAgain(r)
    PROVE  ReviewInv'
<1>1. /\ Types /\ ListInv(r) /\ TurnInv(r) /\ RowsInv
      /\ reviews[r] \in ReviewRows /\ reviews \in [Reviews -> ReviewRows]
  BY DEF ReviewInv, Types
<1>2. /\ reviews' = [reviews EXCEPT ![r].again = TRUE]
      /\ loop = None /\ loop' = None /\ UNCHANGED <<rows, noted, job>>
      /\ reviews[r].pc = "asking"
  BY DEF AskAgain
<1>3. /\ reviews'[r] = [reviews[r] EXCEPT !.again = TRUE]
      /\ reviews' = [reviews EXCEPT ![r] = reviews'[r]]
  BY <1>1, <1>2
<1>4. /\ reviews'[r] \in ReviewRows /\ reviews'[r].pc = "asking"
      /\ reviews'[r].todo = reviews[r].todo /\ reviews'[r].turn = reviews[r].turn
      /\ reviews'[r].seen = reviews[r].seen /\ reviews'[r].failed = reviews[r].failed
      /\ reviews'[r].heard = reviews[r].heard /\ reviews'[r].scope = reviews[r].scope
  BY <1>1, <1>2, <1>3 DEF ReviewRows
<1>5. Grown(r)
  BY <1>1, <1>2, KeptRows
<1>6. TurnInv(r)'
  BY <1>1, <1>4, <1>5, TurnKept
<1>7. ListInv(r)'
  BY <1>1, <1>2, <1>4 DEF ListInv, Key, rows
<1>8. SettledInv(r)'
  BY <1>4 DEF SettledInv
<1> QED
  BY <1>2, <1>3, <1>4, <1>6, <1>7, <1>8, QuietStepKeeps

LEMMA StampKeeps ==
    ASSUME ReviewInv, NEW r \in Reviews, Stamp(r)
    PROVE  ReviewInv'
<1>1. /\ Types /\ ListInv(r) /\ TurnInv(r) /\ RowsInv /\ LoopHeld
      /\ reviews[r] \in ReviewRows /\ reviews \in [Reviews -> ReviewRows]
  BY DEF ReviewInv, Types
<1>2. /\ reviews' = [reviews EXCEPT ![r].pc = "answered"]
      /\ loop' = loop /\ UNCHANGED <<rows, noted, job>>
      /\ reviews[r].pc = "reviewed"
  BY DEF Stamp
<1>3. loop = r
  BY <1>1, <1>2 DEF LoopHeld
<1>4. /\ reviews'[r] = [reviews[r] EXCEPT !.pc = "answered"]
      /\ reviews' = [reviews EXCEPT ![r] = reviews'[r]]
  BY <1>1, <1>2
<1>5. /\ reviews'[r] \in ReviewRows /\ reviews'[r].pc = "answered"
      /\ reviews'[r].result = reviews[r].result
      /\ reviews'[r].todo = reviews[r].todo /\ reviews'[r].turn = reviews[r].turn
      /\ reviews'[r].seen = reviews[r].seen /\ reviews'[r].failed = reviews[r].failed
      /\ reviews'[r].heard = reviews[r].heard /\ reviews'[r].scope = reviews[r].scope
  BY <1>1, <1>4 DEF ReviewRows
<1>6. Grown(r)
  BY <1>1, <1>2, KeptRows
<1>7. TurnInv(r)'
  BY <1>1, <1>5, <1>6, TurnKept
<1>8. ListInv(r)'
  <2>1. Key(r)' = Key(r) /\ Key(r)[1] = "team" /\ reviews[r].result \in Outcomes
    BY <1>1, <1>2, <1>5 DEF Key, ListInv
  <2> QED
    BY <1>1, <1>2, <1>5, <2>1 DEF ListInv, rows
<1>9. SettledInv(r)'
  BY <1>5 DEF SettledInv
<1> QED
  BY <1>2, <1>3, <1>4, <1>5, <1>7, <1>8, <1>9, QuietStepKeeps

\* An answer that is carried out leaves its offer behind.
LEMMA RespondKeeps ==
    ASSUME ReviewInv, NEW r \in Reviews, Answer(r), Respond(r)
    PROVE  ReviewInv'
<1>1. /\ Types /\ ListInv(r) /\ TurnInv(r) /\ RowsInv /\ DoneAreSettled
      /\ reviews[r] \in ReviewRows /\ reviews \in [Reviews -> ReviewRows]
  BY DEF ReviewInv, Types
<1>2. /\ loop = None /\ loop' = r /\ reviews[r].pc = "asking" /\ UNCHANGED <<noted, job>>
      /\ reviews' = Answered(r, "DONE") /\ Key(r)[1] = "offer"
  BY DEF Answer, Respond
<1>3. reviews[r].todo # <<>>
  BY <1>1, <1>2 DEF ListInv
<1>4. PICK j \in DOMAIN offers : j = Key(r)[2]
  BY <1>1, <1>2, <1>3, FirstKey
<1>5. Grown(r) /\ ~Current(j)'
  <2>1. CounterOffer(r, j) \/ SettleOffer(j, "PROCESSED") \/ SettleOffer(j, "REJECTED")
    BY <1>4 DEF Respond
  <2>2. r \in Actors /\ "PROCESSED" \in Settled /\ "REJECTED" \in Settled
    BY DEF Actors, Settled
  <2> QED
    BY <1>1, <1>4, <2>1, <2>2, CounteredRows, SettledRows
<1>6. /\ reviews'[r] = [reviews[r] EXCEPT !.pc = "answered", !.result = "DONE"]
      /\ reviews' = [reviews EXCEPT ![r] = reviews'[r]]
  BY <1>1, <1>2 DEF Answered
<1>7. /\ reviews'[r] \in ReviewRows /\ reviews'[r].pc = "answered"
      /\ reviews'[r].result = "DONE" /\ "DONE" \in Outcomes
      /\ reviews'[r].todo = reviews[r].todo /\ reviews'[r].turn = reviews[r].turn
      /\ reviews'[r].seen = reviews[r].seen /\ reviews'[r].failed = reviews[r].failed
      /\ reviews'[r].heard = reviews[r].heard /\ reviews'[r].scope = reviews[r].scope
  BY <1>1, <1>6 DEF ReviewRows, Outcomes
<1>8. TurnInv(r)'
  BY <1>1, <1>5, <1>7, TurnKept
<1>9. ListInv(r)'
  <2>1. Key(r)' = Key(r)
    BY <1>7 DEF Key
  <2>2. DOMAIN offers \subseteq DOMAIN offers' /\ DOMAIN threads \subseteq DOMAIN threads'
    BY <1>5 DEF Grown
  <2>3. ~Current(Key(r)[2])'
    BY <1>4, <1>5, <2>1
  <2> QED
    BY <1>1, <1>3, <1>7, <2>1, <2>2, <2>3 DEF ListInv
<1>10. SettledInv(r)'
  BY <1>7 DEF SettledInv
<1>11. DoneAreSettled'
  BY <1>1, <1>2, <1>5, CheckpointsKept
<1> QED
  BY <1>1, <1>2, <1>5, <1>6, <1>7, <1>8, <1>9, <1>10, <1>11, StepKeeps DEF Types

\* A proposal puts its negotiation under the list while the turn is still 0.
LEMMA ConsiderKeeps ==
    ASSUME ReviewInv, NEW r \in Reviews, Answer(r), Consider(r)
    PROVE  ReviewInv'
<1>1. /\ Types /\ ListInv(r) /\ TurnInv(r) /\ RowsInv /\ DoneAreSettled
      /\ reviews[r] \in ReviewRows /\ reviews \in [Reviews -> ReviewRows]
  BY DEF ReviewInv, Types
<1>2. /\ loop = None /\ loop' = r /\ reviews[r].pc = "asking" /\ UNCHANGED job
      /\ Key(r)[1] = "team" /\ noted' = noted \cup {Key(r)[2]}
  BY DEF Answer, Consider
<1>3. reviews[r].todo # <<>>
  BY <1>1, <1>2 DEF ListInv
<1>4. Key(r)[2] \in Range(Teams) /\ reviews[r].turn = 0
  BY <1>1, <1>2, <1>3, FirstKey
<1>5. PICK scope :
         /\ reviews' = [reviews EXCEPT ![r].pc = "reviewed", ![r].result = "DONE",
                                       ![r].scope = scope]
         /\ Grown(r) /\ DOMAIN threads' \subseteq Nat
         /\ \/ scope = reviews[r].scope
            \/ scope = reviews[r].scope \cup {Len(threads')}
               /\ Len(threads') \in DOMAIN threads' \ DOMAIN threads
  <2> DEFINE t == Key(r)[2]
  <2>1. CASE UNCHANGED rows /\ reviews' = [Answered(r, "DONE") EXCEPT ![r].pc = "reviewed"]
    <3>1. Grown(r)
      BY <1>1, <2>1, KeptRows
    <3>2. reviews' = [reviews EXCEPT ![r].pc = "reviewed", ![r].result = "DONE",
                                     ![r].scope = reviews[r].scope]
      <4>1. reviews' = [reviews EXCEPT ![r] = reviews'[r]]
        BY <1>1, <2>1 DEF Answered
      <4>2. reviews'[r] = [reviews[r] EXCEPT !.pc = "reviewed", !.result = "DONE",
                                             !.scope = reviews[r].scope]
        BY <1>1, <2>1 DEF Answered, ReviewRows
      <4> QED
        BY <1>1, <4>1, <4>2
    <3>3. DOMAIN threads' \subseteq Nat
      BY <3>1 DEF Grown, RowsInv
    <3> QED
      BY <3>1, <3>2, <3>3
  <2>2. CASE /\ \E to \in Range(Teams) \ {t} : OpenThread(r, t, to)
             /\ reviews' = [Answered(r, "DONE") EXCEPT ![r].pc = "reviewed",
                                                       ![r].scope = @ \cup {Len(threads')}]
    <3>1. r \in Actors
      BY DEF Actors
    <3>2. /\ Grown(r) /\ Len(threads') = Len(threads) + 1
          /\ DOMAIN threads' = 1..Len(threads')
      <4>1. PICK to \in Range(Teams) : OpenThread(r, t, to)
        BY <2>2
      <4>2. t \in Range(Teams)
        BY <1>4
      <4> HIDE DEF t
      <4> QED
        BY <1>1, <3>1, <4>1, <4>2, OpenedRows
    <3>3. Len(threads) \in Nat /\ DOMAIN threads = 1..Len(threads)
      BY <1>1 DEF RowsInv
    <3>4. Len(threads') \in DOMAIN threads' \ DOMAIN threads /\ DOMAIN threads' \subseteq Nat
      BY <3>2, <3>3
    <3>5. reviews' = [reviews EXCEPT ![r].pc = "reviewed", ![r].result = "DONE",
                                     ![r].scope = reviews[r].scope \cup {Len(threads')}]
      BY <1>1, <2>2 DEF Answered, ReviewRows
    <3> QED
      BY <3>2, <3>4, <3>5
  <2> QED
    BY <2>1, <2>2 DEF Consider
<1>6. /\ reviews'[r] = [reviews[r] EXCEPT !.pc = "reviewed", !.result = "DONE",
                                          !.scope = scope]
      /\ reviews' = [reviews EXCEPT ![r] = reviews'[r]]
  BY <1>1, <1>5
<1>7. /\ DOMAIN offers \subseteq DOMAIN offers' /\ DOMAIN threads \subseteq DOMAIN threads'
  BY <1>5 DEF Grown
<1>8. scope \subseteq DOMAIN threads' /\ scope \in SUBSET Nat
  BY <1>1, <1>5, <1>7 DEF ListInv
<1>9. /\ reviews'[r] \in ReviewRows /\ reviews'[r].pc = "reviewed"
      /\ reviews'[r].result = "DONE" /\ "DONE" \in Outcomes
      /\ reviews'[r].todo = reviews[r].todo /\ reviews'[r].turn = reviews[r].turn
      /\ reviews'[r].seen = reviews[r].seen /\ reviews'[r].failed = reviews[r].failed
      /\ reviews'[r].heard = reviews[r].heard /\ reviews'[r].scope = scope
  BY <1>1, <1>6, <1>8 DEF ReviewRows, Outcomes
<1>10. TurnInv(r)'
  <2>1. \/ reviews'[r].scope = reviews[r].scope
        \/ /\ reviews[r].turn = 0
           /\ reviews'[r].scope \subseteq
                 reviews[r].scope \cup (DOMAIN threads' \ DOMAIN threads)
    BY <1>4, <1>5, <1>9
  <2> QED
    BY <1>1, <1>5, <1>9, <2>1, TurnKept
<1>11. ListInv(r)'
  <2>1. Key(r)' = Key(r)
    BY <1>9 DEF Key
  <2> QED
    BY <1>1, <1>2, <1>3, <1>7, <1>8, <1>9, <2>1 DEF ListInv
<1>12. SettledInv(r)'
  BY <1>9 DEF SettledInv
<1>13. DoneAreSettled'
  BY <1>1, <1>2, <1>5, CheckpointsKept
<1>14. noted' \in SUBSET Range(Teams)
  BY <1>1, <1>2, <1>4 DEF Types
<1> QED
  BY <1>1, <1>2, <1>5, <1>6, <1>9, <1>10, <1>11, <1>12, <1>13, <1>14, StepKeeps DEF Types

\* A recorded offer is either dealt with or failed, and no other key of the list is it.
LEMMA RecordKeeps ==
    ASSUME ReviewInv, NEW r \in Reviews, Record(r)
    PROVE  ReviewInv'
<1>1. /\ Types /\ ListInv(r) /\ TurnInv(r) /\ RowsInv /\ DoneAreSettled /\ LoopHeld
      /\ reviews[r] \in ReviewRows /\ reviews \in [Reviews -> ReviewRows]
  BY DEF ReviewInv, Types
<1> DEFINE key == Key(r)
           result == reviews[r].result
           todo == reviews[r].todo
           heard == IF key[1] = "offer" THEN reviews[r].heard \cup {key}
                                        ELSE reviews[r].heard
           failed == IF key[1] = "offer" /\ result = "FAILED"
                     THEN reviews[r].failed \cup {key} ELSE reviews[r].failed
<1>2. /\ reviews[r].pc = "answered" /\ loop' = loop /\ UNCHANGED <<rows, noted>>
      /\ job' = IF r = "job"
                THEN [job EXCEPT !.results = [k \in DOMAIN job.results \cup {key} |->
                                                 IF k = key THEN result ELSE job.results[k]]]
                ELSE job
      /\ reviews' = [reviews EXCEPT ![r].pc = "next", ![r].todo = Tail(todo),
                                    ![r].heard = heard, ![r].failed = failed]
  BY <1>1 DEF Record, Types
<1>3. loop = r
  BY <1>1, <1>2 DEF LoopHeld
<1>4. result \in Outcomes /\ todo # <<>> /\ todo \in Seq(Keys)
  BY <1>1, <1>2, RowFacts DEF ListInv
<1>5. /\ 1 \in DOMAIN todo /\ key = todo[1] /\ key \in Keys
      /\ key[1] = "offer" => /\ key[2] \in reviews[r].seen /\ key[2] \in DOMAIN offers
                             /\ key = OfferKey(key[2])
  BY <1>1, <1>4, FirstKey
<1>6. key[1] = "offer" /\ result = "DONE" => ~Current(key[2])
  BY <1>1, <1>2 DEF ListInv
<1>7. /\ Tail(todo) \in Seq(Keys)
      /\ \A n \in DOMAIN Tail(todo) : n + 1 \in DOMAIN todo /\ Tail(todo)[n] = todo[n + 1]
                                      /\ n \in Nat /\ n + 1 # 1
      /\ \A n \in DOMAIN todo : n # 1 => n - 1 \in DOMAIN Tail(todo)
                                         /\ Tail(todo)[n - 1] = todo[n]
  <2> HIDE DEF todo
  <2>1. /\ Tail(todo) \in Seq(Keys) /\ Len(Tail(todo)) = Len(todo) - 1
        /\ Len(todo) \in Nat /\ DOMAIN todo = 1..Len(todo)
        /\ DOMAIN Tail(todo) = 1..Len(todo) - 1
    BY <1>4
  <2>2. \A n \in 1..Len(todo) - 1 : Tail(todo)[n] = todo[n + 1]
    BY <1>4
  <2>3. \A n \in 1..Len(todo) - 1 : n + 1 \in 1..Len(todo) /\ n \in Nat /\ n + 1 # 1
    BY <2>1
  <2>4. \A n \in 1..Len(todo) : n # 1 => n - 1 \in 1..Len(todo) - 1 /\ n - 1 + 1 = n
    BY <2>1
  <2> QED
    BY <2>1, <2>2, <2>3, <2>4
<1> HIDE DEF key, result, todo, heard, failed
<1>8. /\ reviews'[r] = [reviews[r] EXCEPT !.pc = "next", !.todo = Tail(todo),
                                          !.heard = heard, !.failed = failed]
      /\ reviews' = [reviews EXCEPT ![r] = reviews'[r]]
  BY <1>1, <1>2
<1>9. /\ heard \in SUBSET Keys /\ failed \in SUBSET Keys
      /\ reviews[r].heard \subseteq heard /\ reviews[r].failed \subseteq failed
  BY <1>1, <1>5 DEF heard, failed, ReviewRows
<1>10. /\ reviews'[r] \in ReviewRows /\ reviews'[r].pc = "next"
       /\ reviews'[r].todo = Tail(todo) /\ reviews'[r].turn = reviews[r].turn
       /\ reviews'[r].seen = reviews[r].seen /\ reviews'[r].failed = failed
       /\ reviews'[r].heard = heard /\ reviews'[r].scope = reviews[r].scope
  BY <1>1, <1>7, <1>8, <1>9 DEF ReviewRows
<1>11. Grown(r)
  BY <1>1, <1>2, KeptRows
<1>12. DOMAIN offers' = DOMAIN offers /\ DOMAIN threads' = DOMAIN threads
       /\ \A j : (Current(j) <=> Current(j)') /\ offers'[j] = offers[j]
  BY <1>2, SameCurrent DEF rows
<1>13. TurnInv(r)'
  <2> SUFFICES ASSUME NEW j \in DOMAIN offers, Current(j),
                      offers[j].thread \in reviews[r].scope,
                      \A k \in DOMAIN offers :
                         offers[k].thread = offers[j].thread => OfferKey(k) \notin failed
               PROVE  IF j \in reviews[r].seen
                      THEN /\ \E n \in DOMAIN Tail(todo) : Tail(todo)[n] = OfferKey(j)
                           /\ offers[j].round >= reviews[r].turn
                      ELSE offers[j].round > reviews[r].turn
    BY <1>10, <1>12 DEF TurnInv, Listed, Unfailed
  <2>1. Unfailed(r, offers[j].thread)
    BY <1>9 DEF Unfailed
  <2>2. IF j \in reviews[r].seen THEN Listed(r, j) /\ offers[j].round >= reviews[r].turn
                                 ELSE offers[j].round > reviews[r].turn
    BY <1>1, <2>1 DEF TurnInv
  <2>3. CASE j \in reviews[r].seen
    <3>1. PICK n \in DOMAIN todo : todo[n] = OfferKey(j)
      BY <2>2, <2>3 DEF Listed, todo
    <3>2. n # 1
      <4> SUFFICES ASSUME n = 1 PROVE FALSE
        OBVIOUS
      <4>1. key = OfferKey(j) /\ key[1] = "offer" /\ key[2] = j
        BY <1>5, <3>1, KeyKinds
      <4>2. result # "DONE"
        BY <1>6, <4>1
      <4>3. result = "FAILED"
        BY <1>4, <4>2 DEF Outcomes
      <4>4. OfferKey(j) \in failed
        BY <4>1, <4>3 DEF failed
      <4> QED
        BY <4>4
    <3> QED
      BY <1>7, <2>2, <2>3, <3>1, <3>2
  <2> QED
    BY <2>2, <2>3
<1>14. ListInv(r)'
  <2>1. \A k \in heard : k[1] = "offer" /\ k[2] \in reviews[r].seen
    BY <1>1, <1>5 DEF heard, ListInv
  <2>2. failed \subseteq heard
    BY <1>1 DEF heard, failed, ListInv
  <2>3. ASSUME NEW n \in DOMAIN Tail(todo)
        PROVE  /\ Tail(todo)[n][1] = "team" => reviews[r].turn = 0
               /\ Tail(todo)[n][1] = "offer" =>
                     /\ Tail(todo)[n][2] \in reviews[r].seen /\ Tail(todo)[n] \notin heard
                     /\ \A m \in DOMAIN Tail(todo) : m # n => Tail(todo)[m] # Tail(todo)[n]
    <3>1. n + 1 \in DOMAIN todo /\ Tail(todo)[n] = todo[n + 1] /\ n + 1 # 1
      BY <1>7
    <3>2. /\ todo[n + 1][1] = "team" => reviews[r].turn = 0
          /\ todo[n + 1][1] = "offer" =>
                /\ todo[n + 1][2] \in reviews[r].seen /\ todo[n + 1] \notin reviews[r].heard
                /\ \A m \in DOMAIN todo : m # n + 1 => todo[m] # todo[n + 1]
      BY <1>1, <3>1 DEF ListInv, todo
    <3>3. todo[n + 1][1] = "offer" => todo[n + 1] # key
      BY <1>5, <3>1, <3>2
    <3>4. todo[n + 1][1] = "offer" => todo[n + 1] \notin heard
      BY <3>2, <3>3 DEF heard
    <3>5. ASSUME todo[n + 1][1] = "offer", NEW m \in DOMAIN Tail(todo), m # n
          PROVE  Tail(todo)[m] # Tail(todo)[n]
      <4>1. m + 1 \in DOMAIN todo /\ Tail(todo)[m] = todo[m + 1] /\ m + 1 # n + 1
        BY <1>7, <3>5
      <4> QED
        BY <3>1, <3>2, <3>5, <4>1
    <3> QED
      BY <3>1, <3>2, <3>4, <3>5
  <2> QED
    BY <1>1, <1>10, <1>12, <2>1, <2>2, <2>3 DEF ListInv
<1>15. SettledInv(r)'
  BY <1>10 DEF SettledInv
<1>16. /\ DOMAIN job' = {"status", "attempts", "results"}
       /\ DOMAIN job'.results \subseteq Keys /\ job'.results \in [DOMAIN job'.results -> Outcomes]
       /\ DoneAreSettled'
  <2>1. CASE r # "job"
    <3>1. UNCHANGED job
      BY <1>2, <2>1
    <3>2. DoneAreSettled'
      BY <1>1, <1>11, <3>1, CheckpointsKept
    <3> QED
      BY <1>1, <3>1, <3>2 DEF Types
  <2>2. CASE r = "job"
    <3> DEFINE results == [k \in DOMAIN job.results \cup {key} |->
                              IF k = key THEN result ELSE job.results[k]]
    <3>1. job' = [job EXCEPT !.results = results]
      BY <1>2, <2>2
    <3>2. /\ DOMAIN results = DOMAIN job.results \cup {key} /\ DOMAIN results \subseteq Keys
          /\ \A k \in DOMAIN results : /\ k = key => results[k] = result
                                       /\ k # key => results[k] = job.results[k]
                                                     /\ k \in DOMAIN job.results
          /\ results \in [DOMAIN results -> Outcomes]
      BY <1>1, <1>4, <1>5 DEF Types
    <3> HIDE DEF results
    <3>3. DOMAIN job' = {"status", "attempts", "results"} /\ job'.results = results
      BY <1>1, <3>1 DEF Types
    <3>4. ASSUME NEW k \in DOMAIN results, k[1] = "offer"
          PROVE  k[2] \in DOMAIN offers /\ (results[k] = "DONE" => ~Current(k[2]))
      <4>1. CASE k = key
        BY <3>2, <3>4, <4>1, <1>5, <1>6
      <4>2. CASE k # key
        BY <3>2, <3>4, <4>2, <1>1 DEF DoneAreSettled
      <4> QED
        BY <4>1, <4>2
    <3>5. DoneAreSettled'
      BY <1>12, <3>3, <3>4 DEF DoneAreSettled
    <3> QED
      BY <3>2, <3>3, <3>5
  <2> QED
    BY <2>1, <2>2
<1>17. noted' \in SUBSET Range(Teams)
  BY <1>1, <1>2 DEF Types
<1> QED
  BY <1>2, <1>3, <1>8, <1>10, <1>11, <1>13, <1>14, <1>15, <1>16, <1>17, StepKeeps

\* A review starts with every waiting offer on its list but those whose checkpoint is done,
\* and those do not wait.
LEMMA StartKeeps ==
    ASSUME ReviewInv, NEW r \in Reviews, Start(r)
    PROVE  ReviewInv'
<1>1. /\ Types /\ RowsInv /\ DoneAreSettled
      /\ reviews[r] \in ReviewRows /\ reviews \in [Reviews -> ReviewRows]
  BY DEF ReviewInv, Types
<1> DEFINE found == CurrentOffers
           results == IF r = "job" THEN Refreshed ELSE <<>>
           answering == {j \in found : ~Completed(results, OfferKey(j))}
           proposing == {n \in DOMAIN Teams : ~Completed(results, TeamKey(Teams[n]))}
           offerList == OfferKeys(answering)
           teamList == TeamKeys(proposing)
           todo == offerList \o teamList
           scope == {offers[j].thread : j \in found}
           row == [Asleep EXCEPT !.pc = "next", !.todo = todo, !.seen = found, !.scope = scope]
<1>2. /\ loop = None /\ loop' = r /\ UNCHANGED <<rows, noted>>
      /\ reviews' = [reviews EXCEPT ![r] = row]
      /\ IF r = "job" THEN job' = [status |-> "RUNNING", attempts |-> job.attempts + 1,
                                   results |-> results]
                      ELSE UNCHANGED job
  BY DEF Start
<1>3. /\ found \subseteq DOMAIN offers /\ DOMAIN offers = 1..Len(offers) /\ Len(offers) \in Nat
      /\ \A j \in DOMAIN offers : offers[j].thread \in DOMAIN threads
                                  /\ offers[j].round \in 1..MaxRounds
      /\ DOMAIN threads \in SUBSET Nat /\ MaxRounds \in Nat \ {0}
  BY <1>1, RowFacts DEF CurrentOffers, RowsInv
<1>4. answering \in SUBSET Nat /\ IsFiniteSet(answering)
  <2>1. answering \in SUBSET DOMAIN offers /\ IsFiniteSet(DOMAIN offers)
    BY <1>3, FS_Interval
  <2> QED
    BY <1>3, <2>1, FS_Subset
<1>5. /\ offerList \in Seq(Keys)
      /\ \A n \in DOMAIN offerList :
            offerList[n] = OfferKey(offerList[n][2]) /\ offerList[n][2] \in answering
      /\ \A m, n \in DOMAIN offerList : m # n => offerList[m] # offerList[n]
      /\ \A j \in answering : \E n \in DOMAIN offerList : offerList[n] = OfferKey(j)
  <2> HIDE DEF answering
  <2> QED
    BY <1>4, OfferKeysList
<1>6. teamList \in Seq(Keys) /\ \A n \in DOMAIN teamList : teamList[n][1] = "team"
  <2>1. proposing \in SUBSET DOMAIN Teams
    OBVIOUS
  <2> HIDE DEF proposing
  <2> QED
    BY <2>1, TeamKeysList
<1>7. \A j \in found : j \notin answering => Completed(results, OfferKey(j))
  OBVIOUS
<1>8. \A j \in answering : j \in found
  OBVIOUS
<1>9. row = [Asleep EXCEPT !.pc = "next", !.todo = todo, !.seen = found, !.scope = scope]
  OBVIOUS
<1> DEFINE L == Len(offerList)
<1>10. /\ todo \in Seq(Keys) /\ L \in Nat /\ DOMAIN offerList = 1..L
       /\ \A n \in DOMAIN offerList : n \in DOMAIN todo /\ todo[n] = offerList[n]
       /\ \A n \in DOMAIN todo : \/ n \in DOMAIN offerList
                                 \/ todo[n][1] = "team"
  <2> HIDE DEF offerList, teamList
  <2>1. todo \in Seq(Keys) /\ L \in Nat /\ DOMAIN offerList = 1..L
        /\ DOMAIN teamList = 1..Len(teamList) /\ Len(teamList) \in Nat
        /\ DOMAIN todo = 1..L + Len(teamList)
    BY <1>5, <1>6
  <2>2. \A n \in DOMAIN offerList : n \in DOMAIN todo /\ todo[n] = offerList[n]
    BY <1>5, <1>6, <2>1
  <2>3. ASSUME NEW n \in DOMAIN todo, n \notin DOMAIN offerList
        PROVE  todo[n][1] = "team"
    <3>1. n - L \in DOMAIN teamList /\ todo[n] = teamList[n - L]
      BY <1>5, <1>6, <2>1, <2>3
    <3> QED
      BY <1>6, <3>1
  <2> QED
    BY <2>1, <2>2, <2>3
<1> HIDE DEF found, results, answering, proposing, offerList, teamList, todo, scope, L, row
<1>11. scope \subseteq DOMAIN threads /\ scope \in SUBSET Nat /\ found \in SUBSET Nat
  BY <1>3 DEF scope
<1>12. /\ row \in ReviewRows /\ row.pc = "next" /\ row.todo = todo /\ row.turn = 0
       /\ row.seen = found /\ row.failed = {} /\ row.heard = {} /\ row.scope = scope
  <2>1. row = [pc |-> "next", todo |-> todo, again |-> FALSE, result |-> None, seen |-> found,
               turn |-> 0, heard |-> {}, failed |-> {}, scope |-> scope]
    BY <1>9 DEF Asleep
  <2>2. 0 \in 0..MaxRounds
    BY <1>3
  <2>3. row \in ReviewRows
    BY <1>10, <1>11, <2>1, <2>2 DEF ReviewRows
  <2> QED
    BY <2>1, <2>3
<1>13. reviews'[r] = row /\ reviews' = [reviews EXCEPT ![r] = reviews'[r]]
  BY <1>1, <1>2
<1>14. Grown(r)
  BY <1>1, <1>2, KeptRows
<1>15. DOMAIN offers' = DOMAIN offers /\ DOMAIN threads' = DOMAIN threads
       /\ \A j : (Current(j) <=> Current(j)') /\ offers'[j] = offers[j]
  BY <1>2, SameCurrent DEF rows
<1>16. r = "job" =>
          /\ DOMAIN results = DOMAIN job.results
          /\ results \in [DOMAIN results -> Outcomes]
          /\ \A key \in DOMAIN results :
                key[1] = "offer" => key[2] \in DOMAIN offers
                                    /\ (results[key] = "DONE" => ~Current(key[2]))
  <2> SUFFICES ASSUME r = "job"
               PROVE  /\ DOMAIN results = DOMAIN job.results
                      /\ results \in [DOMAIN results -> Outcomes]
                      /\ \A key \in DOMAIN results :
                            key[1] = "offer" => /\ key[2] \in DOMAIN offers
                                                /\ results[key] = "DONE" => ~Current(key[2])
    OBVIOUS
  <2>1. results = [key \in DOMAIN job.results |->
                      IF key[1] = "offer" /\ ~Current(key[2]) THEN "DONE"
                                                              ELSE job.results[key]]
    BY DEF results, Refreshed
  <2>2. \A key \in DOMAIN job.results :
           /\ job.results[key] \in Outcomes
           /\ key[1] = "offer" => key[2] \in DOMAIN offers
                                  /\ (job.results[key] = "DONE" => ~Current(key[2]))
    BY <1>1 DEF Types, DoneAreSettled
  <2>3. "DONE" \in Outcomes
    BY DEF Outcomes
  <2> QED
    BY <2>1, <2>2, <2>3
<1>17. \A j \in found : Current(j) /\ j \in DOMAIN offers
  BY DEF found, CurrentOffers
<1>18. \A j \in found : ~Completed(results, OfferKey(j))
  <2> SUFFICES ASSUME NEW j \in found, Completed(results, OfferKey(j)) PROVE FALSE
    OBVIOUS
  <2>1. OfferKey(j) \in DOMAIN results /\ results[OfferKey(j)] = "DONE"
    BY DEF Completed
  <2>2. r = "job"
    BY <2>1 DEF results
  <2> QED
    BY <1>16, <1>17, <2>1, <2>2, KeyKinds
<1>19. TurnInv(r)'
  <2> SUFFICES ASSUME NEW j \in DOMAIN offers, Current(j)
               PROVE  /\ j \in found
                      /\ \E n \in DOMAIN todo : todo[n] = OfferKey(j)
                      /\ offers[j].round >= 0
    BY <1>12, <1>13, <1>15 DEF TurnInv, Listed
  <2>1. j \in found
    BY DEF found, CurrentOffers
  <2>2. j \in answering
    BY <1>7, <1>18, <2>1
  <2>3. \E n \in DOMAIN todo : todo[n] = OfferKey(j)
    BY <1>5, <1>10, <2>2
  <2> QED
    BY <1>3, <2>1, <2>3
<1>20. ListInv(r)'
  <2>1. ASSUME NEW n \in DOMAIN todo, todo[n][1] = "offer"
        PROVE  /\ todo[n][2] \in found
               /\ \A m \in DOMAIN todo : m # n => todo[m] # todo[n]
    <3>1. n \in DOMAIN offerList /\ todo[n] = offerList[n]
      BY <1>10, <2>1
    <3>2. todo[n][2] \in found
      BY <1>5, <1>8, <3>1
    <3>3. ASSUME NEW m \in DOMAIN todo, m # n PROVE todo[m] # todo[n]
      BY <1>5, <1>10, <2>1, <3>1, <3>3
    <3> QED
      BY <3>2, <3>3
  <2> QED
    BY <1>3, <1>11, <1>12, <1>13, <1>15, <2>1 DEF ListInv
<1>21. SettledInv(r)'
  BY <1>12, <1>13 DEF SettledInv
<1>22. /\ DOMAIN job' = {"status", "attempts", "results"}
       /\ DOMAIN job'.results \subseteq Keys /\ job'.results \in [DOMAIN job'.results -> Outcomes]
       /\ DoneAreSettled'
  <2>1. CASE r # "job"
    <3>1. UNCHANGED job
      BY <1>2, <2>1
    <3>2. DoneAreSettled'
      BY <1>1, <1>14, <3>1, CheckpointsKept
    <3> QED
      BY <1>1, <3>1, <3>2 DEF Types
  <2>2. CASE r = "job"
    <3>1. job'.results = results /\ DOMAIN job' = {"status", "attempts", "results"}
      BY <1>2, <2>2
    <3>2. DOMAIN results \subseteq Keys
      BY <1>1, <1>16, <2>2 DEF Types
    <3>3. DoneAreSettled'
      BY <1>15, <1>16, <2>2, <3>1 DEF DoneAreSettled
    <3> QED
      BY <1>16, <2>2, <3>1, <3>2, <3>3
  <2> QED
    BY <2>1, <2>2
<1>23. noted' \in SUBSET Range(Teams)
  BY <1>1, <1>2 DEF Types
<1> QED
  BY <1>2, <1>12, <1>13, <1>14, <1>19, <1>20, <1>21, <1>22, <1>23, StepKeeps

\* With an empty list nothing waits that the review has seen: what waits is of a later round
\* than the turn, and after the last turn there is no later round.
LEMMA FollowKeeps ==
    ASSUME ReviewInv, NEW r \in Reviews, Follow(r)
    PROVE  ReviewInv'
<1>1. /\ Types /\ RowsInv /\ ListInv(r) /\ TurnInv(r)
      /\ reviews[r] \in ReviewRows /\ reviews \in [Reviews -> ReviewRows]
  BY DEF ReviewInv, Types
<1> DEFINE new == CurrentOffers \ reviews[r].seen
<1>2. /\ loop \in {None, r} /\ loop' = r /\ UNCHANGED <<rows, noted, job>>
      /\ reviews[r].pc = "next" /\ reviews[r].todo = <<>>
  BY DEF Follow, HasLoop
<1>3. /\ new \subseteq DOMAIN offers /\ DOMAIN offers = 1..Len(offers) /\ Len(offers) \in Nat
      /\ \A j \in DOMAIN offers : offers[j].round \in 1..MaxRounds
      /\ MaxRounds \in Nat /\ reviews[r].turn \in 0..MaxRounds
      /\ reviews[r].seen \subseteq DOMAIN offers
  BY <1>1, RowFacts DEF CurrentOffers, RowsInv, ListInv
<1>4. Grown(r)
  BY <1>1, <1>2, KeptRows
<1>5. DOMAIN offers' = DOMAIN offers /\ DOMAIN threads' = DOMAIN threads
      /\ \A j : (Current(j) <=> Current(j)') /\ offers'[j] = offers[j]
  BY <1>2, SameCurrent DEF rows
<1>6. ASSUME NEW j \in DOMAIN offers, Current(j), offers[j].thread \in reviews[r].scope,
             Unfailed(r, offers[j].thread)
      PROVE  j \in new /\ offers[j].round > reviews[r].turn
  <2>1. ~Listed(r, j)
    BY <1>2 DEF Listed
  <2>2. j \notin reviews[r].seen /\ offers[j].round > reviews[r].turn
    BY <1>1, <1>6, <2>1 DEF TurnInv
  <2> QED
    BY <1>6, <2>2 DEF CurrentOffers
<1>7. CASE TurnsLeft(r) /\ new # {}
  <2> DEFINE list == OfferKeys(new)
             seen == reviews[r].seen \cup new
             turn == reviews[r].turn + 1
  <2>1. reviews' = [reviews EXCEPT ![r].todo = list, ![r].seen = seen, ![r].turn = turn]
    BY <1>1, <1>7 DEF Follow
  <2>2. new \in SUBSET Nat /\ IsFiniteSet(new)
    <3>1. new \in SUBSET DOMAIN offers /\ IsFiniteSet(DOMAIN offers)
      BY <1>3, FS_Interval
    <3> QED
      BY <1>3, <3>1, FS_Subset
  <2>3. /\ list \in Seq(Keys)
        /\ \A n \in DOMAIN list : list[n] = OfferKey(list[n][2]) /\ list[n][2] \in new
        /\ \A m, n \in DOMAIN list : m # n => list[m] # list[n]
        /\ \A j \in new : \E n \in DOMAIN list : list[n] = OfferKey(j)
    <3> HIDE DEF new
    <3> QED
      BY <2>2, OfferKeysList
  <2>4. turn \in 0..MaxRounds /\ seen \in SUBSET Nat /\ seen \subseteq DOMAIN offers
        /\ new \cap reviews[r].seen = {} /\ new \subseteq seen
    BY <1>3, <1>7, <2>2 DEF TurnsLeft
  <2>5. turn = reviews[r].turn + 1 /\ seen = reviews[r].seen \cup new
    OBVIOUS
  <2> HIDE DEF new, list, seen, turn
  <2>6. /\ reviews'[r] = [reviews[r] EXCEPT !.todo = list, !.seen = seen, !.turn = turn]
        /\ reviews' = [reviews EXCEPT ![r] = reviews'[r]]
    BY <1>1, <2>1
  <2>7. /\ reviews'[r] \in ReviewRows /\ reviews'[r].pc = "next"
        /\ reviews'[r].todo = list /\ reviews'[r].turn = turn
        /\ reviews'[r].seen = seen /\ reviews'[r].failed = reviews[r].failed
        /\ reviews'[r].heard = reviews[r].heard /\ reviews'[r].scope = reviews[r].scope
    BY <1>1, <1>2, <2>3, <2>4, <2>6 DEF ReviewRows
  <2>8. TurnInv(r)'
    <3> SUFFICES ASSUME NEW j \in DOMAIN offers, Current(j),
                        offers[j].thread \in reviews[r].scope,
                        Unfailed(r, offers[j].thread)
                 PROVE  /\ j \in seen /\ offers[j].round >= turn
                        /\ \E n \in DOMAIN list : list[n] = OfferKey(j)
      BY <1>5, <2>7 DEF TurnInv, Listed, Unfailed
    <3>1. j \in new /\ offers[j].round > reviews[r].turn
      BY <1>6
    <3>2. offers[j].round \in Int /\ reviews[r].turn \in Int
      BY <1>3
    <3>3. offers[j].round >= turn
      BY <2>5, <3>1, <3>2
    <3> QED
      BY <2>3, <2>4, <3>1, <3>3
  <2>9. ListInv(r)'
    <3>1. \A key \in reviews[r].heard : key[1] = "offer" /\ key[2] \in reviews[r].seen
      BY <1>1 DEF ListInv
    <3>2. ASSUME NEW n \in DOMAIN list
          PROVE  /\ list[n][1] = "offer" /\ list[n][2] \in seen
                 /\ list[n] \notin reviews[r].heard
                 /\ \A m \in DOMAIN list : m # n => list[m] # list[n]
      <4>1. list[n][1] = "offer" /\ list[n][2] \in new
        BY <2>3, KeyKinds
      <4> QED
        BY <2>3, <2>4, <3>1, <4>1
    <3>3. reviews[r].failed \subseteq reviews[r].heard
          /\ reviews[r].scope \subseteq DOMAIN threads
      BY <1>1 DEF ListInv
    <3> QED
      BY <1>5, <2>4, <2>5, <2>7, <3>1, <3>2, <3>3 DEF ListInv
  <2>10. SettledInv(r)'
    BY <2>7 DEF SettledInv
  <2> QED
    BY <1>2, <2>6, <2>7, <2>8, <2>9, <2>10, QuietStepKeeps
<1>8. CASE ~(TurnsLeft(r) /\ new # {})
  <2>1. reviews' = [reviews EXCEPT ![r].pc = "done"]
    BY <1>8 DEF Follow
  <2>2. /\ reviews'[r] = [reviews[r] EXCEPT !.pc = "done"]
        /\ reviews' = [reviews EXCEPT ![r] = reviews'[r]]
    BY <1>1, <2>1
  <2>3. /\ reviews'[r] \in ReviewRows /\ reviews'[r].pc = "done"
        /\ reviews'[r].todo = reviews[r].todo /\ reviews'[r].turn = reviews[r].turn
        /\ reviews'[r].seen = reviews[r].seen /\ reviews'[r].failed = reviews[r].failed
        /\ reviews'[r].heard = reviews[r].heard /\ reviews'[r].scope = reviews[r].scope
    BY <1>1, <2>2 DEF ReviewRows
  <2>4. TurnInv(r)'
    BY <1>1, <1>4, <2>3, TurnKept
  <2>5. ListInv(r)'
    BY <1>1, <1>2, <1>5, <2>3 DEF ListInv
  <2>6. SettledInv(r)'
    <3> SUFFICES ASSUME NEW j \in DOMAIN offers, Unanswered(r, j)'
                 PROVE  FALSE
      BY <1>5 DEF SettledInv
    <3>1. Current(j) /\ offers[j].thread \in reviews[r].scope /\ Unfailed(r, offers[j].thread)
      BY <1>5, <2>3 DEF Unanswered, Unfailed
    <3>2. j \in new /\ offers[j].round > reviews[r].turn
      BY <1>6, <3>1
    <3>3. reviews[r].turn >= MaxRounds
      BY <1>3, <1>8, <3>2 DEF TurnsLeft
    <3> QED
      BY <1>3, <3>2, <3>3
  <2> QED
    BY <1>2, <2>2, <2>3, <2>4, <2>5, <2>6, QuietStepKeeps
<1> QED
  BY <1>7, <1>8

\* A review that sleeps promises nothing.
LEMMA AsleepPromises ==
    ASSUME Types, NEW u \in Reviews, reviews'[u] = Asleep
    PROVE  /\ ListInv(u)' /\ TurnInv(u)' /\ SettledInv(u)' /\ reviews'[u] \in ReviewRows
           /\ reviews'[u].pc = "asleep"
<1>1. MaxRounds \in Nat \ {0}
  BY RowFacts
<1>2. /\ reviews'[u].pc = "asleep" /\ reviews'[u].todo = <<>> /\ reviews'[u].seen = {}
      /\ reviews'[u].heard = {} /\ reviews'[u].failed = {} /\ reviews'[u].scope = {}
  BY DEF Asleep
<1>3. reviews'[u] \in ReviewRows
  BY <1>1 DEF Asleep, ReviewRows
<1>4. ListInv(u)'
  BY <1>2 DEF ListInv
<1>5. TurnInv(u)' /\ SettledInv(u)'
  BY <1>2 DEF TurnInv, SettledInv
<1> QED
  BY <1>2, <1>3, <1>4, <1>5

LEMMA FinishKeeps ==
    ASSUME ReviewInv, NEW r \in Reviews, Finish(r)
    PROVE  ReviewInv'
<1>1. /\ Types /\ RowsInv /\ DoneAreSettled /\ LoopHeld
      /\ reviews \in [Reviews -> ReviewRows]
  BY DEF ReviewInv, Types
<1>2. /\ reviews[r].pc = "done" /\ UNCHANGED <<rows, noted>>
      /\ reviews' = [reviews EXCEPT ![r] = Asleep] /\ loop' = None
      /\ job' = job \/ \E status : job' = [job EXCEPT !.status = status]
  BY DEF Finish
<1>3. loop = r
  BY <1>1, <1>2 DEF LoopHeld
<1>4. reviews'[r] = Asleep /\ reviews' = [reviews EXCEPT ![r] = reviews'[r]]
  BY <1>1, <1>2
<1>5. Grown(r)
  BY <1>1, <1>2, KeptRows
<1>6. DOMAIN job' = {"status", "attempts", "results"} /\ job'.results = job.results
  BY <1>1, <1>2 DEF Types
<1>7. DoneAreSettled'
  BY <1>1, <1>5, <1>6 DEF DoneAreSettled, Grown
<1> QED
  BY <1>1, <1>2, <1>3, <1>4, <1>5, <1>6, <1>7, AsleepPromises, StepKeeps DEF Types

LEMMA CrashKeeps ==
    ASSUME ReviewInv, Crash
    PROVE  ReviewInv'
<1>1. Types /\ RowsInv /\ DoneAreSettled
  BY DEF ReviewInv, Types
<1>2. /\ reviews' = [r \in Reviews |-> Asleep] /\ loop' = None
      /\ UNCHANGED <<rows, noted, job>>
  BY DEF Crash
<1>3. \A u \in Reviews : /\ ListInv(u)' /\ TurnInv(u)' /\ SettledInv(u)'
                         /\ reviews'[u] \in ReviewRows /\ reviews'[u].pc = "asleep"
  BY <1>1, <1>2, AsleepPromises
<1>4. reviews' \in [Reviews -> ReviewRows] /\ LoopHeld'
  BY <1>2, <1>3 DEF LoopHeld
<1>5. Grown(None) /\ RowsInv'
  BY <1>1, <1>2, KeptRows DEF Grown
<1>6. DoneAreSettled'
  BY <1>1, <1>2, <1>5, CheckpointsKept
<1>7. Types'
  BY <1>1, <1>2, <1>4, <1>5 DEF Types, Actors
<1> QED
  BY <1>3, <1>4, <1>6, <1>7 DEF ReviewInv

LEMMA OutsideKeeps ==
    ASSUME ReviewInv, Outside
    PROVE  ReviewInv' /\ Grown(None)
<1>1. Types /\ RowsInv /\ DoneAreSettled /\ None \in Actors
  BY DEF ReviewInv, Types, Actors
<1>2. UNCHANGED <<noted, job, reviews, loop>>
  BY DEF Outside
<1>3. Grown(None)
  BY <1>1, OpenedRows, CounteredRows, SettledRows DEF Outside
<1>4. \A u \in Reviews : ListInv(u)' /\ TurnInv(u)' /\ SettledInv(u)'
  BY <1>1, <1>2, <1>3, NoneIsNoReview, OthersKept DEF ReviewInv
<1>5. DoneAreSettled'
  BY <1>1, <1>2, <1>3, CheckpointsKept
<1>6. Types' /\ LoopHeld'
  BY <1>1, <1>2, <1>3 DEF Types, LoopHeld, Grown, ReviewInv
<1> QED
  BY <1>3, <1>4, <1>5, <1>6 DEF ReviewInv

LEMMA ReviewInitially == Init => ReviewInv
<1> SUFFICES ASSUME Init PROVE ReviewInv
  OBVIOUS
<1>1. /\ threads = <<>> /\ offers = <<>> /\ noted = {} /\ loop = None
      /\ reviews = [r \in Reviews |-> Asleep]
      /\ job = [status |-> "NEW", attempts |-> 0, results |-> <<>>]
  BY DEF Init
<1>2. RowsInv
  BY <1>1 DEF RowsInv
<1>3. MaxRounds \in Nat \ {0}
  BY TradeReviewAssumption DEF TradeReviewAssumption
<1>4. Asleep \in ReviewRows
  BY <1>3 DEF Asleep, ReviewRows
<1>5. \A u \in Reviews : /\ reviews[u].pc = "asleep" /\ reviews[u].todo = <<>>
                         /\ reviews[u].seen = {} /\ reviews[u].heard = {}
                         /\ reviews[u].failed = {} /\ reviews[u].scope = {}
  BY <1>1 DEF Asleep
<1>6. DOMAIN job = {"status", "attempts", "results"} /\ DOMAIN job.results = {}
      /\ job.results \in [DOMAIN job.results -> Outcomes]
  BY <1>1
<1>7. Types
  BY <1>1, <1>2, <1>4, <1>6 DEF Types, Actors
<1>8. DoneAreSettled /\ LoopHeld
  BY <1>5, <1>6 DEF DoneAreSettled, LoopHeld
<1>9. \A u \in Reviews : ListInv(u) /\ TurnInv(u) /\ SettledInv(u)
  <2>1. ASSUME NEW u \in Reviews PROVE ListInv(u)
    BY <1>5 DEF ListInv
  <2>2. ASSUME NEW u \in Reviews PROVE TurnInv(u) /\ SettledInv(u)
    BY <1>5 DEF TurnInv, SettledInv
  <2> QED
    BY <2>1, <2>2
<1> QED
  BY <1>7, <1>8, <1>9 DEF ReviewInv

LEMMA ReviewNext == ReviewInv /\ [Next]_vars => ReviewInv'
<1> SUFFICES ASSUME ReviewInv, [Next]_vars PROVE ReviewInv'
  OBVIOUS
<1>1. ASSUME NEW r \in Reviews, ReviewStep(r) PROVE ReviewInv'
  <2>1. CASE Answer(r)
    <3>1. Respond(r) \/ Consider(r)
      BY <2>1 DEF Answer
    <3> QED
      BY <2>1, <3>1, RespondKeeps, ConsiderKeeps
  <2>2. CASE Start(r) \/ Ask(r) \/ PassOver(r) \/ AskAgain(r) \/ FailToAnswer(r)
    BY <2>2, StartKeeps, AskKeeps, PassOverKeeps, AskAgainKeeps, FailToAnswerKeeps
  <2>3. CASE Stamp(r) \/ Record(r) \/ Follow(r) \/ Finish(r)
    BY <2>3, StampKeeps, RecordKeeps, FollowKeeps, FinishKeeps
  <2> QED
    BY <1>1, <2>1, <2>2, <2>3 DEF ReviewStep
<1>2. CASE Crash
  BY <1>2, CrashKeeps
<1>3. CASE Outside
  BY <1>3, OutsideKeeps
<1>4. CASE UNCHANGED vars
  <2>1. Types /\ RowsInv /\ DoneAreSettled
    BY DEF ReviewInv, Types
  <2>2. UNCHANGED <<rows, noted, job, reviews, loop>>
    BY <1>4 DEF vars
  <2>3. Grown(None)
    BY <2>1, <2>2, KeptRows
  <2>4. \A u \in Reviews : ListInv(u)' /\ TurnInv(u)' /\ SettledInv(u)'
    BY <2>1, <2>2, <2>3, NoneIsNoReview, OthersKept DEF ReviewInv
  <2>5. DoneAreSettled'
    BY <2>1, <2>2, <2>3, CheckpointsKept
  <2>6. Types' /\ LoopHeld'
    BY <2>1, <2>2, <2>3 DEF Types, LoopHeld, Grown, ReviewInv
  <2> QED
    BY <2>4, <2>5, <2>6 DEF ReviewInv
<1> QED
  BY <1>1, <1>2, <1>3, <1>4 DEF Next

\* The state of a review keeps its types, its list and its promise: a negotiation whose
\* offers it has not failed to answer moves on by a round in each turn of
\* _follow_new_trade_offers.
THEOREM ReviewsHoldTheirLists == Spec => []ReviewInv
<1>1. Init => ReviewInv
  BY ReviewInitially
<1>2. ReviewInv /\ [Next]_vars => ReviewInv'
  BY ReviewNext
<1> QED
  BY <1>1, <1>2, PTL DEF Spec

\* A trade review that is done leaves no offer of its managers unanswered in a negotiation
\* it found or began, unless an answer there failed: the turns that follow new offers
\* suffice for any number of rounds, offers, teams and requests of others.
THEOREM OffersAreFollowed == Spec => []SettledWithinReview
<1>1. ReviewInv => SettledWithinReview
  BY DEF ReviewInv, SettledInv, SettledWithinReview
<1> QED
  BY <1>1, ReviewsHoldTheirLists, PTL
-----------------------------------------------------------------------------
(* What is asked once.                                                     *)

\* No step but the job's own asking and proposing touches its proposals.
LEMMA ProposalsKept ==
    ASSUME RowsInv, ProposalInv, NEW who, Grown(who), noted \subseteq noted',
           \A i \in DOMAIN threads' \ DOMAIN threads : threads'[i].by # "job",
           "job" \in Reviews /\ reviews'["job"].pc = "asking"
               => reviews["job"].pc = "asking" /\ reviews'["job"].todo = reviews["job"].todo
    PROVE  ProposalInv'
<1>1. /\ DOMAIN threads \subseteq DOMAIN threads'
      /\ \A i \in DOMAIN threads : threads'[i].by = threads[i].by
                                   /\ threads'[i].opener = threads[i].opener
  BY DEF Grown
<1>2. \A i \in DOMAIN threads' : threads'[i].by = "job" => i \in DOMAIN threads
  OBVIOUS
<1>3. NotedInv'
  BY <1>1, <1>2 DEF ProposalInv, NotedInv
<1>4. AskedInv'
  BY <1>1, <1>2 DEF ProposalInv, AskedInv, Key
<1>5. OneProposalPerJob'
  BY <1>1, <1>2 DEF ProposalInv, OneProposalPerJob
<1> QED
  BY <1>3, <1>4, <1>5 DEF ProposalInv

\* The job asks a team only if it is not cooling down, and a team that has proposed is,
\* without an old stamp.
LEMMA AskKeepsProposals ==
    ASSUME ReviewInv, ProposalInv, NEW r \in Reviews, Ask(r)
    PROVE  ProposalInv'
<1>1. reviews \in [Reviews -> ReviewRows] /\ RowsInv
  BY DEF ReviewInv, Types
<1>2. /\ UNCHANGED <<rows, noted>> /\ reviews[r].todo # <<>>
      /\ reviews' = [reviews EXCEPT ![r].pc = "asking", ![r].again = FALSE]
      /\ Key(r)[1] = "team" => ~PassedOver(r, Key(r)[2])
  BY DEF Ask
<1>3. Grown(r) /\ UNCHANGED threads
  BY <1>1, <1>2, KeptRows DEF rows
<1>4. CASE r # "job"
  <2>1. "job" \in Reviews => reviews'["job"] = reviews["job"]
    BY <1>1, <1>2, <1>4
  <2> QED
    BY <1>1, <1>2, <1>3, <2>1, ProposalsKept
<1>5. CASE r = "job"
  <2>1. reviews'["job"].todo = reviews["job"].todo
    BY <1>1, <1>2, <1>5 DEF ReviewRows
  <2>2. Key("job")' = Key("job")
    BY <2>1 DEF Key
  <2>3. Key("job")[1] = "team" /\ Key("job")[2] \notin Stamped => Key("job")[2] \notin noted
    BY <1>2, <1>5 DEF PassedOver, CoolingDown
  <2>4. AskedInv'
    BY <1>3, <2>2, <2>3 DEF ProposalInv, NotedInv, AskedInv
  <2>5. NotedInv' /\ OneProposalPerJob'
    BY <1>2, <1>3 DEF ProposalInv, NotedInv, OneProposalPerJob
  <2> QED
    BY <2>4, <2>5 DEF ProposalInv
<1> QED
  BY <1>4, <1>5

LEMMA ConsiderKeepsProposals ==
    ASSUME ReviewInv, ProposalInv, NEW r \in Reviews, Answer(r), Consider(r)
    PROVE  ProposalInv'
<1>1. /\ Types /\ ListInv(r) /\ RowsInv
      /\ reviews[r] \in ReviewRows /\ reviews \in [Reviews -> ReviewRows]
  BY DEF ReviewInv, Types
<1>2. PICK t : t = Key(r)[2]
  OBVIOUS
<1>3. /\ reviews[r].pc = "asking" /\ Key(r)[1] = "team" /\ noted' = noted \cup {t}
  BY <1>2 DEF Answer, Consider
<1>4. reviews[r].todo # <<>> /\ t \in Range(Teams)
  <2>1. reviews[r].todo # <<>>
    BY <1>1, <1>3 DEF ListInv
  <2> QED
    BY <1>1, <1>2, <1>3, <2>1, FirstKey
<1>5. r \in Actors
  BY DEF Actors
<1>6. \/ Grown(r) /\ UNCHANGED threads
      \/ Grown(r) /\ \A i, k \in DOMAIN threads' \ DOMAIN threads :
                        i = k /\ threads'[i].opener = t
  BY <1>1, <1>2, <1>4, <1>5, KeptRows, OpenedRows DEF Consider, rows
<1>7. reviews'[r].pc = "reviewed" /\ \A u \in Reviews \ {r} : reviews'[u] = reviews[u]
  BY <1>1 DEF Consider, Answered, ReviewRows
<1>8. CASE r # "job"
  <2>1. "job" \in Reviews => reviews'["job"] = reviews["job"]
    BY <1>7, <1>8
  <2>2. \A i \in DOMAIN threads' \ DOMAIN threads : threads'[i].by # "job"
    BY <1>6, <1>8 DEF Grown
  <2> QED
    BY <1>1, <1>3, <1>6, <2>1, <2>2, ProposalsKept
<1>9. CASE r = "job"
  <2>1. /\ DOMAIN threads \subseteq DOMAIN threads'
        /\ \A i \in DOMAIN threads : threads'[i].by = threads[i].by
                                     /\ threads'[i].opener = threads[i].opener
        /\ \A i, k \in DOMAIN threads' \ DOMAIN threads :
              i = k /\ threads'[i].opener = t
    BY <1>6 DEF Grown
  <2>2. t \notin Stamped =>
           \A i \in DOMAIN threads : threads[i].by = "job" => threads[i].opener # t
    BY <1>2, <1>3, <1>9 DEF ProposalInv, AskedInv
  <2>3. NotedInv'
    BY <1>3, <2>1 DEF ProposalInv, NotedInv
  <2>4. AskedInv'
    BY <1>7, <1>9 DEF AskedInv
  <2>5. OneProposalPerJob'
    BY <2>1, <2>2 DEF ProposalInv, OneProposalPerJob
  <2> QED
    BY <2>3, <2>4, <2>5 DEF ProposalInv
<1> QED
  BY <1>8, <1>9

LEMMA ProposalNext == ReviewInv /\ ProposalInv /\ [Next]_vars => ProposalInv'
<1> SUFFICES ASSUME ReviewInv, ProposalInv, [Next]_vars PROVE ProposalInv'
  OBVIOUS
<1>1. Types /\ RowsInv /\ reviews \in [Reviews -> ReviewRows]
  BY DEF ReviewInv, Types
<1>2. ASSUME UNCHANGED <<rows, noted>>,
             "job" \in Reviews /\ reviews'["job"].pc = "asking"
                => reviews["job"].pc = "asking" /\ reviews'["job"].todo = reviews["job"].todo
      PROVE  ProposalInv'
  <2>1. Grown(None) /\ UNCHANGED threads
    BY <1>1, <1>2, KeptRows DEF rows
  <2> QED
    BY <1>1, <1>2, <2>1, ProposalsKept
<1>3. ASSUME NEW r \in Reviews, ReviewStep(r) PROVE ProposalInv'
  <2>1. CASE Ask(r)
    BY <2>1, AskKeepsProposals
  <2>2. CASE Answer(r) /\ Consider(r)
    BY <2>2, ConsiderKeepsProposals
  <2>3. CASE Answer(r) /\ Respond(r)
    <3>1. ListInv(r) /\ reviews[r].pc = "asking" /\ Key(r)[1] = "offer"
          /\ reviews' = Answered(r, "DONE") /\ noted' = noted
      BY <2>3 DEF ReviewInv, Answer, Respond
    <3>2. PICK j \in DOMAIN offers : j = Key(r)[2]
      BY <1>1, <3>1, FirstKey DEF ListInv
    <3>3. CounterOffer(r, j) \/ SettleOffer(j, "PROCESSED") \/ SettleOffer(j, "REJECTED")
      BY <2>3, <3>2 DEF Respond
    <3>4. r \in Actors /\ "PROCESSED" \in Settled /\ "REJECTED" \in Settled
      BY DEF Actors, Settled
    <3>5. Grown(r) /\ DOMAIN threads' = DOMAIN threads
      BY <1>1, <3>3, <3>4, CounteredRows, SettledRows
    <3>6. "job" \in Reviews /\ reviews'["job"].pc = "asking"
             => reviews["job"].pc = "asking" /\ reviews'["job"].todo = reviews["job"].todo
      BY <1>1, <3>1 DEF Answered, ReviewRows
    <3> QED
      BY <1>1, <3>1, <3>5, <3>6, ProposalsKept
  <2>4. CASE Start(r)
    BY <1>1, <1>2, <2>4 DEF Start, Asleep
  <2>5. CASE PassOver(r) \/ FailToAnswer(r) \/ AskAgain(r) \/ Stamp(r)
    BY <1>1, <1>2, <2>5 DEF PassOver, FailToAnswer, AskAgain, Stamp, Answered, ReviewRows
  <2>6. CASE Record(r)
    <3>1. /\ UNCHANGED <<rows, noted>>
          /\ \A u \in Reviews \ {r} : reviews'[u] = reviews[u]
          /\ reviews'[r].pc = "next"
      BY <1>1, <2>6 DEF Record, ReviewRows
    <3>2. "job" \in Reviews /\ reviews'["job"].pc = "asking"
             => reviews'["job"] = reviews["job"]
      BY <3>1
    <3> QED
      BY <1>2, <3>1, <3>2
  <2>7. CASE Follow(r)
    <3>1. /\ UNCHANGED <<rows, noted>>
          /\ \A u \in Reviews \ {r} : reviews'[u] = reviews[u]
          /\ reviews'[r].pc # "asking"
      BY <1>1, <2>7 DEF Follow, ReviewRows
    <3>2. "job" \in Reviews /\ reviews'["job"].pc = "asking"
             => reviews'["job"] = reviews["job"]
      BY <3>1
    <3> QED
      BY <1>2, <3>1, <3>2
  <2>8. CASE Finish(r)
    <3>1. /\ UNCHANGED <<rows, noted>>
          /\ \A u \in Reviews \ {r} : reviews'[u] = reviews[u]
          /\ reviews'[r].pc = "asleep"
      BY <1>1, <2>8 DEF Finish, Asleep
    <3>2. "job" \in Reviews /\ reviews'["job"].pc = "asking"
             => reviews'["job"] = reviews["job"]
      BY <3>1
    <3> QED
      BY <1>2, <3>1, <3>2
  <2>9. Answer(r) => Respond(r) \/ Consider(r)
    BY DEF Answer
  <2> QED
    BY <1>3, <2>1, <2>2, <2>3, <2>4, <2>5, <2>6, <2>7, <2>8, <2>9 DEF ReviewStep
<1>4. CASE Crash
  BY <1>2, <1>4 DEF Crash, Asleep
<1>5. CASE Outside
  <2>1. Grown(None) /\ UNCHANGED <<noted, reviews>>
    BY <1>5, OutsideKeeps DEF Outside
  <2>2. \A i \in DOMAIN threads' \ DOMAIN threads : threads'[i].by # "job"
    BY <2>1, TradeReviewAssumption DEF Grown, TradeReviewAssumption
  <2> QED
    BY <1>1, <2>1, <2>2, ProposalsKept
<1>6. CASE UNCHANGED vars
  BY <1>2, <1>6 DEF vars
<1> QED
  BY <1>3, <1>4, <1>5, <1>6 DEF Next

\* However often the scheduled trade review fails, crashes and is retried, a team without an
\* old stamp proposes once, and a review asks no manager again about an offer that it has
\* recorded, for any number of teams, offers, retries and requests of others.
THEOREM AskedOnce == Spec => []NothingIsAskedTwice
<1>1. Init => ProposalInv
  <2> SUFFICES ASSUME Init PROVE ProposalInv
    OBVIOUS
  <2>1. DOMAIN threads = {} /\ \A r \in Reviews : reviews[r].pc = "asleep"
    BY DEF Init, Asleep
  <2> QED
    BY <2>1 DEF ProposalInv, NotedInv, AskedInv, OneProposalPerJob
<1>2. ReviewInv /\ ProposalInv /\ [Next]_vars => ProposalInv'
  BY ProposalNext
<1>3. ReviewInv /\ ProposalInv => NothingIsAskedTwice
  <2> SUFFICES ASSUME ReviewInv, ProposalInv PROVE NothingIsAskedTwice
    OBVIOUS
  <2>1. ASSUME NEW r \in Reviews, reviews[r].pc = "asking" PROVE Key(r) \notin reviews[r].heard
    <3>1. Types /\ ListInv(r)
      BY DEF ReviewInv
    <3>2. reviews[r].todo # <<>>
      BY <2>1, <3>1 DEF ListInv
    <3>3. \A key \in reviews[r].heard : key[1] = "offer"
      BY <3>1 DEF ListInv
    <3>4. Key(r)[1] = "offer" => Key(r) \notin reviews[r].heard
      BY <3>1, <3>2, FirstKey
    <3> QED
      BY <3>3, <3>4
  <2> QED
    BY <2>1 DEF ProposalInv, NothingIsAskedTwice, HeardAreLeftAlone
<1> QED
  BY <1>1, <1>2, <1>3, ReviewsHoldTheirLists, PTL DEF Spec
=============================================================================
