---------------------------- MODULE TradeReview ----------------------------
(***************************************************************************)
(* The trade review of jobs/manager_automation.py: managers answer the     *)
(* offers pending at its start, then each may propose a trade, then the    *)
(* new offers and counters are followed.  The scheduled job is retried     *)
(* after failures and crashes and keeps a checkpoint per offer and team; a *)
(* commissioner's request does the same without.  Both run on the event    *)
(* loop and let go of it while a manager is asked.  What players an offer  *)
(* names, and whether it can be carried out, is Trades' subject: here any  *)
(* answer may be refused.                                                  *)
(***************************************************************************)
EXTENDS Naturals, FiniteSets, Sequences, Functions

CONSTANTS
    Teams,        \* franchises in draft order
    Reviews,      \* "job" and possibly "request"
    MaxRounds,    \* max_trade_negotiation_rounds
    MaxAttempts,  \* job_max_attempts
    Stamped,      \* teams with the stamp of a trade review that has grown old
    None,
    MaxThreads, MaxOutside  \* bounds on negotiations and on requests of others

ASSUME TradeReviewAssumption ==
    /\ Teams \in Seq(Range(Teams)) /\ Range(Teams) # {} /\ Stamped \subseteq Range(Teams)
    /\ MaxRounds \in Nat \ {0} /\ MaxAttempts \in Nat /\ MaxThreads \in Nat
    /\ Reviews \subseteq {"job", "request"} /\ None \notin {"job", "request"}

VARIABLES
    threads,  \* negotiations
    offers,   \* their offers in the order of creation
    noted,    \* teams with a TRADE_REVIEWED or TRADE_PROPOSED event in this cooldown
    stamped,  \* teams whose trade review was stamped in this cooldown
    job,      \* the job row: status, attempts and checkpoints
    reviews,  \* the state of each running review
    loop,     \* the review that has the event loop, or None
    outside   \* requests of others so far

rows == <<threads, offers>>
vars == <<rows, noted, stamped, job, reviews, loop, outside>>

OfferKey(j) == <<"offer", j>>
TeamKey(t) == <<"team", t>>
Settled == {"PROCESSED", "REJECTED", "EXPIRED"}

Open(i) == threads[i].status = "PENDING"
\* An offer that can be answered: the newest of an open negotiation.
Current(j) == Open(offers[j].thread) /\ offers[j].round = threads[offers[j].thread].rounds
CurrentOffers == {j \in DOMAIN offers : Current(j)}
Involved(t) == \E i \in DOMAIN threads : Open(i) /\ t \in threads[i].sides

Asleep == [pc |-> "asleep", todo |-> <<>>, again |-> FALSE, result |-> None,
           seen |-> {}, turn |-> 0, heard |-> {}, failed |-> {}, scope |-> {}]
Key(r) == Head(reviews[r].todo)
HasLoop(r) == loop \in {None, r}

\* The n-th of the numbers S is the one with n - 1 of them before it.
Ascending(S) ==
    [n \in 1..Cardinality(S) |-> CHOOSE x \in S : Cardinality({y \in S : y < x}) = n - 1]
OfferKeys(js) == [n \in 1..Cardinality(js) |-> OfferKey(Ascending(js)[n])]
TeamKeys(ns) == [n \in 1..Cardinality(ns) |-> TeamKey(Teams[Ascending(ns)[n]])]

Request == outside < MaxOutside /\ outside' = outside + 1

Completed(results, key) == key \in DOMAIN results /\ results[key] = "DONE"
-----------------------------------------------------------------------------
(* The rows of a negotiation.                                              *)

OpenThread(r, from, to) ==
    /\ Len(threads) < MaxThreads
    /\ threads' = Append(threads, [status |-> "PENDING", rounds |-> 1, sides |-> {from, to},
                                   opener |-> from, by |-> r])
    /\ offers' = Append(offers, [thread |-> Len(threads) + 1, round |-> 1, from |-> from,
                                 to |-> to, by |-> r])

CounterOffer(r, j) ==
    /\ Current(j) /\ offers[j].round < MaxRounds
    /\ threads' = [threads EXCEPT ![offers[j].thread].rounds = @ + 1]
    /\ offers' = Append(offers, [thread |-> offers[j].thread, round |-> offers[j].round + 1,
                                 from |-> offers[j].to, to |-> offers[j].from, by |-> r])

SettleOffer(j, status) ==
    /\ Current(j)
    /\ threads' = [threads EXCEPT ![offers[j].thread].status = status]
    /\ UNCHANGED offers
-----------------------------------------------------------------------------
(* A review's own steps.                                                   *)

\* The scheduler claims the job again after a failed attempt, or after the process
\* that ran it has died.
Claimable ==
    /\ job.status \in {"NEW", "FAILED", "RUNNING"}
    /\ job.attempts < MaxAttempts

\* A failed offer that was settled meanwhile is checkpointed as skipped.
Refreshed ==
    [key \in DOMAIN job.results |->
        IF key[1] = "offer" /\ ~Current(key[2]) THEN "DONE" ELSE job.results[key]]

Start(r) ==
    LET found == CurrentOffers
        results == IF r = "job" THEN Refreshed ELSE <<>>
        answering == {j \in found : ~Completed(results, OfferKey(j))}
        proposing == {n \in DOMAIN Teams : ~Completed(results, TeamKey(Teams[n]))}
    IN  /\ loop = None /\ reviews[r].pc = "asleep"
        /\ IF r = "job"
           THEN /\ Claimable
                /\ job' = [status |-> "RUNNING", attempts |-> job.attempts + 1, results |-> results]
           ELSE UNCHANGED job
        /\ IF r = "job" THEN UNCHANGED outside ELSE Request
        /\ reviews' = [reviews EXCEPT ![r] =
                          [Asleep EXCEPT !.pc = "next",
                                         !.todo = OfferKeys(answering) \o TeamKeys(proposing),
                                         !.seen = found,
                                         !.scope = {offers[j].thread : j \in found}]]
        /\ loop' = r
        /\ UNCHANGED <<rows, noted, stamped>>

\* ScheduledReviews.run without a pending trade: the cooldown since the stamp, or
\* without any stamp since the last completed review.
StampOnly(t) == t \in stamped  \* mutant of CoolingDown
CoolingDown(t) == t \in stamped \/ (t \notin Stamped /\ t \in noted)
PassedOver(r, t) == Involved(t) \/ (r = "job" /\ CoolingDown(t))

\* The manager is asked, and the loop is free until the answer.
Ask(r) ==
    /\ HasLoop(r) /\ reviews[r].pc = "next" /\ reviews[r].todo # <<>>
    /\ Key(r)[1] = "team" => ~PassedOver(r, Key(r)[2])
    /\ reviews' = [reviews EXCEPT ![r].pc = "asking", ![r].again = FALSE]
    /\ loop' = None
    /\ UNCHANGED <<rows, noted, stamped, job, outside>>

PassOver(r) ==
    /\ HasLoop(r) /\ reviews[r].pc = "next" /\ reviews[r].todo # <<>>
    /\ Key(r)[1] = "team" /\ PassedOver(r, Key(r)[2])
    /\ reviews' = [reviews EXCEPT ![r].pc = "answered", ![r].result = "DONE"]
    /\ loop' = r
    /\ UNCHANGED <<rows, noted, stamped, job, outside>>

Answered(r, result) == [reviews EXCEPT ![r].pc = "answered", ![r].result = result]

\* _respond_to_trade with a decision that is carried out.
Respond(r) ==
    /\ Key(r)[1] = "offer"
    /\ LET j == Key(r)[2]
       IN  CounterOffer(r, j) \/ SettleOffer(j, "PROCESSED") \/ SettleOffer(j, "REJECTED")
    /\ reviews' = Answered(r, "DONE")
    /\ UNCHANGED noted

\* _consider_trade_proposal with its decision.
Consider(r) ==
    /\ Key(r)[1] = "team"
    /\ LET t == Key(r)[2]
       IN  /\ \/ /\ UNCHANGED rows
                 /\ reviews' = [Answered(r, "DONE") EXCEPT ![r].pc = "reviewed"]
              \/ /\ \E to \in Range(Teams) \ {t} : OpenThread(r, t, to)
                 /\ reviews' = [Answered(r, "DONE") EXCEPT ![r].pc = "reviewed",
                                                           ![r].scope = @ \cup {Len(threads')}]
           /\ noted' = noted \cup {t}

Answer(r) ==
    /\ loop = None /\ reviews[r].pc = "asking"
    /\ Respond(r) \/ Consider(r)
    /\ loop' = r
    /\ UNCHANGED <<stamped, job, outside>>

\* An answer that names another offer, or that cannot be carried out, is asked for once
\* more.
AskAgain(r) ==
    /\ loop = None /\ reviews[r].pc = "asking"
    /\ Key(r)[1] = "offer" /\ ~reviews[r].again
    /\ reviews' = [reviews EXCEPT ![r].again = TRUE]
    /\ UNCHANGED <<rows, noted, stamped, job, loop, outside>>

\* The call fails, the answer is refused for good, or the offer is not current any more.
FailToAnswer(r) ==
    /\ loop = None /\ reviews[r].pc = "asking"
    /\ reviews' = Answered(r, "FAILED")
    /\ loop' = r
    /\ UNCHANGED <<rows, noted, stamped, job, outside>>

Stamp(r) ==
    /\ reviews[r].pc = "reviewed"
    /\ stamped' = IF r = "job" THEN stamped \cup {Key(r)[2]} ELSE stamped
    /\ reviews' = [reviews EXCEPT ![r].pc = "answered"]
    /\ UNCHANGED <<rows, noted, job, loop, outside>>

\* progress.record, and on to the next key.
Record(r) ==
    LET key == Key(r)
        result == reviews[r].result
    IN  /\ reviews[r].pc = "answered"
        /\ job' = IF r = "job"
                  THEN [job EXCEPT !.results = [k \in DOMAIN @ \cup {key} |->
                                                   IF k = key THEN result ELSE @[k]]]
                  ELSE job
        /\ reviews' = [reviews EXCEPT ![r].pc = "next", ![r].todo = Tail(@),
                                      ![r].heard = IF key[1] = "offer" THEN @ \cup {key} ELSE @,
                                      ![r].failed = IF key[1] = "offer" /\ result = "FAILED"
                                                    THEN @ \cup {key} ELSE @]
        /\ UNCHANGED <<rows, noted, stamped, loop, outside>>

TurnsLeftButOne(r) == reviews[r].turn + 1 < MaxRounds  \* mutant of TurnsLeft
TurnsLeft(r) == reviews[r].turn < MaxRounds

Follow(r) ==
    LET new == CurrentOffers \ reviews[r].seen
    IN  /\ HasLoop(r) /\ reviews[r].pc = "next" /\ reviews[r].todo = <<>>
        /\ IF TurnsLeft(r) /\ new # {}
           THEN reviews' = [reviews EXCEPT ![r].todo = OfferKeys(new), ![r].seen = @ \cup new,
                                           ![r].turn = @ + 1]
           ELSE reviews' = [reviews EXCEPT ![r].pc = "done"]
        /\ loop' = r
        /\ UNCHANGED <<rows, noted, stamped, job, outside>>

Finish(r) ==
    /\ reviews[r].pc = "done"
    /\ job' = IF r = "job"
              THEN [job EXCEPT !.status = IF "FAILED" \in Range(job.results) THEN "FAILED"
                                                                             ELSE "COMPLETE"]
              ELSE job
    /\ reviews' = [reviews EXCEPT ![r] = Asleep]
    /\ loop' = None
    /\ UNCHANGED <<rows, noted, stamped, outside>>

ReviewStep(r) ==
    \/ Start(r) \/ Ask(r) \/ PassOver(r) \/ Answer(r) \/ AskAgain(r) \/ FailToAnswer(r)
    \/ Stamp(r) \/ Record(r) \/ Follow(r) \/ Finish(r)
-----------------------------------------------------------------------------
(* A crash, and requests of the commissioner and the scheduler's expiry, which run *)
(* on threads beside the event loop.                                       *)

Crash ==
    /\ \E r \in Reviews : reviews[r].pc # "asleep"
    /\ reviews' = [r \in Reviews |-> Asleep] /\ loop' = None
    /\ UNCHANGED <<rows, noted, stamped, job, outside>>

Outside ==
    /\ Request
    /\ \/ \E from, to \in Range(Teams) : from # to /\ OpenThread(None, from, to)
       \/ \E j \in DOMAIN offers : CounterOffer(None, j)
       \/ \E j \in DOMAIN offers, status \in Settled : SettleOffer(j, status)
    /\ UNCHANGED <<noted, stamped, job, reviews, loop>>

Init ==
    /\ threads = <<>> /\ offers = <<>>
    /\ noted = {} /\ stamped = {}
    /\ job = [status |-> "NEW", attempts |-> 0, results |-> <<>>]
    /\ reviews = [r \in Reviews |-> Asleep] /\ loop = None
    /\ outside = 0

Next == (\E r \in Reviews : ReviewStep(r)) \/ Crash \/ Outside

Spec == Init /\ [][Next]_vars
-----------------------------------------------------------------------------
(* Properties.                                                             *)

\* When a review is done, no negotiation that it found or began waits for an answer to
\* what its managers offered, unless an answer in that negotiation failed: the turns in
\* which new offers are followed are enough for all rounds.
Unanswered(r, j) ==
    /\ Current(j) /\ offers[j].thread \in reviews[r].scope /\ offers[j].by = r
    /\ \A k \in DOMAIN offers :
          offers[k].thread = offers[j].thread => OfferKey(k) \notin reviews[r].failed
SettledWithinReview ==
    \A r \in Reviews : reviews[r].pc = "done" => ~\E j \in DOMAIN offers : Unanswered(r, j)

\* All attempts of the job together let a team propose once, though a crash may part
\* the proposal from its stamp and checkpoint.  A team with an old stamp may propose
\* twice, if its first proposal was settled before the retry came to it.
OneProposalPerJob ==
    \A t \in Range(Teams) \ Stamped :
        \A i, k \in DOMAIN threads :
            threads[i].opener = t /\ threads[k].opener = t
                /\ threads[i].by = "job" /\ threads[k].by = "job" => i = k

\* No review asks a manager again about an offer it has heard or failed to hear an
\* answer to.
HeardAreLeftAlone ==
    \A r \in Reviews : reviews[r].pc = "asking" => Key(r) \notin reviews[r].heard

\* No manager is asked or proposes twice, neither by one review nor by a retry.
NothingIsAskedTwice == OneProposalPerJob /\ HeardAreLeftAlone
=============================================================================
