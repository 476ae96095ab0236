------------------------------ MODULE Reviews ------------------------------
(***************************************************************************)
(* Scheduled reviews of one team's manager (jobs/review_cache.py): a       *)
(* review whose inputs did not change is skipped, overlapping jobs share   *)
(* one lock per kind of review, and each completed review leaves a stamp   *)
(* of what it was based on.  Reviews run on the event loop and let go of   *)
(* it only while the provider is asked; endpoints run beside it on         *)
(* threads.  A review asked for by the commissioner takes neither lock nor *)
(* stamp.  The rows of the jobs are WaiverCollection's subject.            *)
(***************************************************************************)
EXTENDS Integers, FiniteSetsExt

CONSTANTS
    Tasks,     \* tasks of the event loop that may be reviewing the team
    Kind,      \* kind of review of each task
    Manual,    \* the tasks of the commissioner's requests
    Lineups,   \* lineups the team may field
    MaxAge,    \* age at which unchanged inputs are reviewed again, per kind
    Cooldown,  \* trade_proposal_interval_hours
    None,
    MaxTime, MaxNews, MaxWeek  \* bounds

Kinds == {"LINEUP", "TRADE_PROPOSAL"}

ASSUME ReviewsAssumption ==
    /\ Kind \in [Tasks -> Kinds] /\ Manual \subseteq Tasks
    /\ MaxAge \in [Kinds -> Nat \ {0}] /\ Cooldown \in Nat \ {0}
    /\ MaxTime \in Nat /\ MaxNews \in Nat /\ MaxWeek \in Nat \ {0}

VARIABLES
    now,
    week,      \* the league's week and the review policy, which restarts may change
    began,     \* when the week started
    news,      \* version of rosters, performances, news, injuries and games
    lineup,    \* the team's slot assignments
    pending,   \* a trade of the team is pending
    proposed,  \* when the team's last completed trade review was, or None
    stamps,    \* manager_state.scheduled_reviews
    tasks,     \* the review each task is at
    loop,      \* the task that has the event loop, or None
    chosen     \* the latest news on which each lineup was chosen

world == <<now, week, began, news, lineup, pending>>
vars == <<world, proposed, stamps, tasks, loop, chosen>>

Times == 0..MaxTime
Weeks == 1..MaxWeek
Versions == 0..MaxNews
Phases == {"idle", "begun", "asking", "answered"}
Stamps == [week : Weeks, at : Times, news : Versions, lineup : Lineups]
InProgress == [phase : Phases, at : Times, week : Weeks, news : Versions,
               lineup : Lineups \cup {None}, context : Versions]

ASSUME NoneAssumption == None \notin Tasks \cup Times \cup Lineups \cup Stamps

Idle == [phase |-> "idle", at |-> 0, week |-> 1, news |-> 0, lineup |-> None, context |-> 0]
Scheduled(t) == t \notin Manual
-----------------------------------------------------------------------------
(* When a scheduled review is skipped.                                     *)

SameWeek(stamp) == stamp # None /\ stamp.week = week /\ stamp.at <= now
SameInputs(stamp) == stamp.news = news /\ stamp.lineup = lineup

Unchanged(k) ==
    /\ SameWeek(stamps[k])
    /\ now - stamps[k].at < MaxAge[k]
    /\ SameInputs(stamps[k])

\* Without a stamp the events of this week's completed trade reviews count.
JustReviewed == proposed # None /\ proposed >= began /\ now - proposed < Cooldown

CoolingDown ==
    LET stamp == stamps["TRADE_PROPOSAL"]
    IN  IF stamp = None THEN JustReviewed ELSE SameWeek(stamp) /\ now - stamp.at < Cooldown

Skipped(k) == Unchanged(k) \/ (k = "TRADE_PROPOSAL" /\ (pending \/ CoolingDown))

NobodyElse(t) == TRUE  \* mutant of HasLock: overlapping jobs do not exclude each other
HasLock(t) ==
    \A u \in Tasks \ {t} : Kind[u] = Kind[t] /\ Scheduled(u) => tasks[u].phase = "idle"
-----------------------------------------------------------------------------
(* One review: up to the provider call, after its answer, and the stamp.   *)

Begin(t) ==
    /\ loop = None /\ tasks[t].phase = "idle"
    /\ Scheduled(t) => HasLock(t) /\ ~Skipped(Kind[t])
    /\ tasks' = [tasks EXCEPT ![t] = [phase |-> "begun", at |-> now, week |-> week,
                                      news |-> news, lineup |-> lineup, context |-> 0]]
    /\ loop' = t
    /\ UNCHANGED <<world, proposed, stamps, chosen>>

\* The manager's context is loaded.  A trade that is pending by now needs no answer.
LoadContext(t) ==
    /\ tasks[t].phase = "begun"
    /\ \/ /\ Kind[t] = "TRADE_PROPOSAL" /\ pending
          /\ tasks' = [tasks EXCEPT ![t].phase = "answered"]
          /\ UNCHANGED loop
       \/ /\ Kind[t] = "TRADE_PROPOSAL" => ~pending
          /\ tasks' = [tasks EXCEPT ![t].phase = "asking", ![t].context = news]
          /\ loop' = None
    /\ UNCHANGED <<world, proposed, stamps, chosen>>

\* _set_team_lineup with the answer.
CommitLineup(t) ==
    /\ Kind[t] = "LINEUP"
    /\ lineup' \in Lineups
    /\ chosen' = [chosen EXCEPT ![lineup'] = Max({@, tasks[t].context})]
    /\ UNCHANGED <<pending, proposed>>

\* _consider_trade_proposal with the answer: a pass or a proposal.
CommitProposal(t) ==
    /\ Kind[t] = "TRADE_PROPOSAL"
    /\ pending' \in {pending, TRUE}
    /\ proposed' = now
    /\ UNCHANGED <<lineup, chosen>>

Commit(t) ==
    /\ loop = None /\ tasks[t].phase = "asking"
    /\ CommitLineup(t) \/ CommitProposal(t)
    /\ tasks' = [tasks EXCEPT ![t].phase = "answered"]
    /\ loop' = t
    /\ UNCHANGED <<now, week, began, news, stamps>>

\* The lineup is taken as the team has it now, everything else as it was before the
\* call, so that the manager's own choice does not count as a change and the news
\* of the meantime do.
StampAsOfNow(t) ==  \* mutant of StampOf
    [week |-> tasks[t].week, at |-> tasks[t].at, news |-> news, lineup |-> lineup]
StampOf(t) ==
    [week |-> tasks[t].week, at |-> tasks[t].at, news |-> tasks[t].news,
     lineup |-> IF Kind[t] = "LINEUP" THEN lineup ELSE tasks[t].lineup]

OnlyStamp(t) ==  \* mutant of Stamped: the stamps are replaced, not merged
    [k \in Kinds |-> IF k = Kind[t] THEN StampOf(t) ELSE None]
Stamped(t) == [stamps EXCEPT ![Kind[t]] = StampOf(t)]

End(t) ==
    /\ tasks[t].phase = "answered"
    /\ stamps' = IF Scheduled(t) THEN Stamped(t) ELSE stamps
    /\ tasks' = [tasks EXCEPT ![t] = Idle]
    /\ loop' = None
    /\ UNCHANGED <<world, proposed, chosen>>

\* The call fails, the answer is refused, the job's lease is lost, or it stops.
Fail(t) ==
    /\ loop = None /\ tasks[t].phase = "asking"
    /\ tasks' = [tasks EXCEPT ![t] = Idle]
    /\ UNCHANGED <<world, proposed, stamps, loop, chosen>>

\* The process dies and starts anew.
Crash ==
    /\ \E t \in Tasks : tasks[t].phase # "idle"
    /\ tasks' = [t \in Tasks |-> Idle] /\ loop' = None
    /\ UNCHANGED <<world, proposed, stamps, chosen>>
-----------------------------------------------------------------------------
(* What happens beside the reviews.                                        *)

SetLineup ==
    /\ lineup' \in Lineups \ {lineup}
    /\ chosen' = [chosen EXCEPT ![lineup'] = news]
    /\ UNCHANGED <<now, week, began, news, pending>>

\* Synchronised data, or a roster that changes with its lineup.
Changes ==
    /\ news < MaxNews
    /\ news' = news + 1
    /\ lineup' \in Lineups
    /\ UNCHANGED <<now, week, began, pending, chosen>>

\* A trade of the team is proposed by another one or settled.
TradesChange == pending' = ~pending /\ UNCHANGED <<now, week, began, news, lineup, chosen>>

NextWeek ==
    /\ week < MaxWeek /\ news < MaxNews
    /\ week' = week + 1 /\ began' = now
    /\ news' = news + 1
    /\ UNCHANGED <<now, lineup, pending, chosen>>

Tick == now < MaxTime /\ now' = now + 1 /\ UNCHANGED <<week, began, news, lineup, pending, chosen>>
-----------------------------------------------------------------------------
Init ==
    /\ now = 0 /\ week = 1 /\ began = 0
    /\ news = 0 /\ lineup \in Lineups
    /\ pending = FALSE /\ proposed = None
    /\ stamps = [k \in Kinds |-> None]
    /\ tasks = [t \in Tasks |-> Idle] /\ loop = None
    /\ chosen = [l \in Lineups |-> 0]

Next ==
    \/ \E t \in Tasks : Begin(t) \/ LoadContext(t) \/ Commit(t) \/ End(t) \/ Fail(t)
    \/ Crash
    \/ (SetLineup \/ Changes \/ TradesChange \/ NextWeek \/ Tick)
          /\ UNCHANGED <<proposed, stamps, tasks, loop>>

Spec == Init /\ [][Next]_vars
-----------------------------------------------------------------------------
(* Properties.                                                             *)

\* Stamps and reviews keep to their values, and no two scheduled reviews of one kind
\* ask the manager at the same time, whatever jobs overlap.
TypeOK ==
    /\ now \in Times /\ began \in Times /\ week \in Weeks /\ news \in Versions
    /\ lineup \in Lineups /\ pending \in BOOLEAN
    /\ proposed \in Times \cup {None}
    /\ stamps \in [Kinds -> Stamps \cup {None}]
    /\ tasks \in [Tasks -> InProgress]
    /\ loop \in Tasks \cup {None}
    /\ chosen \in [Lineups -> Versions]
OneReviewOfAKind ==
    \A t, u \in Tasks \ Manual : Kind[t] = Kind[u] /\ t # u =>
        tasks[t].phase = "idle" \/ tasks[u].phase = "idle"
ReviewsConsistent == TypeOK /\ OneReviewOfAKind

\* A lineup review is only skipped when somebody chose the lineup in force knowing all
\* that is known now: what arrives during the call counts as not yet reviewed.
SkipsAreSafe ==
    loop = None /\ Unchanged("LINEUP") => chosen[lineup] = news

\* No manager is asked twice about the same inputs, however jobs overlap: a review that
\* completes differs from the one stamped before it, or that one had grown old.
Repeats(t) ==
    LET prior == stamps[Kind[t]]
    IN  /\ prior # None /\ prior.week = tasks[t].week
        /\ tasks[t].at - prior.at < MaxAge[Kind[t]]
        /\ prior.news = tasks[t].news /\ prior.lineup = tasks[t].lineup
NoRepeatedReviews ==
    [][\A t \in Tasks \ Manual :
          tasks[t].phase = "answered" /\ tasks'[t].phase = "idle" /\ stamps' # stamps
              => ~Repeats(t)]_vars

\* Reviews of both kinds write the one column of stamps: none takes back the other's.
StampsAdvance ==
    [][\A k \in Kinds : stamps[k] # None => stamps'[k] # None /\ stamps'[k].at >= stamps[k].at]_vars
=============================================================================
