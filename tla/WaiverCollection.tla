--------------------------- MODULE WaiverCollection ---------------------------
(***************************************************************************)
(* How the claims of one waiver period come in and how the period ends:    *)
(* the scheduler's tick claims the collection job and later processes the  *)
(* period, an attempt of the job asks every manager at once, checkpoints   *)
(* what each did and finishes, and the commissioner submits or processes   *)
(* by hand.  What process_waivers decides is the subject of WaiverRun;     *)
(* here it decides all pending claims in one step.                         *)
(*                                                                         *)
(* Scheduler and attempts share the event loop of one process and          *)
(* interleave where they await.  The commissioner's requests run on        *)
(* threads: each loads the period first and then waits for the league row. *)
(***************************************************************************)
EXTENDS Naturals

CONSTANTS
    Teams,
    MaxAttempts,   \* job_max_attempts
    MaxFaults      \* bound on stalls of a live process and failing checkpoint writes

ASSUME CollectionAssumption == MaxAttempts \in Nat \ {0} /\ MaxFaults \in Nat

Attempts == 1..MaxAttempts
Admin == 0   \* the commissioner's own collection, beside the attempts

VARIABLES
    up,          \* the process runs
    locked,      \* league.locked
    clock,       \* "collecting" up to deadline_at, "grace" up to processing_at, "due"
    period,      \* waiver_periods.status
    key,         \* waiver_periods.idempotency_key
    claims,      \* what each team has among the pending waiver_claims rows
    job,         \* the job_runs row
    pc,          \* where the task of each attempt is
    early,       \* collections whose calls began before the deadline
    seen,        \* progress.results of each attempt
    ask,         \* where the review of each team by each attempt is
    submitting,  \* the team whose claims an endpoint is about to submit
    processing,  \* an endpoint is about to process the period
    faults       \* faults so far

rowVars == <<locked, clock, period, key, claims, submitting, processing>>
taskVars == <<pc, early, seen, ask>>
vars == <<up, rowVars, job, taskVars, faults>>

Results == {"NONE", "COMPLETE", "FAILED"}
Places == {"none", "created", "begun", "gathering", "closed", "raised", "over"}
Steps == {"idle", "asking", "answered", "submitted", "refused"}
Jobs == [status : {"NONE", "RUNNING", "COMPLETE", "FAILED"}, attempt : 0..MaxAttempts,
         lease : {"live", "over"}, retry : {"due", "later"},
         results : [Teams -> Results]]
\* EMPTY: a list came in and left no claim, or a run has decided what it left.
\* Decided claims stay in the table and nobody changes them again.
ClaimLists == {"NONE", "EMPTY", "PENDING"}

NoResults == [t \in Teams |-> "NONE"]
NotAsking == [t \in Teams |-> "idle"]

Init ==
    /\ up = TRUE /\ locked = FALSE
    /\ clock = "collecting" /\ period = "OPEN" /\ key = "none"
    /\ claims = [t \in Teams |-> "NONE"]
    /\ job = [status |-> "NONE", attempt |-> 0, lease |-> "over", retry |-> "later",
              results |-> NoResults]
    /\ pc = [k \in Attempts |-> "none"]
    /\ early = {}
    /\ seen = [k \in Attempts |-> NoResults]
    /\ ask = [k \in Attempts |-> NotAsking]
    /\ submitting = {} /\ processing = FALSE
    /\ faults = 0
-----------------------------------------------------------------------------
\* A review runs without an await from the answer to its checkpoint; nothing
\* else happens on the event loop in between.
Unbroken(k, t) == ask[k][t] \in {"answered", "submitted", "refused"}
LoopFree == up /\ \A k \in Attempts, t \in Teams : ~Unbroken(k, t)

\* The row checks of ManagerJobProgress, the heartbeat and completion.
CurrentEvenIfFenced(k) == job.status = "RUNNING"   \* mutant: the attempt is not
Current(k) == job.status = "RUNNING" /\ job.attempt = k

\* _claim_job: the conditions to take a job, and the row taken.
ClaimableTwice(j) ==  \* mutant: a live lease does not keep others away
    j.attempt < MaxAttempts /\ j.status \in {"NONE", "RUNNING", "FAILED"}
Claimable(j) ==
    /\ j.attempt < MaxAttempts
    /\ \/ j.status = "NONE"
       \/ j.status = "RUNNING" /\ j.lease = "over"
       \/ j.status = "FAILED" /\ j.retry = "due"

Claimed(j) ==
    IF Claimable(j)
    THEN [j EXCEPT !.status = "RUNNING", !.attempt = @ + 1, !.lease = "live", !.retry = "later"]
    ELSE j

\* process_waivers, whoever calls it: every pending claim is decided.
Decided == [t \in Teams |-> IF claims[t] = "PENDING" THEN "EMPTY" ELSE claims[t]]
Process(idempotencyKey) ==
    /\ ~locked
    /\ period' = "PROCESSED" /\ key' = idempotencyKey
    /\ claims' = Decided

\* submit_claims after its checks: a list replaces the pending claims of the team,
\* beside whatever claims of it were decided.
Replaces(t) ==
    \E list \in {"EMPTY", "PENDING"} : claims' = [claims EXCEPT ![t] = list]
-----------------------------------------------------------------------------
(* The scheduler and the job's attempts.                                   *)

\* One tick: take back a job that failed or was left, end the period if its
\* time has come, or else open the collection.
TimedOut(j) ==
    IF j.status = "RUNNING"
    THEN [j EXCEPT !.status = "COMPLETE", !.lease = "over", !.retry = "later"]
    ELSE j
RecoveredIfFailed == IF job.status = "FAILED" THEN Claimed(job) ELSE job   \* mutant
Recovered == IF job.status \in {"RUNNING", "FAILED"} THEN Claimed(job) ELSE job

CreateTasks(j) ==   \* one task for every attempt that the tick claimed
    pc' = [k \in Attempts |-> IF job.attempt < k /\ k <= j.attempt THEN "created" ELSE pc[k]]

DueWhenCollected ==  \* mutant: the period waits for its collection
    period = "OPEN" /\ clock = "due" /\ ~locked /\ job.status # "RUNNING"
Due == period = "OPEN" /\ clock = "due" /\ ~locked
EndPeriod ==
    /\ Process("scheduled")
    /\ job' = TimedOut(Recovered)
    /\ CreateTasks(Recovered)
Collect ==
    /\ job' = IF period = "OPEN" /\ clock = "collecting" /\ ~locked
              THEN Claimed(Recovered) ELSE Recovered
    /\ CreateTasks(job')
    /\ UNCHANGED <<period, key, claims>>
Tick ==
    /\ LoopFree
    /\ IF Due THEN EndPeriod ELSE Collect
    /\ UNCHANGED <<up, locked, clock, submitting, processing, early, seen, ask, faults>>

\* _execute_manager_job: the attempt reads the checkpoints, if it is still
\* the current one; otherwise it ends.
Begin(k) ==
    /\ LoopFree /\ pc[k] = "created"
    /\ pc' = [pc EXCEPT ![k] = IF Current(k) THEN "begun" ELSE "raised"]
    /\ seen' = [seen EXCEPT ![k] = IF Current(k) THEN job.results ELSE @]
    /\ UNCHANGED <<up, rowVars, job, early, ask, faults>>

\* collect_waiver_claims: nothing to do in a period that is not open, an error
\* in a locked league, else one call for every manager not yet done.
Gather(k) ==
    /\ LoopFree /\ pc[k] = "begun"
    /\ IF period = "OPEN" /\ ~locked
       THEN /\ pc' = [pc EXCEPT ![k] = "gathering"]
            /\ early' = IF clock = "collecting" THEN early \cup {k} ELSE early
            /\ ask' = [ask EXCEPT ![k] =
                          [t \in Teams |-> IF seen[k][t] = "COMPLETE" THEN "idle" ELSE "asking"]]
       ELSE /\ pc' = [pc EXCEPT ![k] = IF period = "OPEN" THEN "raised" ELSE "closed"]
            /\ UNCHANGED <<early, ask>>
    /\ UNCHANGED <<up, rowVars, job, seen, faults>>

Review(k, t, step) ==
    /\ ask' = [ask EXCEPT ![k][t] = step]
    /\ UNCHANGED <<up, job, pc, early, seen, faults>>

\* The call answers and submit_claims loads the period, or one of them fails.
Answer(k, t) ==
    /\ LoopFree /\ ask[k][t] = "asking"
    /\ \/ period = "OPEN" /\ Review(k, t, "answered")
       \/ Review(k, t, "refused")
    /\ UNCHANGED rowVars

\* submit_claims with the period as loaded.  A call that began before the
\* deadline may come in until the processing time.  A list is refused for its
\* claims too, as when it repeats a priority of a decided claim.
InTimeIfEarly(k) == clock = "collecting" \/ k \in early  \* mutant of InTime
InTime(k) == clock = "collecting" \/ (k \in early /\ clock = "grace")
Submit(k, t) ==
    /\ up /\ ask[k][t] = "answered"
    /\ \/ ~locked /\ InTime(k) /\ Replaces(t) /\ Review(k, t, "submitted")
       \/ Review(k, t, "refused") /\ UNCHANGED claims
    /\ UNCHANGED <<locked, clock, period, key, submitting, processing>>

\* progress.record: the checkpoint of a current attempt.  An error of the
\* write, or the fence, ends the attempt's gather and leaves the other calls
\* of the attempt running.
AlwaysComplete(k, t) == "COMPLETE"  \* mutant of Result
Result(k, t) == IF ask[k][t] = "submitted" THEN "COMPLETE" ELSE "FAILED"
GatherRaises(k) == pc' = [pc EXCEPT ![k] = IF @ = "gathering" THEN "raised" ELSE @]
Record(k, t) ==
    /\ up /\ ask[k][t] \in {"submitted", "refused"}
    /\ ask' = [ask EXCEPT ![k][t] = "idle"]
    /\ IF Current(k)
       THEN /\ job' = [job EXCEPT !.results[t] = Result(k, t)]
            /\ seen' = [seen EXCEPT ![k][t] = Result(k, t)]
            /\ UNCHANGED pc
       ELSE GatherRaises(k) /\ UNCHANGED <<job, seen>>
    /\ UNCHANGED <<up, rowVars, early, faults>>
RecordFails(k, t) ==
    /\ up /\ ask[k][t] \in {"submitted", "refused"}
    /\ faults < MaxFaults /\ faults' = faults + 1
    /\ ask' = [ask EXCEPT ![k][t] = "idle"]
    /\ GatherRaises(k)
    /\ UNCHANGED <<up, rowVars, job, early, seen>>

\* The end of _execute_manager_job: the current attempt writes its outcome.
Ended(k) == pc[k] = "gathering" /\ \A t \in Teams : ask[k][t] = "idle"
Ends(k, status, results) ==
    /\ pc' = [pc EXCEPT ![k] = "over"]
    /\ job' = IF Current(k)
              THEN [job EXCEPT !.status = status, !.lease = "over", !.results = results]
              ELSE job
    /\ seen' = [seen EXCEPT ![k] = NoResults]
    /\ UNCHANGED <<up, rowVars, early, ask, faults>>
Finish(k) ==
    /\ LoopFree
    /\ \/ /\ Ended(k)
          /\ Ends(k, IF \E t \in Teams : seen[k][t] = "FAILED" THEN "FAILED" ELSE "COMPLETE", seen[k])
       \/ pc[k] = "closed" /\ Ends(k, "COMPLETE", job.results)
       \/ pc[k] = "raised" /\ Ends(k, "FAILED", job.results)

\* _await_with_heartbeat: it renews the lease, or ends the attempt and its calls.
Heartbeat(k) ==
    /\ LoopFree /\ pc[k] \in {"begun", "gathering"}
    /\ IF Current(k)
       THEN job' = [job EXCEPT !.lease = "live"] /\ UNCHANGED <<pc, ask>>
       ELSE /\ pc' = [pc EXCEPT ![k] = "raised"]
            /\ ask' = [ask EXCEPT ![k] = NotAsking]
            /\ UNCHANGED job
    /\ UNCHANGED <<up, rowVars, early, seen, faults>>
-----------------------------------------------------------------------------
(* The commissioner.                                                       *)

\* collect_manager_waivers asks every manager, without checkpoints.  One that
\* begins after the deadline comes to nothing.
CollectByHand ==
    /\ LoopFree
    /\ period = "OPEN" /\ ~locked /\ clock = "collecting"
    /\ early' = early \cup {Admin}
    /\ UNCHANGED <<up, rowVars, job, pc, seen, ask, faults>>

\* A list by request, or by a manager whom that collection asked.
LoadSubmission(t) ==
    /\ up /\ period = "OPEN" /\ submitting = {}   \* bound: one at a time
    /\ submitting' = {t}
    /\ UNCHANGED <<up, locked, clock, period, key, claims, processing, job, taskVars, faults>>
SubmitByHand(t) ==
    /\ up /\ t \in submitting
    /\ \/ ~locked /\ InTime(Admin) /\ Replaces(t)
       \/ UNCHANGED claims
    /\ submitting' = {}
    /\ UNCHANGED <<up, locked, clock, period, key, processing, job, taskVars, faults>>

LoadProcess ==
    /\ up /\ period = "OPEN" /\ ~processing
    /\ processing' = TRUE
    /\ UNCHANGED <<up, locked, clock, period, key, claims, submitting, job, taskVars, faults>>
ProcessByHand ==
    /\ up /\ processing
    /\ Process("admin") \/ (locked /\ UNCHANGED <<period, key, claims>>)
    /\ processing' = FALSE
    /\ UNCHANGED <<up, locked, clock, submitting, job, taskVars, faults>>

SetLock ==
    /\ up
    /\ locked' = ~locked
    /\ UNCHANGED <<up, clock, period, key, claims, submitting, processing, job, taskVars, faults>>
-----------------------------------------------------------------------------
(* Time and the process.                                                   *)

ClockMoves ==
    /\ \/ clock = "collecting" /\ clock' = "grace"
       \/ clock = "grace" /\ clock' = "due"
    /\ UNCHANGED <<up, locked, period, key, claims, submitting, processing, job, taskVars, faults>>

\* The lease of an attempt that nobody renews runs out.
Renewed == up /\ \E k \in Attempts : Current(k) /\ pc[k] \notin {"none", "over"}
LeaseLapses ==
    /\ job.status = "RUNNING" /\ job.lease = "live"
    /\ ~Renewed
    /\ job' = [job EXCEPT !.lease = "over"]
    /\ UNCHANGED <<up, rowVars, taskVars, faults>>
Stall ==   \* a live process does not renew in time
    /\ job.status = "RUNNING" /\ job.lease = "live"
    /\ Renewed /\ faults < MaxFaults /\ faults' = faults + 1
    /\ job' = [job EXCEPT !.lease = "over"]
    /\ UNCHANGED <<up, rowVars, taskVars>>
RetryFallsDue ==
    /\ job.status = "FAILED" /\ job.attempt < MaxAttempts /\ job.retry = "later"
    /\ job' = [job EXCEPT !.retry = "due"]
    /\ UNCHANGED <<up, rowVars, taskVars, faults>>

\* All tasks and requests end with the process.
ProcessEnds ==
    /\ up' = FALSE
    /\ pc' = [k \in Attempts |-> IF pc[k] = "none" THEN "none" ELSE "over"]
    /\ ask' = [k \in Attempts |-> NotAsking]
    /\ seen' = [k \in Attempts |-> NoResults]
    /\ early' = {}
    /\ submitting' = {} /\ processing' = FALSE
    /\ UNCHANGED <<locked, clock, period, key, claims, faults>>
Crash == up /\ ProcessEnds /\ UNCHANGED job
\* stop() cancels the tasks, and the one that has begun gives its job back.
Shutdown ==
    /\ LoopFree
    /\ ProcessEnds
    /\ job' = IF \E k \in Attempts : Current(k) /\ pc[k] \notin {"none", "created", "over"}
              THEN [job EXCEPT !.status = "FAILED", !.lease = "over", !.retry = "due"]
              ELSE job
Boot == ~up /\ up' = TRUE /\ UNCHANGED <<rowVars, job, taskVars, faults>>
-----------------------------------------------------------------------------
TaskStep(k) == Begin(k) \/ Gather(k) \/ Finish(k)
ReviewStep(k, t) == Answer(k, t) \/ Submit(k, t) \/ Record(k, t)
ByHand == CollectByHand \/ \E t \in Teams : LoadSubmission(t) \/ SubmitByHand(t)
Next ==
    \/ Tick
    \/ \E k \in Attempts : TaskStep(k) \/ Heartbeat(k)
    \/ \E k \in Attempts, t \in Teams : ReviewStep(k, t) \/ RecordFails(k, t)
    \/ ByHand \/ LoadProcess \/ ProcessByHand \/ SetLock
    \/ ClockMoves \/ LeaseLapses \/ Stall \/ RetryFallsDue
    \/ Crash \/ Shutdown \/ Boot

Spec == Init /\ [][Next]_vars

FairSpec ==
    /\ Spec
    /\ WF_vars(Tick) /\ WF_vars(ClockMoves) /\ WF_vars(LeaseLapses) /\ WF_vars(RetryFallsDue)
    /\ WF_vars(Boot)
    /\ \A k \in Attempts : WF_vars(TaskStep(k))
    /\ \A k \in Attempts, t \in Teams : WF_vars(ReviewStep(k, t))
-----------------------------------------------------------------------------
(* Properties.                                                             *)

TypeOK ==
    /\ up \in BOOLEAN /\ locked \in BOOLEAN
    /\ clock \in {"collecting", "grace", "due"}
    /\ period \in {"OPEN", "PROCESSED"} /\ key \in {"none", "scheduled", "admin"}
    /\ claims \in [Teams -> ClaimLists]
    /\ job \in Jobs
    /\ pc \in [Attempts -> Places]
    /\ early \subseteq Attempts \cup {Admin}
    /\ seen \in [Attempts -> [Teams -> Results]]
    /\ ask \in [Attempts -> [Teams -> Steps]]
    /\ submitting \subseteq Teams /\ processing \in BOOLEAN
    /\ faults \in 0..MaxFaults

\* The checkpoint of a completed review is never lost or overwritten, by a
\* retry, a fenced attempt, the merge at the end or a restart.
CheckpointsLast ==
    [][\A t \in Teams : job.results[t] = "COMPLETE" => job'.results[t] = "COMPLETE"]_vars

\* The current attempt asks no manager whose review is checkpointed.
DoneAreSkipped ==
    \A k \in Attempts, t \in Teams :
        Current(k) /\ ask[k][t] # "idle" => job.results[t] # "COMPLETE"

\* A checkpoint is true: the manager's claims were submitted.
CheckpointsAreTrue ==
    \A t \in Teams : job.results[t] = "COMPLETE" => claims[t] # "NONE"

\* A collection that ended before its period did has heard every manager.
CompleteMeansCollected ==
    job.status = "COMPLETE" /\ period = "OPEN" => \A t \in Teams : job.results[t] = "COMPLETE"

\* Rows keep to their values, and every checkpoint is true, is respected by the
\* retries, and there for every manager once the job is complete.
CheckpointsSound == TypeOK /\ DoneAreSkipped /\ CheckpointsAreTrue /\ CompleteMeansCollected

\* A run at the processing time decides every claim for good: no list, however long
\* its call took or its request waited, comes in after it and stays pending.  Only
\* a run by hand, before that time, can be followed by claims that nobody decides.
ScheduledRunDecidesAll ==
    key = "scheduled" => \A t \in Teams : claims[t] # "PENDING"

\* A current attempt that is at work still has its job's lease to itself:
\* without faults no two attempts ask at the same time.
OneAttemptAtWork ==
    faults = 0 =>
        \A k, l \in Attempts :
            k # l /\ (\E t \in Teams : ask[k][t] # "idle") => \A t \in Teams : ask[l][t] = "idle"

\* If the process stays up and the league unlocked from some time on, the period is processed,
\* whatever became of the collection.
PeriodEnds == <>[](up /\ ~locked) => <>(period = "PROCESSED")

\* And a collection does not keep running, unless in its last attempt: a job
\* whose process died in it is never taken up again.
JobEnds ==
    <>[](up /\ ~locked) =>
        []<>(job.status = "RUNNING" => job.attempt = MaxAttempts)
=============================================================================
