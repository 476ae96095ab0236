---------------------------- MODULE DraftRunner ----------------------------
(***************************************************************************)
(* The autonomous draft: jobs/draft_runner.py over DraftService.  A runner *)
(* id is one life of the application process, which runs at most one task  *)
(* for the league.  The task's steps are its transactions; between two of  *)
(* them the commissioner, another process or the clock may act, and while  *)
(* a manager's model is asked (pc "asking") anything may.                  *)
(***************************************************************************)
EXTENDS DraftService

CONSTANTS
    MaxAttempts,  \* openrouter_max_retries + 1
    MaxStalls     \* bound: how often a live task may fail to renew in time

ASSUME AttemptsAssumption == MaxAttempts \in Nat \ {0} /\ MaxStalls \in Nat

VARIABLES
    pc,       \* where the process and its task are
    turn,     \* the pick number the task is deciding, 0 for none
    choice,   \* the player its manager answered
    attempt,  \* the attempt for this turn, 0 outside _decide_and_pick
    stalls,   \* how often the lease of a live task ran out
    fenced    \* history: the draft was taken from the task since it read the turn

taskVars == <<pc, turn, choice, attempt>>
runnerVars == <<taskVars, stalls, fenced>>
vars == <<serviceVars, runnerVars>>

\* "unborn" and "dead" are the process before its start and after its end,
\* "exiting" a shutdown that still has to release the lease, the others a
\* living process: without a task ("idle") or with its task at that step.
TaskStates == {"claim", "loop", "reveal", "attempt", "think", "asking", "commit",
               "fail", "release"}
Processes == {"unborn", "dead", "exiting", "idle"} \cup TaskStates

RunnerInit ==
    /\ Init
    /\ pc = [r \in Runners |-> "unborn"]
    /\ turn = [r \in Runners |-> 0]
    /\ choice = [r \in Runners |-> None]
    /\ attempt = [r \in Runners |-> 0]
    /\ stalls = 0
    /\ fenced = [r \in Runners |-> FALSE]

Goto(r, step) == pc' = [pc EXCEPT ![r] = step]

\* The task's local variables, all of them, end with the function that holds
\* them.
Locals(r, n, p, k) ==
    /\ turn' = [turn EXCEPT ![r] = n]
    /\ choice' = [choice EXCEPT ![r] = p]
    /\ attempt' = [attempt EXCEPT ![r] = k]
NoLocals(r) == Locals(r, 0, None, 0)

\* History: a task that holds a turn is fenced by any step that pauses the draft
\* or takes it out of this runner's hands.
RecordFence(s) ==
    fenced' = [r \in s |->
        /\ pc'[r] \in {"asking", "commit"}
        /\ (fenced[r] \/ status' = "PAUSED" \/ runner' # r)]

Step(r, step) ==
    /\ pc[r] = step
    /\ UNCHANGED stalls

-----------------------------------------------------------------------------
(* The process.                                                            *)

\* lifespan: the application starts, and resume_active starts the task of a
\* runnable draft unless auto_resume_draft is off.
RunnableActive == status = "ACTIVE"  \* mutant: no pending reveal is recovered
Runnable ==
    \/ status = "ACTIVE"
    \/ status = "COMPLETED" /\ \E n \in PickNumbers : picks[n].state = "REVEAL_PENDING"
Boot(r) ==
    /\ Step(r, "unborn")
    /\ Goto(r, "idle") \/ (Runnable /\ Goto(r, "claim"))
    /\ UNCHANGED <<serviceVars, turn, choice, attempt>>

\* DraftRunner.start: at most one task per process.  The scheduler's tick calls
\* it for a runnable draft of an unlocked league; see also Outside.
StartTask(r) ==
    /\ Step(r, "idle") /\ Runnable /\ ~locked /\ Goto(r, "claim")
    /\ UNCHANGED <<serviceVars, turn, choice, attempt>>

\* The process dies: the task is gone, its lease stays in the draft row.
Crash(r) ==
    /\ pc[r] \notin {"unborn", "dead"}
    /\ \E other \in Runners : pc[other] = "unborn"
    /\ Goto(r, "dead") /\ NoLocals(r)
    /\ UNCHANGED <<serviceVars, stalls>>

\* stop cancels the task where it awaits; its finally clause still releases.
Stop(r) ==
    /\ pc[r] \in {"loop", "asking"}
    /\ \E other \in Runners : pc[other] = "unborn"
    /\ Goto(r, "exiting") /\ NoLocals(r)
    /\ UNCHANGED <<serviceVars, stalls>>

\* The lease runs out: of a process that is gone, or of a live one whose
\* event loop stalled for longer than the lease.
HolderGone == runner \in Runners /\ pc[runner] \in {"dead", "unborn", "idle"}
LeaseLapses ==
    /\ LeaseExpires
    /\ IF HolderGone THEN UNCHANGED stalls
       ELSE stalls < MaxStalls /\ stalls' = stalls + 1
    /\ UNCHANGED taskVars
-----------------------------------------------------------------------------
(* The task.                                                               *)

\* run: _claim_lease, or end.
Claim(r) ==
    /\ Step(r, "claim")
    /\ \/ ClaimLease(r) /\ Goto(r, "loop")
       \/ ~(status \in {"ACTIVE", "COMPLETED"} /\ LeaseFree(r))
          /\ Goto(r, "release") /\ UNCHANGED serviceVars
    /\ UNCHANGED <<turn, choice, attempt>>

\* A heartbeat transaction: on to the next step, or out when the draft is no
\* longer this runner's.
BeatOrLeave(r, next) ==
    \/ Heartbeat(r) /\ Goto(r, next) /\ UNCHANGED <<turn, choice, attempt>>
    \/ ~OwnsDraft(r) /\ Goto(r, "release") /\ NoLocals(r) /\ UNCHANGED serviceVars

\* _prepare_iteration, first transaction
BeginIteration(r) == Step(r, "loop") /\ BeatOrLeave(r, "reveal")

\* _prepare_iteration, second transaction: reveal the picks that are due, then
\* sleep while others are pending, end when the draft is not active, or decide.
\* Mutant of Reveal: the next decision does not wait for the pending reveal.
RevealAndGoOn(r) ==
    /\ Step(r, "reveal")
    /\ \E due \in SUBSET Pending : RevealDue(due)
    /\ \/ status # "ACTIVE" /\ Goto(r, "release") /\ NoLocals(r)
       \/ status = "ACTIVE" /\ Goto(r, "attempt") /\ Locals(r, 0, None, 1)

Reveal(r) ==
    /\ Step(r, "reveal")
    /\ \E due \in SUBSET Pending : RevealDue(due)
    /\ \/ Pending' # {} /\ Goto(r, "loop") /\ NoLocals(r)
       \/ Pending' = {} /\ status # "ACTIVE" /\ Goto(r, "release") /\ NoLocals(r)
       \/ Pending' = {} /\ status = "ACTIVE" /\ Goto(r, "attempt") /\ Locals(r, 0, None, 1)

\* _decide_and_pick: the heartbeat that opens every attempt
BeginAttempt(r) == Step(r, "attempt") /\ BeatOrLeave(r, "think")

\* The turn is read again in every attempt, marked as thinking unless it is
\* so already, and committed before the manager is asked.
Think(r) ==
    /\ Step(r, "think")
    /\ \/ status # "ACTIVE" /\ Goto(r, "release") /\ NoLocals(r) /\ UNCHANGED serviceVars
       \/ /\ status = "ACTIVE"
          /\ \/ MarkThinking
             \/ /\ RowOf(current).state \notin {"WAITING_FOR_MANAGER", "FAILED"}
                /\ UNCHANGED serviceVars
          /\ Goto(r, "asking") /\ Locals(r, current, None, attempt[r])

\* _invoke_with_heartbeat: the lease is renewed while the answer is awaited
AskingBeat(r) == Step(r, "asking") /\ BeatOrLeave(r, "asking")

\* The attempt is spent: another one, or the pick has failed.

NextAttempt(r) ==
    IF attempt[r] < MaxAttempts
    THEN Goto(r, "attempt") /\ Locals(r, 0, None, attempt[r] + 1)
    ELSE Goto(r, "fail") /\ Locals(r, turn[r], None, 0)

\* The manager answers with some player, legal or not ...
Answer(r) ==
    /\ Step(r, "asking")
    /\ \E p \in Players : Locals(r, turn[r], p, attempt[r])
    /\ Goto(r, "commit")
    /\ UNCHANGED serviceVars

\* ... or the provider fails, or its answer does not parse.
AnswerFails(r) == Step(r, "asking") /\ NextAttempt(r) /\ UNCHANGED serviceVars

\* make_pick with the turn and the runner that the decision was made for.  The
\* league lock and the draft status are checked before the turn, and refused
\* like a bad selection; a changed turn ends the task.
CanPick(r) == /\ ~locked /\ status = "ACTIVE" /\ TurnExists(turn[r])
              /\ TurnIsExpected(DraftRow, turn[r], r) /\ Selectable(turn[r], choice[r])
TurnChanged(r) == ~locked /\ status = "ACTIVE" /\ ~TurnIsExpected(DraftRow, turn[r], r)
Commit(r) ==
    /\ Step(r, "commit")
    /\ RunnerPick(r, turn[r], choice[r])
    /\ Goto(r, "loop") /\ NoLocals(r)
CommitRefused(r) ==
    /\ Step(r, "commit")
    /\ \/ TurnChanged(r) /\ Goto(r, "release") /\ NoLocals(r)
       \/ ~TurnChanged(r) /\ ~CanPick(r) /\ NextAttempt(r)
    /\ UNCHANGED serviceVars

\* All attempts are spent: mark_failed, on the pick that is current now.  When
\* it is refused, run's handler repeats it in vain, and both ways it ends.
Fail(r) ==
    /\ Step(r, "fail")
    /\ \/ MarkFailed(r)
       \/ ~(runner = r /\ status = "ACTIVE") /\ UNCHANGED serviceVars
    /\ Goto(r, "release") /\ NoLocals(r)

\* run's finally clause
Release(r) ==
    /\ UNCHANGED stalls
    /\ \/ pc[r] = "release" /\ Goto(r, "idle")
       \/ pc[r] = "exiting" /\ Goto(r, "dead")
    /\ \/ ReleaseLease(r)
       \/ runner # r /\ UNCHANGED serviceVars
    /\ UNCHANGED <<turn, choice, attempt>>
-----------------------------------------------------------------------------
TaskStep(r) ==
    \/ StartTask(r) \/ Claim(r) \/ BeginIteration(r) \/ Reveal(r)
    \/ BeginAttempt(r) \/ Think(r) \/ AskingBeat(r) \/ Answer(r) \/ AnswerFails(r)
    \/ Commit(r) \/ CommitRefused(r) \/ Fail(r) \/ Release(r)
ProcessStep(r) == Boot(r) \/ Crash(r) \/ Stop(r)

\* The endpoints of the application process.  What the other roster services
\* do to a pick, refuse it, an answer with a taken player does here.
\* An async endpoint shares the event loop with the task, so it runs only where
\* the task awaits: before it begins, asleep in the loop, or asking a manager.
\* The others run on threads, between any two transactions.
Awaits(r) == pc[r] \in {"idle", "claim", "loop", "asking"}
Alive(r) == pc[r] \notin {"unborn", "dead"}
\* An async endpoint also starts the task, whatever it left of the draft.
Outside ==
    /\ \E r \in Runners :
          \/ /\ Awaits(r)
             /\ AsyncEndpoint
             /\ Goto(r, IF pc[r] = "idle" THEN "claim" ELSE pc[r])
          \/ /\ Alive(r)
             /\ ThreadEndpoint
             /\ UNCHANGED pc
    /\ UNCHANGED <<turn, choice, attempt, stalls>>

RunnerNext ==
    \/ \E r \in Runners : TaskStep(r) \/ ProcessStep(r)
    \/ LeaseLapses
    \/ Outside

Recorded(action) == action /\ RecordFence(Runners)

RunnerSpec == RunnerInit /\ [][Recorded(RunnerNext)]_vars

\* Every task step is eventually taken: the process runs, a provider call ends
\* in an answer or an error (it has a timeout), and the scheduler's tick starts
\* a task for a runnable draft.  A pending pick becomes due.  The container is
\* restarted, and the lease of a process that is gone runs out.
Fairness ==
    /\ \A r \in Runners : /\ WF_vars(Recorded(TaskStep(r)))
                          /\ WF_vars(Recorded(Boot(r)))
                          /\ SF_vars(Recorded(Reveal(r) /\ Pending' = {}))
    /\ WF_vars(Recorded(LeaseLapses /\ HolderGone))

FairRunnerSpec == RunnerSpec /\ Fairness
-----------------------------------------------------------------------------
(* Properties.                                                             *)

RunnerTypeOK ==
    /\ TypeOK
    /\ pc \in [Runners -> Processes]
    /\ turn \in [Runners -> 0..Total]
    /\ choice \in [Runners -> Players \cup {None}]
    /\ attempt \in [Runners -> 0..MaxAttempts]
    /\ stalls \in 0..MaxStalls
    /\ fenced \in [Runners -> BOOLEAN]

\* A task that lost the draft while its manager was asked never commits the
\* answer: not after a pause and a resume, not after another process took over,
\* not even when its own process owns the draft again.
NoFencedCommit ==
    [][\A r \in Runners : pc[r] = "commit" /\ pc'[r] = "loop" => ~fenced[r]]_vars

\* A pick is hidden until it is revealed, one at a time: no manager is asked
\* for the next selection while the previous one is still pending.
OnePendingReveal == Cardinality(Pending) <= 1

\* Tasks and processes keep to their values and hide one pick at a time.
RunnerConsistent == RunnerTypeOK /\ OnePendingReveal

\* A task that holds the draft loses it to nobody but the commissioner: no other
\* process claims it while the lease is renewed in time, and no task that lost the
\* draft earlier releases the lease of its successor.
Holding == (TaskStates \ {"claim"}) \cup {"exiting"}
HolderKeepsDraft ==
    [][stalls = 0 =>
          \A r \in Runners : runner = r /\ pc[r] \in Holding =>
              runner' = r \/ pc'[r] \notin Holding \/ status' = "PAUSED"]_vars

\* An active draft never hangs on a pick: it is made, undone or the draft is
\* paused for the commissioner, through crashes, restarts and lost leases.
ActiveDraftMoves ==
    \A n \in PickNumbers :
        (status = "ACTIVE" /\ current = n) ~> (status # "ACTIVE" \/ current # n)

\* A pick that was selected is eventually revealed or undone, in a draft that
\* the commissioner leaves neither paused nor locked for ever: only a running
\* task reveals, so a pause holds a pending pick back until the resume.
PendingIsRevealed ==
    <>[](status # "PAUSED" /\ ~locked) =>
        \A n \in PickNumbers :
            picks[n].state = "REVEAL_PENDING" ~> picks[n].state # "REVEAL_PENDING"
=============================================================================
