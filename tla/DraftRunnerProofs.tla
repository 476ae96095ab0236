-------------------------- MODULE DraftRunnerProofs --------------------------
(***************************************************************************)
(* Theorems about DraftRunner for any number of processes, attempts and    *)
(* stalls: what the tasks do is what the draft service does, and a task    *)
(* that lost the draft neither commits nor hides a second pick.            *)
(***************************************************************************)
EXTENDS DraftRunner, DraftServiceProofs, FiniteSetTheorems

-----------------------------------------------------------------------------
(* Values of the tasks.                                                    *)

\* Where a task has a turn, an answer and an attempt.
Deciding == {"attempt", "think", "asking", "commit"}
TaskInv ==
    /\ pc \in [Runners -> Processes]
    /\ turn \in [Runners -> 0..Total]
    /\ choice \in [Runners -> Players \cup {None}]
    /\ attempt \in [Runners -> 0..MaxAttempts]
    /\ stalls \in 0..MaxStalls
    /\ fenced \in [Runners -> BOOLEAN]
    /\ \A r \in Runners :
          /\ pc[r] \in {"asking", "commit"} => turn[r] \in PickNumbers
          /\ pc[r] = "commit" => choice[r] \in Players
          /\ pc[r] \in Deciding => attempt[r] \in 1..MaxAttempts

\* The locals that step needs: those of the task that enters it.
Fits(step, n, p, k) ==
    /\ step \in Processes /\ n \in 0..Total /\ p \in Players \cup {None} /\ k \in 0..MaxAttempts
    /\ step \in {"asking", "commit"} => n \in PickNumbers
    /\ step = "commit" => p \in Players
    /\ step \in Deciding => k \in 1..MaxAttempts

LEMMA FencedType ==
    ASSUME TaskInv, RecordFence(Runners) PROVE fenced' \in [Runners -> BOOLEAN]
BY DEF TaskInv, RecordFence

\* A step of one task, with new locals or with those it had.
LEMMA LocalsStep ==
    ASSUME TaskInv, NEW r \in Runners, NEW step, NEW n, NEW p, NEW k, Fits(step, n, p, k),
           Goto(r, step), Locals(r, n, p, k), stalls' \in 0..MaxStalls, RecordFence(Runners)
    PROVE  TaskInv'
<1>1. /\ pc' = [pc EXCEPT ![r] = step] /\ turn' = [turn EXCEPT ![r] = n]
      /\ choice' = [choice EXCEPT ![r] = p] /\ attempt' = [attempt EXCEPT ![r] = k]
  BY DEF Goto, Locals
<1>2. /\ pc' \in [Runners -> Processes] /\ turn' \in [Runners -> 0..Total]
      /\ choice' \in [Runners -> Players \cup {None}]
      /\ attempt' \in [Runners -> 0..MaxAttempts]
  BY <1>1 DEF TaskInv, Fits
<1>3. ASSUME NEW u \in Runners
      PROVE  /\ pc'[u] \in {"asking", "commit"} => turn'[u] \in PickNumbers
             /\ pc'[u] = "commit" => choice'[u] \in Players
             /\ pc'[u] \in Deciding => attempt'[u] \in 1..MaxAttempts
  <2>1. CASE u = r
    BY <1>1, <2>1 DEF TaskInv, Fits
  <2>2. CASE u # r
    BY <1>1, <2>2 DEF TaskInv
  <2> QED
    BY <2>1, <2>2
<1> QED
  BY <1>2, <1>3, FencedType DEF TaskInv

LEMMA GotoStep ==
    ASSUME TaskInv, NEW r \in Runners, NEW step,
           Fits(step, turn[r], choice[r], attempt[r]),
           Goto(r, step), UNCHANGED <<turn, choice, attempt>>,
           stalls' \in 0..MaxStalls, RecordFence(Runners)
    PROVE  TaskInv'
<1>1. Locals(r, turn[r], choice[r], attempt[r])
  BY DEF Locals, TaskInv
<1> QED
  BY <1>1, LocalsStep

\* Steps outside the decision need nothing of the locals.
Loose == Processes \ Deciding
LEMMA LooseFits ==
    ASSUME TaskInv, NEW r \in Runners, NEW step \in Loose
    PROVE  Fits(step, turn[r], choice[r], attempt[r]) /\ Fits(step, 0, None, 0)
BY TotalType, AttemptsAssumption DEF Fits, TaskInv, Loose, Deciding

LEMMA LooseStep ==
    ASSUME TaskInv, NEW r \in Runners, NEW step \in Loose, Goto(r, step),
           NoLocals(r) \/ UNCHANGED <<turn, choice, attempt>>,
           UNCHANGED stalls, RecordFence(Runners)
    PROVE  TaskInv'
<1>1. stalls' \in 0..MaxStalls
  BY DEF TaskInv
<1> QED
  BY <1>1, LooseFits, LocalsStep, GotoStep DEF NoLocals

LEMMA NextAttemptStep ==
    ASSUME TaskInv, NEW r \in Runners, pc[r] \in {"asking", "commit"}, NextAttempt(r),
           UNCHANGED stalls, RecordFence(Runners)
    PROVE  TaskInv'
<1>1. /\ attempt[r] \in 1..MaxAttempts /\ turn[r] \in 0..Total /\ MaxAttempts \in Nat
      /\ stalls' \in 0..MaxStalls /\ 0 \in 0..Total
  BY TotalType, AttemptsAssumption DEF TaskInv, Deciding
<1>2. CASE attempt[r] < MaxAttempts
  <2>1. Fits("attempt", 0, None, attempt[r] + 1)
    BY <1>1, <1>2 DEF Fits, Processes, TaskStates, Deciding
  <2> QED
    BY <1>1, <1>2, <2>1, LocalsStep DEF NextAttempt
<1>3. CASE ~(attempt[r] < MaxAttempts)
  <2>1. Fits("fail", turn[r], None, 0)
    BY <1>1 DEF Fits, Processes, TaskStates, Deciding
  <2> QED
    BY <1>1, <1>3, <2>1, LocalsStep DEF NextAttempt
<1> QED
  BY <1>2, <1>3

LEMMA BeatStep ==
    ASSUME TaskInv, NEW r \in Runners, NEW next,
           Fits(next, turn[r], choice[r], attempt[r]), BeatOrLeave(r, next),
           UNCHANGED stalls, RecordFence(Runners)
    PROVE  TaskInv'
<1>1. stalls' \in 0..MaxStalls /\ "release" \in Loose
  BY DEF TaskInv, Loose, Processes, TaskStates, Deciding
<1>2. CASE Goto(r, next) /\ UNCHANGED <<turn, choice, attempt>>
  BY <1>1, <1>2, GotoStep
<1>3. CASE Goto(r, "release") /\ NoLocals(r)
  BY <1>1, <1>3, LooseStep
<1> QED
  BY <1>2, <1>3 DEF BeatOrLeave

LEMMA TaskInvStep ==
    ASSUME TypeOK, TaskInv, [Recorded(RunnerNext)]_vars
    PROVE  TaskInv'
<1> DEFINE Rest == {"unborn", "dead", "exiting", "idle", "claim", "loop", "reveal", "release", "fail"}
<1>0. /\ Rest \subseteq Loose /\ "attempt" \in Processes /\ "think" \in Processes
      /\ "asking" \in Processes /\ "commit" \in Processes
  BY DEF Loose, Processes, TaskStates, Deciding
<1>1. CASE UNCHANGED vars
  BY <1>1 DEF vars, runnerVars, taskVars, TaskInv
<1> SUFFICES ASSUME RunnerNext, RecordFence(Runners) PROVE TaskInv'
  BY <1>1 DEF Recorded
<1>2. /\ MaxAttempts \in Nat /\ 1 \in 1..MaxAttempts /\ 0 \in 0..Total /\ 1 \in 0..MaxAttempts
      /\ current \in PickNumbers /\ current \in 0..Total /\ MaxStalls \in Nat
      /\ stalls \in 0..MaxStalls
  BY AttemptsAssumption, TotalType DEF PickNumbers, TypeOK, TaskInv
<1>3. ASSUME NEW r \in Runners, Boot(r) \/ StartTask(r) PROVE TaskInv'
  BY <1>0, <1>3, LooseStep DEF Boot, StartTask, Step
<1>4. ASSUME NEW r \in Runners, Crash(r) \/ Stop(r) PROVE TaskInv'
  BY <1>0, <1>4, LooseStep DEF Crash, Stop
<1>5. ASSUME NEW r \in Runners, Claim(r) \/ Release(r) PROVE TaskInv'
  BY <1>0, <1>5, LooseStep DEF Claim, Release, Step
<1>6. ASSUME NEW r \in Runners, BeginIteration(r) PROVE TaskInv'
  BY <1>0, <1>6, LooseFits, BeatStep DEF BeginIteration, Step
<1>7. ASSUME NEW r \in Runners, Reveal(r) PROVE TaskInv'
  <2>1. Fits("attempt", 0, None, 1)
    BY <1>0, <1>2 DEF Fits, Deciding
  <2>2. CASE Goto(r, "attempt") /\ Locals(r, 0, None, 1)
    BY <1>2, <1>7, <2>1, <2>2, LocalsStep DEF Reveal, Step
  <2> QED
    BY <1>0, <1>7, <2>2, LooseStep DEF Reveal, Step
<1>8. ASSUME NEW r \in Runners, BeginAttempt(r) PROVE TaskInv'
  <2>1. Fits("think", turn[r], choice[r], attempt[r])
    BY <1>0, <1>8 DEF BeginAttempt, Step, Fits, TaskInv, Deciding
  <2> QED
    BY <1>8, <2>1, BeatStep DEF BeginAttempt, Step
<1>9. ASSUME NEW r \in Runners, Think(r) PROVE TaskInv'
  <2>1. Fits("asking", current, None, attempt[r])
    BY <1>0, <1>2, <1>9 DEF Think, Step, Fits, TaskInv, Deciding
  <2>2. CASE Goto(r, "asking") /\ Locals(r, current, None, attempt[r])
    BY <1>2, <1>9, <2>1, <2>2, LocalsStep DEF Think, Step
  <2> QED
    BY <1>0, <1>9, <2>2, LooseStep DEF Think, Step
<1>10. ASSUME NEW r \in Runners, AskingBeat(r) PROVE TaskInv'
  <2>1. Fits("asking", turn[r], choice[r], attempt[r])
    BY <1>0, <1>10 DEF AskingBeat, Step, Fits, TaskInv, Deciding
  <2> QED
    BY <1>10, <2>1, BeatStep DEF AskingBeat, Step
<1>11. ASSUME NEW r \in Runners, Answer(r) PROVE TaskInv'
  <2>1. PICK p \in Players : Locals(r, turn[r], p, attempt[r])
    BY <1>11 DEF Answer
  <2>2. Fits("commit", turn[r], p, attempt[r])
    BY <1>0, <1>11 DEF Answer, Step, Fits, TaskInv, Deciding
  <2> QED
    BY <1>2, <1>11, <2>1, <2>2, LocalsStep DEF Answer, Step
<1>12. ASSUME NEW r \in Runners, AnswerFails(r) PROVE TaskInv'
  BY <1>12, NextAttemptStep DEF AnswerFails, Step
<1>13. ASSUME NEW r \in Runners, Commit(r) \/ Fail(r) PROVE TaskInv'
  BY <1>0, <1>13, LooseStep DEF Commit, Fail, Step
<1>14. ASSUME NEW r \in Runners, CommitRefused(r) PROVE TaskInv'
  BY <1>0, <1>14, LooseStep, NextAttemptStep DEF CommitRefused, Step
<1>15. CASE LeaseLapses
  <2>1. stalls' \in 0..MaxStalls /\ UNCHANGED taskVars
    BY <1>2, <1>15 DEF LeaseLapses
  <2> QED
    BY <2>1, FencedType DEF taskVars, TaskInv
<1>16. CASE Outside
  <2>1. PICK r \in Runners :
           Goto(r, IF pc[r] = "idle" THEN "claim" ELSE pc[r]) \/ UNCHANGED pc
    BY <1>16 DEF Outside
  <2>2. CASE UNCHANGED pc
    BY <1>16, <2>2, FencedType DEF Outside, TaskInv
  <2>3. CASE Goto(r, IF pc[r] = "idle" THEN "claim" ELSE pc[r])
    <3>1. Fits(pc[r], turn[r], choice[r], attempt[r])
      BY DEF TaskInv, Fits
    <3> QED
      BY <1>0, <1>2, <1>16, <2>3, <3>1, LooseStep, GotoStep DEF Outside
  <2> QED
    BY <2>1, <2>2, <2>3
<1> QED
  BY <1>3, <1>4, <1>5, <1>6, <1>7, <1>8, <1>9, <1>10, <1>11, <1>12, <1>13, <1>14, <1>15, <1>16
     DEF RunnerNext, TaskStep, ProcessStep
-----------------------------------------------------------------------------
(* The runner implements the service.                                      *)

\* Every transaction of a task, of its process or beside it is one of the service.
LEMMA ServiceStep ==
    ASSUME TypeOK, TaskInv, [Recorded(RunnerNext)]_vars
    PROVE  [Next]_serviceVars
<1>1. CASE UNCHANGED vars
  BY <1>1 DEF vars
<1> SUFFICES ASSUME RunnerNext PROVE [Next]_serviceVars
  BY <1>1 DEF Recorded
<1>2. ASSUME NEW r \in Runners, Boot(r) \/ StartTask(r) \/ Crash(r) \/ Stop(r)
      PROVE  UNCHANGED serviceVars
  BY <1>2 DEF Boot, StartTask, Crash, Stop
<1>3. ASSUME NEW r \in Runners, Claim(r) \/ Release(r) PROVE [Next]_serviceVars
  BY <1>3 DEF Claim, Release, Next, RunnerStep
<1>4. ASSUME NEW r \in Runners, BeginIteration(r) \/ BeginAttempt(r) \/ AskingBeat(r)
      PROVE  [Next]_serviceVars
  BY <1>4 DEF BeginIteration, BeginAttempt, AskingBeat, BeatOrLeave, Next, RunnerStep
<1>5. ASSUME NEW r \in Runners, Reveal(r) PROVE [Next]_serviceVars
  BY <1>5 DEF Reveal, Next
<1>6. ASSUME NEW r \in Runners, Think(r) PROVE [Next]_serviceVars
  BY <1>6 DEF Think, Next
<1>7. ASSUME NEW r \in Runners, Answer(r) \/ AnswerFails(r) \/ CommitRefused(r)
      PROVE  UNCHANGED serviceVars
  BY <1>7 DEF Answer, AnswerFails, CommitRefused
<1>8. ASSUME NEW r \in Runners, Commit(r) PROVE Next
  <2>1. turn[r] \in PickNumbers /\ choice[r] \in Players
    BY <1>8 DEF Commit, Step, TaskInv
  <2> QED
    BY <1>8, <2>1 DEF Commit, Next, RunnerStep
<1>9. ASSUME NEW r \in Runners, Fail(r) PROVE [Next]_serviceVars
  BY <1>9 DEF Fail, Next, RunnerStep
<1>10. CASE LeaseLapses
  BY <1>10 DEF LeaseLapses, Next
<1>11. CASE Outside
  BY <1>11 DEF Outside, Next
<1> QED
  BY <1>2, <1>3, <1>4, <1>5, <1>6, <1>7, <1>8, <1>9, <1>10, <1>11
     DEF RunnerNext, TaskStep, ProcessStep

LEMMA TaskInit == RunnerInit => TypeOK /\ TaskInv
<1> SUFFICES ASSUME RunnerInit PROVE TypeOK /\ TaskInv
  OBVIOUS
<1>1. TypeOK
  <2>1. 1 \in PickNumbers
    BY TotalType DEF PickNumbers
  <2> QED
    BY <2>1 DEF RunnerInit, Init, TypeOK, LeagueStatuses, DraftStatuses, NoRow, PickRows, FreeAgent,
       Assignments
<1>2. TaskInv
  BY TotalType, AttemptsAssumption
     DEF RunnerInit, TaskInv, Processes, TaskStates, Deciding
<1> QED
  BY <1>1, <1>2

LEMMA TasksCorrect == RunnerSpec => [](TypeOK /\ TaskInv)
BY TaskInit, TaskInvStep, ServiceStep, TypeStep, PTL DEF RunnerSpec

\* Hence what is proved of the service holds under the runner.
LEMMA RunnerIsService == RunnerSpec => ServiceSpec
<1>1. RunnerInit => Init
  BY DEF RunnerInit
<1> QED
  BY <1>1, TasksCorrect, ServiceStep, PTL DEF RunnerSpec, ServiceSpec
-----------------------------------------------------------------------------
(* Fences.  A fenced task does not own the draft, and cannot come to own   *)
(* it again without giving up its turn.                                    *)

\* Only a task that claims the lease becomes the draft's owner.
LEMMA Takeover ==
    ASSUME RunnerNext, NEW r \in Runners, runner' = r, runner # r
    PROVE  Claim(r)
<1>0. r # None
  BY NoneAssumption
<1>1. ASSUME NEW n, NEW u, NEW p, NEW st, MakePick(DraftRow, n, u, p, st) PROVE FALSE
  BY <1>1 DEF MakePick, leaseVars
<1>2. ASSUME NEW u \in Runners, Claim(u), u # r PROVE FALSE
  BY <1>2, <1>0 DEF Claim, ClaimLease, serviceVars, leaseVars
<1>3. ASSUME NEW u \in Runners, BeginIteration(u) \/ BeginAttempt(u) \/ AskingBeat(u) PROVE FALSE
  BY <1>3 DEF BeginIteration, BeginAttempt, AskingBeat, BeatOrLeave, Heartbeat, serviceVars, leaseVars
<1>4. ASSUME NEW u \in Runners, Reveal(u) \/ Think(u) PROVE FALSE
  BY <1>4 DEF Reveal, RevealDue, Think, MarkThinking, serviceVars, leaseVars
<1>5. ASSUME NEW u \in Runners, Commit(u) PROVE FALSE
  BY <1>1, <1>5 DEF Commit, RunnerPick
<1>6. ASSUME NEW u \in Runners, Fail(u) \/ Release(u) PROVE FALSE
  BY <1>0, <1>6 DEF Fail, MarkFailed, Release, ReleaseLease, serviceVars, leaseVars
<1>7. ASSUME NEW u \in Runners,
             Boot(u) \/ StartTask(u) \/ Crash(u) \/ Stop(u) \/ Answer(u) \/ AnswerFails(u)
                \/ CommitRefused(u)
      PROVE  FALSE
  BY <1>7 DEF Boot, StartTask, Crash, Stop, Answer, AnswerFails, CommitRefused, serviceVars, leaseVars
<1>8. CASE LeaseLapses
  BY <1>8 DEF LeaseLapses, LeaseExpires
<1>9. CASE Outside
  <2>1. AsyncEndpoint => FALSE
    BY <1>0, <1>1 DEF AsyncEndpoint, Start, Resume, AdminPick
  <2>2. ThreadEndpoint => FALSE
    BY <1>0 DEF ThreadEndpoint, SetOrder, Pause, UndoLastPick, LockLeague, UnlockLeague,
       PausedByLock, leaseVars
  <2> QED
    BY <1>9, <2>1, <2>2 DEF Outside
<1> QED
  BY <1>2, <1>3, <1>4, <1>5, <1>6, <1>7, <1>8, <1>9 DEF RunnerNext, TaskStep, ProcessStep

FenceInv == \A r \in Runners : fenced[r] => runner # r

LEMMA FenceStep ==
    ASSUME TaskInv, OwnerOnlyWhileOpen', FenceInv, [Recorded(RunnerNext)]_vars
    PROVE  FenceInv'
<1>1. CASE UNCHANGED vars
  BY <1>1 DEF vars, serviceVars, leaseVars, runnerVars, FenceInv
<1>2. CASE RunnerNext /\ RecordFence(Runners)
  <2> SUFFICES ASSUME NEW r \in Runners, fenced'[r], runner' = r PROVE FALSE
    BY DEF FenceInv
  <2>1. status' # "PAUSED"
    BY NoneAssumption DEF OwnerOnlyWhileOpen
  <2>2. pc'[r] \in {"asking", "commit"} /\ fenced[r]
    BY <1>2, <2>1 DEF RecordFence
  <2>3. Claim(r)
    BY <1>2, <2>2, Takeover DEF FenceInv
  <2>4. pc'[r] \in {"loop", "release"}
    BY <2>3 DEF Claim, Goto, TaskInv
  <2> QED
    BY <2>2, <2>4
<1> QED
  BY <1>1, <1>2 DEF Recorded

LEMMA FenceCorrect == RunnerSpec => []FenceInv
<1>1. RunnerInit => FenceInv
  BY DEF RunnerInit, FenceInv
<1> QED
  BY <1>1, RunnerIsService, FenceStep, TasksCorrect, OwnerCorrect, PTL DEF RunnerSpec

LEMMA NoFencedStep ==
    ASSUME TaskInv, FenceInv, [Recorded(RunnerNext)]_vars
    PROVE  [\A r \in Runners : pc[r] = "commit" /\ pc'[r] = "loop" => ~fenced[r]]_vars
<1> SUFFICES ASSUME RunnerNext, NEW r \in Runners, pc[r] = "commit", pc'[r] = "loop"
             PROVE  ~fenced[r]
  BY DEF Recorded
<1>0. \A u \in Runners : \A step : Goto(u, step) => pc'[r] = IF u = r THEN step ELSE pc[r]
  BY DEF Goto, TaskInv
<1>1. ASSUME NEW u \in Runners, TaskStep(u) \/ ProcessStep(u) PROVE u = r /\ Commit(u)
  <2>1. Boot(u) \/ StartTask(u) => FALSE
    BY <1>0 DEF Boot, StartTask, Step
  <2>2. Crash(u) \/ Stop(u) => FALSE
    BY <1>0 DEF Crash, Stop
  <2>3. Claim(u) \/ Release(u) => FALSE
    BY <1>0 DEF Claim, Release, Step
  <2>4. BeginIteration(u) \/ BeginAttempt(u) \/ AskingBeat(u) => FALSE
    BY <1>0 DEF BeginIteration, BeginAttempt, AskingBeat, BeatOrLeave, Step
  <2>5. Reveal(u) \/ Think(u) => FALSE
    BY <1>0 DEF Reveal, Think, Step
  <2>6. Answer(u) \/ AnswerFails(u) \/ CommitRefused(u) => FALSE
    BY <1>0 DEF Answer, AnswerFails, CommitRefused, NextAttempt, Step
  <2>7. Fail(u) => FALSE
    BY <1>0 DEF Fail, Step
  <2>8. Commit(u) => u = r
    BY <1>0 DEF Commit, Step
  <2> QED
    BY <1>1, <2>1, <2>2, <2>3, <2>4, <2>5, <2>6, <2>7, <2>8 DEF TaskStep, ProcessStep
<1>2. ~LeaseLapses
  BY DEF LeaseLapses, taskVars
<1>3. ~Outside
  BY <1>0 DEF Outside
<1>4. Commit(r)
  BY <1>1, <1>2, <1>3 DEF RunnerNext
<1>5. runner = r
  BY <1>4, NoneAssumption DEF Commit, RunnerPick, MakePick, TurnIsExpected
<1> QED
  BY <1>5 DEF FenceInv

\* No task commits the answer of a manager it asked before it lost the draft, to a
\* pause or to another process, even when the draft is its own process's again.
THEOREM FencedTasksKeepOut == RunnerSpec => NoFencedCommit
BY TasksCorrect, FenceCorrect, NoFencedStep, PTL DEF RunnerSpec, NoFencedCommit
-----------------------------------------------------------------------------
(* The lease.  While nothing stalls, whoever works on the draft it holds    *)
(* has a live lease.                                                       *)

HeldAlive == stalls = 0 => \A r \in Runners : runner = r /\ pc[r] \in Holding => leaseLive

\* A step that changes neither the owner nor the lease, and takes no task into the
\* work on a draft it already holds.
LEMMA SameLeaseKeepsAlive ==
    ASSUME HeldAlive, UNCHANGED <<leaseVars, stalls>>,
           \A r \in Runners : pc'[r] \in Holding => pc[r] \in Holding \/ runner # r
    PROVE  HeldAlive'
BY DEF HeldAlive, leaseVars

LEMMA MakePickLease ==
    ASSUME NEW d, NEW n, NEW r, NEW p, NEW st, MakePick(d, n, r, p, st) PROVE UNCHANGED leaseVars
BY DEF MakePick

\* What a step of a task does to the owner and the lease: nothing, a claim of its own,
\* a renewal of its own, or the end of its work.
LEMMA LeaseStep ==
    ASSUME TaskInv, OwnerOnlyWhileOpen, NEW u \in Runners, TaskStep(u) \/ ProcessStep(u)
    PROVE  /\ stalls' = stalls
           /\ \A r \in Runners : r # u => pc'[r] = pc[r]
           /\ \/ UNCHANGED leaseVars /\ (pc'[u] \in Holding => pc[u] \in Holding \/ runner # u)
              \/ LeaseFree(u) /\ runner' = u /\ leaseLive'
              \/ runner = u /\ runner' = u /\ leaseLive'
              \/ runner = u /\ runner' = None /\ (status' = "PAUSED" \/ pc'[u] \notin Holding)
<1>0. \A step : Goto(u, step) => pc'[u] = step /\ \A r \in Runners : r # u => pc'[r] = pc[r]
  BY DEF Goto, TaskInv
<1>1. CASE Boot(u) \/ StartTask(u) \/ Crash(u) \/ Stop(u)
  BY <1>0, <1>1 DEF Boot, StartTask, Crash, Stop, Step, serviceVars, Holding, TaskStates
<1>2. CASE Claim(u)
  <2>1. CASE ClaimLease(u)
    BY <1>0, <1>2, <2>1 DEF Claim, ClaimLease, Step
  <2>2. CASE ~(status \in {"ACTIVE", "COMPLETED"} /\ LeaseFree(u)) /\ UNCHANGED serviceVars
    <3>1. runner # u
      BY <2>2, NoneAssumption DEF OwnerOnlyWhileOpen, LeaseFree
    <3> QED
      BY <1>0, <1>2, <2>2, <3>1 DEF Claim, Step, serviceVars
  <2> QED
    BY <1>2, <2>1, <2>2 DEF Claim
<1>3. CASE BeginIteration(u) \/ BeginAttempt(u) \/ AskingBeat(u)
  BY <1>0, <1>3 DEF BeginIteration, BeginAttempt, AskingBeat, BeatOrLeave, Heartbeat, OwnsDraft,
     Step, serviceVars, leaseVars, Holding, TaskStates
<1>4. CASE Reveal(u) \/ Think(u)
  BY <1>0, <1>4 DEF Reveal, RevealDue, Think, MarkThinking, Step, serviceVars, Holding, TaskStates
<1>5. CASE Answer(u) \/ AnswerFails(u) \/ CommitRefused(u)
  BY <1>0, <1>5 DEF Answer, AnswerFails, CommitRefused, NextAttempt, Step, serviceVars, Holding, TaskStates
<1>6. CASE Commit(u)
  BY <1>0, <1>6, MakePickLease DEF Commit, RunnerPick, Step, Holding, TaskStates
<1>7. CASE Fail(u)
  BY <1>0, <1>7 DEF Fail, MarkFailed, Step, serviceVars, Holding, TaskStates
<1>8. CASE Release(u)
  BY <1>0, <1>8 DEF Release, ReleaseLease, serviceVars, Holding, TaskStates
<1> QED
  BY <1>1, <1>2, <1>3, <1>4, <1>5, <1>6, <1>7, <1>8 DEF TaskStep, ProcessStep

\* What everything else does: it pauses the draft or leaves its owner alone.
LEMMA OutsideLease ==
    ASSUME TaskInv, OwnerOnlyWhileOpen, Outside
    PROVE  /\ UNCHANGED leaseVars \/ runner' = None
           /\ runner' = runner \/ runner = None \/ status' = "PAUSED"
           /\ stalls' = stalls /\ \A r \in Runners : pc'[r] \in Holding => pc[r] \in Holding
<1>1. AsyncEndpoint => \/ UNCHANGED leaseVars
                       \/ runner' = None /\ runner = None
  BY MakePickLease DEF AsyncEndpoint, Start, Resume, AdminPick, OwnerOnlyWhileOpen
<1>2. ThreadEndpoint => UNCHANGED leaseVars \/ (runner' = None /\ status' = "PAUSED")
  BY DEF ThreadEndpoint, SetOrder, Pause, UndoLastPick, LockLeague, UnlockLeague, PausedByLock
<1>3. stalls' = stalls /\ \A r \in Runners : pc'[r] \in Holding => pc[r] \in Holding
  BY DEF Outside, Goto, Holding, TaskStates, TaskInv
<1> QED
  BY <1>1, <1>2, <1>3 DEF Outside, leaseVars

LEMMA HolderStep ==
    ASSUME TypeOK, TaskInv, OwnerOnlyWhileOpen, HeldAlive, [Recorded(RunnerNext)]_vars
    PROVE  /\ HeldAlive'
           /\ stalls = 0 =>
                 \A r \in Runners : runner = r /\ pc[r] \in Holding =>
                    runner' = r \/ pc'[r] \notin Holding \/ status' = "PAUSED"
<1>0. None \notin Runners /\ stalls \in Nat
  BY NoneAssumption, AttemptsAssumption DEF TaskInv
<1>1. CASE UNCHANGED vars
  BY <1>1 DEF vars, serviceVars, leaseVars, runnerVars, taskVars, HeldAlive
<1>2. ASSUME NEW u \in Runners, TaskStep(u) \/ ProcessStep(u)
      PROVE  /\ HeldAlive'
             /\ stalls = 0 =>
                   \A r \in Runners : runner = r /\ pc[r] \in Holding =>
                      runner' = r \/ pc'[r] \notin Holding \/ status' = "PAUSED"
  BY <1>0, <1>2, LeaseStep DEF HeldAlive, LeaseFree, leaseVars
<1>3. CASE LeaseLapses
  <2>1. UNCHANGED <<runner, pc>>
    BY <1>3 DEF LeaseLapses, LeaseExpires, taskVars
  <2>2. CASE HolderGone
    BY <1>0, <1>3, <2>1, <2>2 DEF LeaseLapses, HolderGone, HeldAlive, Holding, TaskStates
  <2>3. CASE ~HolderGone
    BY <1>0, <1>3, <2>1, <2>3 DEF LeaseLapses, HeldAlive
  <2> QED
    BY <2>2, <2>3
<1>4. CASE Outside
  BY <1>0, <1>4, OutsideLease DEF HeldAlive, leaseVars
<1> QED
  BY <1>1, <1>2, <1>3, <1>4 DEF Recorded, RunnerNext

\* While every live task renews its lease in time, no other process takes the draft from
\* it, and no task that lost the draft before ends the lease of the one that has it now.
THEOREM HolderCorrect == RunnerSpec => HolderKeepsDraft
<1>1. RunnerInit => HeldAlive
  BY NoneAssumption DEF RunnerInit, Init, HeldAlive
<1>2. TypeOK /\ TaskInv /\ OwnerOnlyWhileOpen /\ HeldAlive /\ [Recorded(RunnerNext)]_vars
      => HeldAlive' /\ [stalls = 0 =>
            \A r \in Runners : runner = r /\ pc[r] \in Holding =>
                runner' = r \/ pc'[r] \notin Holding \/ status' = "PAUSED"]_vars
  BY HolderStep
<1> QED
  BY <1>1, <1>2, RunnerIsService, TasksCorrect, OwnerCorrect, PTL DEF RunnerSpec, HolderKeepsDraft
-----------------------------------------------------------------------------
(* Hidden picks.  While the owner of the draft decides, nothing is hidden. *)

RevealInv ==
    /\ \A m, n \in Pending : m = n
    /\ \A r \in Runners : runner = r /\ pc[r] \in Deciding => Pending = {}

\* Adding the next row hides nothing.
LEMMA EnsureHides ==
    ASSUME NEW pk, pk \in [PickNumbers -> PickRows], NEW n \in PickNumbers,
           picks' = EnsureRow(pk, n)
    PROVE  \A m \in PickNumbers : picks'[m].state = "REVEAL_PENDING" => picks'[m] = pk[m]
BY FreshRows DEF EnsureRow

\* A selection hides its own pick at most.
LEMMA MakePickHides ==
    ASSUME TypeOK, NEW n \in PickNumbers, NEW r, NEW p \in Players, NEW s \in MadeStates,
           MakePick(DraftRow, n, r, p, s)
    PROVE  /\ Pending' \subseteq Pending \cup {n}
           /\ s = "REVEALED" => Pending' \subseteq Pending
<1> DEFINE made == [RowOf(n) EXCEPT !.player = p, !.state = s]
<1> DEFINE board == [picks EXCEPT ![n] = made]
<1>1. made \in PickRows /\ made.state = s
  BY WriteRowType, RowOfType DEF PickRows
<1>2. /\ board \in [PickNumbers -> PickRows]
      /\ board[n].state = s
      /\ \A m \in PickNumbers \ {n} : board[m] = picks[m]
  BY <1>1 DEF TypeOK
<1>3. \A m \in PickNumbers : picks'[m].state = "REVEAL_PENDING" => picks'[m] = board[m]
  <2>1. CASE picks' = board
    BY <2>1
  <2>2. CASE n < Total /\ picks' = EnsureRow(board, n + 1)
    <3>1. n + 1 \in PickNumbers
      BY <2>2, TotalType DEF PickNumbers
    <3> HIDE DEF board
    <3> QED
      BY <1>2, <2>2, <3>1, EnsureHides
  <2> QED
    BY <2>1, <2>2 DEF MakePick
<1> QED
  BY <1>2, <1>3 DEF Pending

\* Nothing is hidden but by a task that commits its turn.
LEMMA PendingStep ==
    ASSUME TypeOK, TaskInv, RunnerNext
    PROVE  \/ Pending' \subseteq Pending
           \/ \E r \in Runners : Commit(r) /\ Pending' \subseteq Pending \cup {turn[r]}
<1> DEFINE Shrinks == Pending' \subseteq Pending
<1>0. current \in PickNumbers /\ picks \in [PickNumbers -> PickRows]
  BY DEF TypeOK
<1>1. UNCHANGED picks => Shrinks
  BY DEF Pending
<1>2. picks' = EnsureRow(picks, current) => Shrinks
  BY <1>0, EnsureHides DEF Pending
<1>3. ASSUME NEW st \in OpenStates,
             picks' = [picks EXCEPT ![current] = [RowOf(current) EXCEPT !.state = st]]
      PROVE  Shrinks
  BY <1>0, <1>3, RowOfType DEF Pending, PickRows, OpenStates
<1>4. CASE AsyncEndpoint
  <2>1. ASSUME NEW p \in Players, AdminPick(DraftRow, p) PROVE Shrinks
    <3>1. MakePick(DraftRow, current, None, p, "REVEALED")
      BY <2>1 DEF AdminPick, DraftRow
    <3> QED
      BY <1>0, <3>1, MakePickHides DEF MadeStates
  <2> QED
    BY <1>2, <1>4, <2>1 DEF AsyncEndpoint, Start, Resume
<1>5. CASE ThreadEndpoint
  <2>1. CASE UndoLastPick(DraftRow)
    <3>1. PICK n \in PickNumbers : picks' = [picks EXCEPT ![n] = EmptiedRow(picks[n])]
      BY <2>1 DEF UndoLastPick
    <3>2. picks'[n].state = "WAITING_FOR_MANAGER" /\ \A m \in PickNumbers \ {n} : picks'[m] = picks[m]
      BY <1>0, <3>1 DEF EmptiedRow, PickRows
    <3> QED
      BY <3>2 DEF Pending
  <2> QED
    BY <1>1, <1>5, <2>1 DEF ThreadEndpoint, SetOrder, Pause, LockLeague, UnlockLeague
<1>6. ASSUME NEW r \in Runners, Reveal(r) PROVE Shrinks
  BY <1>0, <1>6 DEF Reveal, RevealDue, Pending, PickRows
<1>7. ASSUME NEW r \in Runners, Think(r) PROVE Shrinks
  BY <1>1, <1>3, <1>7 DEF Think, MarkThinking, OpenStates, serviceVars
<1>8. ASSUME NEW r \in Runners, Fail(r) PROVE Shrinks
  BY <1>1, <1>3, <1>8 DEF Fail, MarkFailed, OpenStates, serviceVars
<1>9. ASSUME NEW r \in Runners, Commit(r) PROVE Pending' \subseteq Pending \cup {turn[r]}
  <2>1. turn[r] \in PickNumbers /\ choice[r] \in Players
    BY <1>9 DEF Commit, Step, TaskInv
  <2> QED
    BY <1>9, <2>1, MakePickHides DEF Commit, RunnerPick, MadeStates
<1>10. ASSUME NEW r \in Runners, Claim(r) \/ Release(r) PROVE Shrinks
  BY <1>1, <1>10 DEF Claim, ClaimLease, Release, ReleaseLease, serviceVars
<1>11. ASSUME NEW r \in Runners, BeginIteration(r) \/ BeginAttempt(r) \/ AskingBeat(r) PROVE Shrinks
  BY <1>1, <1>11 DEF BeginIteration, BeginAttempt, AskingBeat, BeatOrLeave, Heartbeat, serviceVars
<1>12. ASSUME NEW r \in Runners,
             Boot(r) \/ StartTask(r) \/ Crash(r) \/ Stop(r) \/ Answer(r) \/ AnswerFails(r)
                \/ CommitRefused(r)
      PROVE  Shrinks
  BY <1>1, <1>12 DEF Boot, StartTask, Crash, Stop, Answer, AnswerFails, CommitRefused, serviceVars
<1>13. CASE LeaseLapses
  BY <1>1, <1>13 DEF LeaseLapses, LeaseExpires
<1>14. CASE Outside
  BY <1>4, <1>5, <1>14 DEF Outside
<1> QED
  BY <1>6, <1>7, <1>8, <1>9, <1>10, <1>11, <1>12, <1>13, <1>14
     DEF RunnerNext, TaskStep, ProcessStep

\* A task begins to decide when all picks are revealed.
LEMMA DecideStep ==
    ASSUME TaskInv, RunnerNext, NEW r \in Runners, pc'[r] \in Deciding, pc[r] \notin Deciding
    PROVE  Pending' = {}
<1>0. \A u \in Runners : \A step : Goto(u, step) => pc'[r] = IF u = r THEN step ELSE pc[r]
  BY DEF Goto, TaskInv
<1> USE DEF Deciding
<1>1. ASSUME NEW u \in Runners, TaskStep(u) \/ ProcessStep(u) PROVE Reveal(u) /\ Pending' = {}
  <2>1. Boot(u) \/ StartTask(u) => FALSE
    BY <1>0 DEF Boot, StartTask, Step
  <2>2. Crash(u) \/ Stop(u) => FALSE
    BY <1>0 DEF Crash, Stop
  <2>3. Claim(u) \/ Release(u) => FALSE
    BY <1>0 DEF Claim, Release, Step
  <2>4. BeginIteration(u) \/ BeginAttempt(u) \/ AskingBeat(u) => FALSE
    BY <1>0 DEF BeginIteration, BeginAttempt, AskingBeat, BeatOrLeave, Step
  <2>5. Think(u) => FALSE
    BY <1>0 DEF Think, Step
  <2>6. Answer(u) \/ AnswerFails(u) \/ CommitRefused(u) => FALSE
    BY <1>0 DEF Answer, AnswerFails, CommitRefused, NextAttempt, Step
  <2>7. Fail(u) \/ Commit(u) => FALSE
    BY <1>0 DEF Fail, Commit, Step
  <2>8. Reveal(u) => Pending' = {}
    BY <1>0 DEF Reveal
  <2> QED
    BY <1>1, <2>1, <2>2, <2>3, <2>4, <2>5, <2>6, <2>7, <2>8 DEF TaskStep, ProcessStep
<1>2. ~LeaseLapses
  BY DEF LeaseLapses, taskVars
<1>3. ~Outside
  BY <1>0 DEF Outside
<1> QED
  BY <1>1, <1>2, <1>3 DEF RunnerNext

LEMMA RevealStep ==
    ASSUME TypeOK, TaskInv, RevealInv, [Recorded(RunnerNext)]_vars
    PROVE  RevealInv'
<1>1. CASE UNCHANGED vars
  BY <1>1 DEF vars, serviceVars, leaseVars, runnerVars, taskVars, RevealInv, Pending
<1> SUFFICES ASSUME RunnerNext PROVE RevealInv'
  BY <1>1 DEF Recorded
<1>2. ASSUME NEW r \in Runners, Commit(r) PROVE runner = r /\ Pending = {} /\ pc'[r] = "loop"
  <2>1. runner = r
    BY <1>2, NoneAssumption DEF Commit, RunnerPick, MakePick, TurnIsExpected
  <2> QED
    BY <1>2, <2>1 DEF Commit, Step, Goto, TaskInv, RevealInv, Deciding
<1>3. \A m, n \in Pending' : m = n
  BY <1>2, PendingStep DEF RevealInv
<1>4. ASSUME NEW r \in Runners, runner' = r, pc'[r] \in Deciding PROVE Pending' = {}
  <2>1. CASE pc[r] \notin Deciding
    BY <1>4, <2>1, DecideStep
  <2>2. CASE pc[r] \in Deciding
    <3>1. ~Claim(r)
      BY <1>4 DEF Claim, Goto, TaskInv, Deciding
    <3>2. runner = r
      BY <1>4, <3>1, Takeover
    <3>3. Pending = {}
      BY <2>2, <3>2 DEF RevealInv
    <3>4. \A u \in Runners : ~Commit(u)
      BY <1>2, <1>4, <3>2 DEF Deciding
    <3> QED
      BY <3>3, <3>4, PendingStep
  <2> QED
    BY <2>1, <2>2
<1> QED
  BY <1>3, <1>4 DEF RevealInv

LEMMA RevealCorrect == RunnerSpec => []RevealInv
<1>1. RunnerInit => RevealInv
  BY DEF RunnerInit, Init, RevealInv, Pending, NoRow
<1> QED
  BY <1>1, RevealStep, TasksCorrect, PTL DEF RunnerSpec

LEMMA AtMostOne == RevealInv => OnePendingReveal
<1> SUFFICES ASSUME RevealInv PROVE Cardinality(Pending) <= 1
  BY DEF OnePendingReveal
<1>1. CASE Pending = {}
  BY <1>1, FS_EmptySet
<1>2. CASE \E n : n \in Pending
  <2>1. PICK n : Pending = {n}
    BY <1>2 DEF RevealInv
  <2> QED
    BY <2>1, FS_Singleton
<1> QED
  BY <1>1, <1>2

\* Processes and tasks keep to their values, and no manager is asked for a selection
\* while the previous one is still hidden, through crashes, takeovers and undos.
THEOREM RunnerCorrect == RunnerSpec => []RunnerConsistent
<1>1. TypeOK /\ TaskInv => RunnerTypeOK
  BY DEF TaskInv, RunnerTypeOK
<1> QED
  BY <1>1, TasksCorrect, RevealCorrect, AtMostOne, PTL DEF RunnerConsistent
=============================================================================
