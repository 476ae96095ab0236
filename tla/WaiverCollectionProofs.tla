------------------------ MODULE WaiverCollectionProofs ------------------------
(***************************************************************************)
(* Theorems about WaiverCollection for every set of teams, every number of *)
(* attempts and every number of faults.                                    *)
(***************************************************************************)
EXTENDS WaiverCollection, TLAPS

\* Taking a job keeps the type of its row, and claims the next attempt if any.
LEMMA ClaimedType ==
    ASSUME NEW j \in Jobs
    PROVE  /\ Claimed(j) \in Jobs
           /\ Claimed(j) = j \/ (/\ j.attempt < MaxAttempts /\ j.status # "COMPLETE"
                                 /\ Claimed(j).attempt = j.attempt + 1
                                 /\ Claimed(j).status = "RUNNING"
                                 /\ Claimed(j).results = j.results)
<1>1. CASE Claimable(j)
  <2>1. j.attempt + 1 \in 0..MaxAttempts /\ j.attempt < MaxAttempts /\ j.status # "COMPLETE"
    BY <1>1, CollectionAssumption DEF Claimable, Jobs
  <2>2. ASSUME NEW n \in 0..MaxAttempts
        PROVE  LET c == [j EXCEPT !.status = "RUNNING", !.attempt = n,
                                  !.lease = "live", !.retry = "later"]
               IN  c \in Jobs /\ c.attempt = n /\ c.status = "RUNNING" /\ c.results = j.results
    BY DEF Jobs
  <2> QED
    BY <1>1, <2>1, <2>2 DEF Claimed
<1>2. CASE ~Claimable(j)
  BY <1>2 DEF Claimed
<1> QED
  BY <1>1, <1>2

\* Writing one entry of a table of the attempts' reviews keeps its type.
LEMMA EntryType ==
    ASSUME NEW S, NEW f \in [Attempts -> [Teams -> S]],
           NEW k \in Attempts, NEW t \in Teams, NEW s \in S
    PROVE  [f EXCEPT ![k][t] = s] \in [Attempts -> [Teams -> S]]
OBVIOUS

LEMMA RecoveredType == ASSUME job \in Jobs PROVE Recovered \in Jobs
BY ClaimedType DEF Recovered

LEMMA TimedOutType == ASSUME NEW j \in Jobs PROVE TimedOut(j) \in Jobs
BY DEF TimedOut, Jobs

\* Every submission leaves a well-formed list of claims.
LEMMA ReplacesType ==
    ASSUME TypeOK, NEW t \in Teams, Replaces(t) PROVE claims' \in [Teams -> ClaimLists]
BY DEF TypeOK, Replaces, ClaimLists

LEMMA DecidedType == ASSUME TypeOK PROVE Decided \in [Teams -> ClaimLists]
BY DEF TypeOK, Decided, ClaimLists

LEMMA TypeStep == TypeOK /\ [Next]_vars => TypeOK'
<1> SUFFICES ASSUME TypeOK, [Next]_vars PROVE TypeOK'
  OBVIOUS
<1> USE CollectionAssumption DEF TypeOK, rowVars
<1>1. CASE Tick
  <2>1. Recovered \in Jobs /\ Claimed(Recovered) \in Jobs /\ TimedOut(Recovered) \in Jobs
    BY RecoveredType, ClaimedType, TimedOutType
  <2>2. pc' \in [Attempts -> Places]
    BY <1>1 DEF Tick, EndPeriod, Collect, CreateTasks, Places
  <2>3. CASE EndPeriod
    BY <1>1, <2>1, <2>2, <2>3, DecidedType DEF Tick, EndPeriod, Process
  <2>4. CASE Collect
    BY <1>1, <2>1, <2>2, <2>4 DEF Tick, Collect
  <2> QED
    BY <1>1, <2>3, <2>4 DEF Tick
<1>2. ASSUME NEW k \in Attempts, Begin(k) PROVE TypeOK'
  <2>1. job.results \in [Teams -> Results]
    BY DEF Jobs
  <2>2. pc' \in [Attempts -> Places] /\ seen' \in [Attempts -> [Teams -> Results]]
    BY <1>2, <2>1 DEF Begin, Places
  <2> QED
    BY <1>2, <2>2 DEF Begin
<1>3. ASSUME NEW k \in Attempts, Gather(k) PROVE TypeOK'
  <2>1. ask' \in [Attempts -> [Teams -> Steps]]
    BY <1>3 DEF Gather, Steps
  <2>2. PICK place \in Places : pc' = [pc EXCEPT ![k] = place]
    BY <1>3 DEF Gather, Places
  <2>3. pc' \in [Attempts -> Places]
    BY <2>2
  <2>4. early' \subseteq Attempts \cup {Admin}
    BY <1>3 DEF Gather
  <2> QED
    BY <1>3, <2>1, <2>3, <2>4 DEF Gather
<1>4. ASSUME NEW k \in Attempts, Finish(k) PROVE TypeOK'
  <2>1. PICK status \in {"COMPLETE", "FAILED"}, results \in {seen[k], job.results} :
           Ends(k, status, results)
    BY <1>4 DEF Finish
  <2>2. results \in [Teams -> Results]
    BY DEF Jobs
  <2>3. job' \in Jobs
    BY <2>1, <2>2 DEF Ends, Jobs
  <2>4. NoResults \in [Teams -> Results]
    BY DEF NoResults, Results
  <2>5. pc' \in [Attempts -> Places] /\ seen' \in [Attempts -> [Teams -> Results]]
    BY <2>1, <2>4 DEF Ends, Places
  <2> QED
    BY <2>1, <2>3, <2>5 DEF Ends
<1>5. ASSUME NEW k \in Attempts, Heartbeat(k) PROVE TypeOK'
  <2>1. NotAsking \in [Teams -> Steps]
    BY DEF NotAsking, Steps
  <2>2. job' \in Jobs
    BY <1>5 DEF Heartbeat, Jobs
  <2>3. pc' \in [Attempts -> Places] /\ ask' \in [Attempts -> [Teams -> Steps]]
    BY <1>5, <2>1 DEF Heartbeat, Places
  <2> QED
    BY <1>5, <2>2, <2>3 DEF Heartbeat
<1>6. ASSUME NEW k \in Attempts, NEW t \in Teams, Answer(k, t) PROVE TypeOK'
  <2>1. PICK s \in Steps : ask' = [ask EXCEPT ![k][t] = s]
    BY <1>6 DEF Answer, Review, Steps
  <2> QED
    BY <1>6, <2>1, EntryType DEF Answer, Review
<1>7. ASSUME NEW k \in Attempts, NEW t \in Teams, Submit(k, t) PROVE TypeOK'
  <2>1. claims' \in [Teams -> ClaimLists]
    BY <1>7, ReplacesType DEF Submit
  <2>2. PICK s \in Steps : ask' = [ask EXCEPT ![k][t] = s]
    BY <1>7 DEF Submit, Review, Steps
  <2> QED
    BY <1>7, <2>1, <2>2, EntryType DEF Submit, Review
<1>8. ASSUME NEW k \in Attempts, NEW t \in Teams, Record(k, t) PROVE TypeOK'
  <2>1. Result(k, t) \in Results
    BY DEF Result, Results
  <2>2. ASSUME NEW r \in Results PROVE [job EXCEPT !.results[t] = r] \in Jobs
    <3>1. [job.results EXCEPT ![t] = r] \in [Teams -> Results]
      BY DEF Jobs
    <3>2. [job EXCEPT !.results[t] = r] = [job EXCEPT !.results = [job.results EXCEPT ![t] = r]]
      BY DEF Jobs
    <3> QED
      BY <3>1, <3>2 DEF Jobs
  <2>3. job' \in Jobs /\ seen' \in [Attempts -> [Teams -> Results]]
    <3>1. CASE Current(k)
      <4>1. /\ job' = [job EXCEPT !.results[t] = Result(k, t)]
            /\ seen' = [seen EXCEPT ![k][t] = Result(k, t)]
        BY <1>8, <3>1 DEF Record
      <4>2. [seen EXCEPT ![k][t] = Result(k, t)] \in [Attempts -> [Teams -> Results]]
        BY <2>1, EntryType
      <4> QED
        BY <2>1, <2>2, <4>1, <4>2
    <3>2. CASE ~Current(k)
      BY <1>8, <3>2 DEF Record
    <3> QED
      BY <3>1, <3>2
  <2>4. "idle" \in Steps
    BY DEF Steps
  <2>5. ask' \in [Attempts -> [Teams -> Steps]]
    BY <1>8, <2>4, EntryType DEF Record
  <2>6. pc' \in [Attempts -> Places]
    BY <1>8 DEF Record, GatherRaises, Places
  <2> QED
    BY <1>8, <2>3, <2>5, <2>6 DEF Record
<1>9. ASSUME NEW k \in Attempts, NEW t \in Teams, RecordFails(k, t) PROVE TypeOK'
  <2>1. "idle" \in Steps
    BY DEF Steps
  <2>2. ask' \in [Attempts -> [Teams -> Steps]]
    BY <1>9, <2>1, EntryType DEF RecordFails
  <2>3. pc' \in [Attempts -> Places]
    BY <1>9 DEF RecordFails, GatherRaises, Places
  <2> QED
    BY <1>9, <2>2, <2>3 DEF RecordFails
<1>10. ASSUME NEW t \in Teams, LoadSubmission(t) PROVE TypeOK'
  BY <1>10 DEF LoadSubmission, taskVars
<1>11. ASSUME NEW t \in Teams, SubmitByHand(t) PROVE TypeOK'
  <2>1. claims' \in [Teams -> ClaimLists]
    BY <1>11, ReplacesType DEF SubmitByHand
  <2> QED
    BY <1>11, <2>1 DEF SubmitByHand, taskVars
<1>12. CASE LoadProcess
  BY <1>12 DEF LoadProcess, taskVars
<1>13. CASE ProcessByHand
  BY <1>13, DecidedType DEF ProcessByHand, Process, taskVars
<1>14. CASE SetLock
  BY <1>14 DEF SetLock, taskVars
<1>15. CASE ClockMoves
  BY <1>15 DEF ClockMoves, taskVars
<1>16. CASE LeaseLapses \/ Stall \/ RetryFallsDue
  <2>1. job' \in Jobs
    BY <1>16 DEF LeaseLapses, Stall, RetryFallsDue, Jobs
  <2> QED
    BY <1>16, <2>1 DEF LeaseLapses, Stall, RetryFallsDue, taskVars
<1>17. CASE Crash \/ Shutdown
  <2>1. NoResults \in [Teams -> Results] /\ NotAsking \in [Teams -> Steps]
    BY DEF NoResults, NotAsking, Results, Steps
  <2>2. job' \in Jobs
    BY <1>17 DEF Crash, Shutdown, Jobs
  <2>3. pc' \in [Attempts -> Places]
    BY <1>17 DEF Crash, Shutdown, ProcessEnds, Places
  <2>4. /\ up' = FALSE /\ ask' = [k \in Attempts |-> NotAsking] /\ early' = {}
        /\ seen' = [k \in Attempts |-> NoResults] /\ submitting' = {} /\ processing' = FALSE
        /\ UNCHANGED <<locked, clock, period, key, claims, faults>>
    BY <1>17 DEF Crash, Shutdown, ProcessEnds
  <2> QED
    BY <2>1, <2>2, <2>3, <2>4
<1>18. CASE Boot
  BY <1>18 DEF Boot, taskVars
<1>19. CASE CollectByHand
  BY <1>19 DEF CollectByHand
<1>20. CASE UNCHANGED vars
  BY <1>20 DEF vars, taskVars
<1> QED
  BY <1>1, <1>2, <1>3, <1>4, <1>5, <1>6, <1>7, <1>8, <1>9, <1>10, <1>11, <1>12, <1>13,
     <1>14, <1>15, <1>16, <1>17, <1>18, <1>19, <1>20
  DEF Next, TaskStep, ReviewStep, ByHand

LEMMA TypeInit == Init => TypeOK
<1> SUFFICES ASSUME Init PROVE TypeOK
  OBVIOUS
<1>1. NoResults \in [Teams -> Results] /\ NotAsking \in [Teams -> Steps] /\ "none" \in Places
  BY DEF NoResults, NotAsking, Results, Steps, Places
<1>2. "NONE" \in ClaimLists
  BY DEF ClaimLists
<1>3. job \in Jobs
  BY <1>1, CollectionAssumption DEF Init, Jobs
<1>4. /\ claims \in [Teams -> ClaimLists] /\ pc \in [Attempts -> Places]
      /\ seen \in [Attempts -> [Teams -> Results]] /\ ask \in [Attempts -> [Teams -> Steps]]
  BY <1>1, <1>2 DEF Init
<1>5. faults \in 0..MaxFaults
  BY CollectionAssumption DEF Init
<1> QED
  BY <1>3, <1>4, <1>5 DEF Init, TypeOK

\* Every row and every task keeps to its type, and no job is attempted more
\* often than job_max_attempts.
THEOREM CollectionTypes == Spec => []TypeOK
BY TypeInit, TypeStep, PTL DEF Spec
-----------------------------------------------------------------------------
(* The checkpoints.  A step of an attempt may write the job row only while *)
(* the attempt is current, and what it then knows is what the row says.    *)

\* A current attempt at work knows every checkpoint,
UpToDate ==
    \A k \in Attempts :
        Current(k) /\ pc[k] \in {"begun", "gathering"} => seen[k] = job.results

\* no attempt asks before it gathers or is created before it is claimed,
NotYetAsking ==
    \A k \in Attempts :
        /\ k > job.attempt => pc[k] = "none"
        /\ pc[k] \in {"none", "created", "begun"} => \A t \in Teams : ask[k][t] = "idle"

\* a manager who is not being asked has been heard,
Heard ==
    \A k \in Attempts, t \in Teams :
        Current(k) /\ pc[k] = "gathering" /\ ask[k][t] = "idle" => job.results[t] # "NONE"

\* and only the end of the period makes an attempt end without asking.
ClosedMeansProcessed == \A k \in Attempts : pc[k] = "closed" => period = "PROCESSED"

ProgressInv ==
    UpToDate /\ NotYetAsking /\ Heard /\ ClosedMeansProcessed /\ DoneAreSkipped
             /\ CompleteMeansCollected

\* What a review has submitted, or has checkpointed as done, is there.
SubmissionInv ==
    /\ \A k \in Attempts, t \in Teams : ask[k][t] = "submitted" => claims[t] # "NONE"
    /\ CheckpointsAreTrue

\* Steps that concern neither the attempts nor what their job says of them.
Quiet ==
    /\ UNCHANGED <<pc, seen, ask>>
    /\ job'.status = job.status /\ job'.attempt = job.attempt /\ job'.results = job.results
    /\ period' = period \/ period' = "PROCESSED"

LEMMA QuietSteps ==
    ASSUME TypeOK,
           \/ ByHand \/ LoadProcess \/ ProcessByHand \/ SetLock \/ ClockMoves
           \/ LeaseLapses \/ Stall \/ RetryFallsDue \/ Boot \/ UNCHANGED vars
    PROVE  Quiet
<1> USE DEF Quiet, rowVars, taskVars
<1>1. CASE LeaseLapses \/ Stall \/ RetryFallsDue
  BY <1>1 DEF TypeOK, Jobs, LeaseLapses, Stall, RetryFallsDue
<1>2. CASE ByHand
  BY <1>2 DEF ByHand, CollectByHand, LoadSubmission, SubmitByHand
<1>3. CASE LoadProcess \/ ProcessByHand \/ SetLock \/ ClockMoves \/ Boot \/ UNCHANGED vars
  BY <1>3 DEF LoadProcess, ProcessByHand, Process, SetLock, ClockMoves, Boot, vars
<1> QED
  BY <1>1, <1>2, <1>3

LEMMA QuietKeepsProgress == ProgressInv /\ Quiet => ProgressInv'
BY DEF ProgressInv, UpToDate, NotYetAsking, Heard, ClosedMeansProcessed, DoneAreSkipped,
       CompleteMeansCollected, Current, Quiet

\* A tick leaves the checkpoints and the attempts as they are, except that it
\* may claim the next attempt, and a job it ends belongs to a processed period.
LEMMA TickEffect ==
    ASSUME TypeOK, Tick
    PROVE  /\ job'.results = job.results /\ UNCHANGED <<seen, ask>>
           /\ period' = period \/ period' = "PROCESSED"
           /\ \/ UNCHANGED pc /\ job'.attempt = job.attempt
              \/ /\ job'.attempt = job.attempt + 1
                 /\ pc' = [k \in Attempts |-> IF k = job.attempt + 1 THEN "created" ELSE pc[k]]
           /\ job'.attempt = job.attempt /\ job'.status # "COMPLETE" => job'.status = job.status
           /\ job'.status = "COMPLETE" => job.status = "COMPLETE" \/ period' = "PROCESSED"
<1>1. job \in Jobs /\ job.attempt \in Nat
  BY CollectionAssumption DEF TypeOK, Jobs
<1>2. /\ Recovered \in Jobs /\ Recovered.results = job.results
      /\ Recovered = job \/ (Recovered.attempt = job.attempt + 1 /\ Recovered.status = "RUNNING")
  BY <1>1, ClaimedType DEF Recovered
<1>3. CASE EndPeriod
  <2>1. /\ TimedOut(Recovered).results = Recovered.results
        /\ TimedOut(Recovered).attempt = Recovered.attempt
        /\ TimedOut(Recovered).status \in {Recovered.status, "COMPLETE"}
    BY <1>2 DEF TimedOut, Jobs
  <2>2. period' = "PROCESSED" /\ job' = TimedOut(Recovered) /\ UNCHANGED <<seen, ask>>
    BY <1>3 DEF Tick, EndPeriod, Process
  <2>3. pc' = [k \in Attempts |-> IF job.attempt < k /\ k <= Recovered.attempt
                                  THEN "created" ELSE pc[k]]
    BY <1>3 DEF EndPeriod, CreateTasks
  <2>4. CASE Recovered = job
    BY <1>1, <2>1, <2>2, <2>3, <2>4 DEF TypeOK, Attempts
  <2>5. CASE Recovered.attempt = job.attempt + 1 /\ Recovered.status = "RUNNING"
    BY <1>1, <1>2, <2>1, <2>2, <2>3, <2>5 DEF Attempts
  <2> QED
    BY <1>2, <2>4, <2>5
<1>4. CASE Collect
  <2>1. job' = Recovered \/ job' = Claimed(Recovered)
    BY <1>4 DEF Collect
  <2>2. Claimed(Recovered) = Recovered \/ Recovered = job
    BY <1>2, ClaimedType DEF Recovered, Claimed, Claimable, Jobs
  <2>3. /\ job'.results = job.results
        /\ job' = job \/ (job'.attempt = job.attempt + 1 /\ job'.status = "RUNNING")
    BY <1>1, <1>2, <2>1, <2>2, ClaimedType
  <2>4. UNCHANGED <<period, seen, ask>>
    BY <1>4 DEF Tick, Collect
  <2>5. pc' = [k \in Attempts |-> IF job.attempt < k /\ k <= job'.attempt
                                  THEN "created" ELSE pc[k]]
    BY <1>4 DEF Collect, CreateTasks
  <2>6. CASE job' = job
    BY <1>1, <2>4, <2>5, <2>6 DEF TypeOK, Attempts
  <2>7. CASE job'.attempt = job.attempt + 1 /\ job'.status = "RUNNING"
    BY <1>1, <2>3, <2>4, <2>5, <2>7 DEF Attempts
  <2> QED
    BY <2>3, <2>6, <2>7
<1> QED
  BY <1>3, <1>4 DEF Tick

LEMMA TickKeepsProgress == ASSUME TypeOK, ProgressInv, Tick PROVE ProgressInv'
<1> DEFINE a == job.attempt
<1>1. /\ job'.results = job.results /\ UNCHANGED <<seen, ask>>
      /\ period' = period \/ period' = "PROCESSED"
      /\ \/ UNCHANGED pc /\ job'.attempt = a
         \/ /\ job'.attempt = a + 1
            /\ pc' = [k \in Attempts |-> IF k = a + 1 THEN "created" ELSE pc[k]]
      /\ job'.attempt = a /\ job'.status # "COMPLETE" => job'.status = job.status
      /\ job'.status = "COMPLETE" => job.status = "COMPLETE" \/ period' = "PROCESSED"
  BY TickEffect
<1>2. a \in Nat
  BY CollectionAssumption DEF TypeOK, Jobs
<1>3. ASSUME NEW k \in Attempts, Current(k)'
      PROVE  (Current(k) /\ pc'[k] = pc[k]) \/ pc'[k] = "created"
  BY <1>1, <1>2, <1>3 DEF Current, Attempts
<1>4. UpToDate' /\ Heard'
  BY <1>1, <1>3 DEF ProgressInv, UpToDate, Heard
<1>5. ASSUME NEW k \in Attempts
      PROVE  /\ k > job'.attempt => pc'[k] = "none"
             /\ pc'[k] \in {"none", "created", "begun"} => \A t \in Teams : ask'[k][t] = "idle"
  <2>1. /\ k > a => pc[k] = "none"
        /\ pc[k] \in {"none", "created", "begun"} => \A t \in Teams : ask[k][t] = "idle"
    BY DEF ProgressInv, NotYetAsking
  <2>2. CASE UNCHANGED pc /\ job'.attempt = a
    BY <1>1, <2>1, <2>2
  <2>3. CASE job'.attempt = a + 1 /\ pc' = [l \in Attempts |-> IF l = a + 1 THEN "created" ELSE pc[l]]
    <3>1. k \in Nat /\ pc'[k] = IF k = a + 1 THEN "created" ELSE pc[k]
      BY <2>3, CollectionAssumption DEF Attempts
    <3> HIDE DEF a
    <3>2. k > a + 1 => k > a /\ k # a + 1
      BY <3>1, <1>2
    <3>3. k = a + 1 => k > a
      BY <3>1, <1>2
    <3> QED
      BY <1>1, <2>1, <2>3, <3>1, <3>2, <3>3
  <2> QED
    BY <1>1, <2>2, <2>3
<1>6. ClosedMeansProcessed'
  BY <1>1 DEF ProgressInv, ClosedMeansProcessed
<1>7. DoneAreSkipped'
  BY <1>1, <1>3, <1>5 DEF ProgressInv, DoneAreSkipped, NotYetAsking
<1>8. CompleteMeansCollected'
  BY <1>1 DEF ProgressInv, CompleteMeansCollected
<1> QED
  BY <1>4, <1>5, <1>6, <1>7, <1>8 DEF ProgressInv, NotYetAsking

\* The checkpoint of a current attempt goes to the row and to what it knows.
LEMMA RecordEffect ==
    ASSUME TypeOK, NEW k \in Attempts, NEW t \in Teams, Record(k, t), Current(k)
    PROVE  /\ UNCHANGED <<pc, period>>
           /\ job'.status = job.status /\ job'.attempt = job.attempt
           /\ \A u \in Teams : job'.results[u] = IF u = t THEN Result(k, t) ELSE job.results[u]
           /\ job'.results \in [Teams -> Results]
           /\ seen'[k] = [seen[k] EXCEPT ![t] = Result(k, t)]
           /\ \A l \in Attempts \ {k} : seen'[l] = seen[l]
           /\ job'.results = [job.results EXCEPT ![t] = Result(k, t)]
<1>1. /\ job' = [job EXCEPT !.results[t] = Result(k, t)]
      /\ seen' = [seen EXCEPT ![k][t] = Result(k, t)]
      /\ UNCHANGED <<pc, period>>
  BY DEF Record, rowVars
<1>2. job \in Jobs /\ seen \in [Attempts -> [Teams -> Results]] /\ Result(k, t) \in Results
  BY DEF TypeOK, Result, Results
<1>3. /\ job'.status = job.status /\ job'.attempt = job.attempt
      /\ job'.results = [job.results EXCEPT ![t] = Result(k, t)]
      /\ job.results \in [Teams -> Results]
  BY <1>1, <1>2 DEF Jobs
<1>4. /\ seen'[k] = [seen[k] EXCEPT ![t] = Result(k, t)]
      /\ \A l \in Attempts \ {k} : seen'[l] = seen[l]
  BY <1>1, <1>2
<1> QED
  BY <1>1, <1>2, <1>3, <1>4

LEMMA RecordKeepsProgress ==
    ASSUME TypeOK, ProgressInv, NEW k \in Attempts, NEW t \in Teams, Record(k, t)
    PROVE  ProgressInv'
<1>1. /\ ask' = [ask EXCEPT ![k][t] = "idle"] /\ ask \in [Attempts -> [Teams -> Steps]]
      /\ ask[k][t] # "idle" /\ period' = period
  BY DEF TypeOK, Record, rowVars
<1>2. \A l \in Attempts, u \in Teams :
         ask'[l][u] = IF l = k /\ u = t THEN "idle" ELSE ask[l][u]
  BY <1>1
<1>3. CASE Current(k)
  <2>1. /\ UNCHANGED <<pc, period>>
        /\ job'.status = job.status /\ job'.attempt = job.attempt
        /\ \A u \in Teams : job'.results[u] = IF u = t THEN Result(k, t) ELSE job.results[u]
        /\ seen'[k] = [seen[k] EXCEPT ![t] = Result(k, t)]
        /\ job'.results = [job.results EXCEPT ![t] = Result(k, t)]
    BY <1>3, RecordEffect
  <2>2. \A l \in Attempts : Current(l)' => l = k
    BY <1>3, <2>1 DEF Current
  <2>3. UpToDate' /\ ClosedMeansProcessed' /\ CompleteMeansCollected'
    BY <1>1, <1>3, <2>1, <2>2
    DEF ProgressInv, UpToDate, ClosedMeansProcessed, CompleteMeansCollected, Current
  <2>4. NotYetAsking'
    BY <1>2, <2>1 DEF ProgressInv, NotYetAsking
  <2>5. Result(k, t) # "NONE"
    BY DEF Result
  <2>6. Heard'
    BY <1>2, <1>3, <2>1, <2>2, <2>5 DEF ProgressInv, Heard
  <2>7. DoneAreSkipped'
    BY <1>2, <1>3, <2>1, <2>2 DEF ProgressInv, DoneAreSkipped
  <2> QED
    BY <2>3, <2>4, <2>6, <2>7 DEF ProgressInv
<1>4. CASE ~Current(k)
  <2>1. /\ UNCHANGED <<job, seen>>
        /\ pc' = [pc EXCEPT ![k] = IF @ = "gathering" THEN "raised" ELSE @]
    BY <1>4 DEF Record, GatherRaises
  <2>2. \A l \in Attempts : pc'[l] = pc[l] \/ (l = k /\ pc[l] = "gathering" /\ pc'[l] = "raised")
    BY <2>1 DEF TypeOK
  <2>3. \A l \in Attempts : Current(l)' => Current(l) /\ l # k
    BY <1>4, <2>1 DEF Current
  <2> QED
    BY <1>1, <1>2, <1>4, <2>1, <2>2, <2>3
    DEF ProgressInv, UpToDate, NotYetAsking, Heard, ClosedMeansProcessed, DoneAreSkipped,
        CompleteMeansCollected
<1> QED
  BY <1>3, <1>4

LEMMA FinishKeepsProgress ==
    ASSUME TypeOK, ProgressInv, NEW k \in Attempts, Finish(k)
    PROVE  ProgressInv' /\ job'.results = job.results
<1>1. UNCHANGED <<period, ask>> /\ pc' = [pc EXCEPT ![k] = "over"]
      /\ seen' = [seen EXCEPT ![k] = NoResults]
  BY DEF Finish, Ends, rowVars
<1>2. \A l \in Attempts : l # k => pc'[l] = pc[l] /\ seen'[l] = seen[l]
  BY <1>1 DEF TypeOK
<1>3. pc'[k] = "over"
  BY <1>1 DEF TypeOK
<1>4. CASE Current(k)
  <2>1. PICK status \in {"COMPLETE", "FAILED"}, results \in {seen[k], job.results} :
           /\ Ends(k, status, results)
           /\ \/ /\ Ended(k) /\ results = seen[k]
                 /\ status = "COMPLETE" => \A t \in Teams : seen[k][t] # "FAILED"
              \/ /\ pc[k] \in {"closed", "raised"} /\ results = job.results
                 /\ status = "COMPLETE" => pc[k] = "closed"
    BY DEF Finish
  <2>2. results = job.results
    BY <1>4, <2>1 DEF Ended, ProgressInv, UpToDate
  <2>3. job'.status = status /\ job'.attempt = job.attempt /\ job'.results = job.results
    BY <1>4, <2>1, <2>2 DEF Ends, TypeOK, Jobs
  <2>4. \A l \in Attempts : ~Current(l)'
    BY <2>1, <2>3 DEF Current
  <2>5. status = "COMPLETE" /\ period = "OPEN" => \A t \in Teams : job.results[t] = "COMPLETE"
    <3>1. CASE Ended(k) /\ results = seen[k] /\ (status = "COMPLETE" => \A t \in Teams : seen[k][t] # "FAILED")
      <4>1. \A t \in Teams : job.results[t] # "NONE"
        BY <1>4, <3>1 DEF Ended, ProgressInv, Heard
      <4>2. \A t \in Teams : job.results[t] \in Results
        BY DEF TypeOK, Jobs
      <4> QED
        BY <2>2, <3>1, <4>1, <4>2 DEF Results
    <3>2. CASE pc[k] \in {"closed", "raised"} /\ (status = "COMPLETE" => pc[k] = "closed")
      BY <3>2 DEF ProgressInv, ClosedMeansProcessed
    <3> QED
      BY <2>1, <3>1, <3>2
  <2>6. UpToDate' /\ Heard' /\ DoneAreSkipped'
    BY <2>4 DEF UpToDate, Heard, DoneAreSkipped
  <2>7. NotYetAsking'
    <3>1. k <= job.attempt /\ k \in Nat /\ job.attempt \in Nat
      BY <1>4, CollectionAssumption DEF Current, Attempts
    <3> QED
      BY <1>1, <1>2, <1>3, <2>3, <3>1 DEF ProgressInv, NotYetAsking
  <2>8. ClosedMeansProcessed' /\ CompleteMeansCollected'
    BY <1>1, <1>2, <1>3, <2>3, <2>5
    DEF ProgressInv, ClosedMeansProcessed, CompleteMeansCollected
  <2> QED
    BY <2>3, <2>6, <2>7, <2>8 DEF ProgressInv
<1>5. CASE ~Current(k)
  <2>1. UNCHANGED job
    BY <1>5 DEF Finish, Ends
  <2>2. \A l \in Attempts : Current(l)' => Current(l) /\ l # k
    BY <1>5, <2>1 DEF Current
  <2>3. pc[k] # "none"
    BY DEF Finish, Ended
  <2>4. NotYetAsking'
    BY <1>1, <1>2, <1>3, <2>1, <2>3 DEF ProgressInv, NotYetAsking
  <2> QED
    BY <1>1, <1>2, <1>3, <2>1, <2>2, <2>4
    DEF ProgressInv, UpToDate, Heard, ClosedMeansProcessed, DoneAreSkipped, CompleteMeansCollected
<1> QED
  BY <1>4, <1>5

LEMMA BeginKeepsProgress ==
    ASSUME TypeOK, ProgressInv, NEW k \in Attempts, Begin(k)
    PROVE  ProgressInv' /\ UNCHANGED job
<1>1. /\ UNCHANGED <<job, ask, period>> /\ pc[k] = "created"
      /\ pc' = [pc EXCEPT ![k] = IF Current(k) THEN "begun" ELSE "raised"]
      /\ seen' = [seen EXCEPT ![k] = IF Current(k) THEN job.results ELSE @]
  BY DEF Begin, rowVars
<1>2. \A l \in Attempts : l # k => pc'[l] = pc[l] /\ seen'[l] = seen[l]
  BY <1>1 DEF TypeOK
<1>3. IF Current(k) THEN pc'[k] = "begun" /\ seen'[k] = job.results ELSE pc'[k] = "raised"
  BY <1>1 DEF TypeOK
<1>4. \A l \in Attempts : Current(l)' <=> Current(l)
  BY <1>1 DEF Current
<1>5. UpToDate' /\ Heard'
  BY <1>1, <1>2, <1>3, <1>4 DEF ProgressInv, UpToDate, Heard
<1>6. NotYetAsking'
  BY <1>1, <1>2, <1>3 DEF ProgressInv, NotYetAsking
<1>7. ClosedMeansProcessed'
  BY <1>1, <1>2, <1>3 DEF ProgressInv, ClosedMeansProcessed
<1>8. DoneAreSkipped' /\ CompleteMeansCollected'
  BY <1>1, <1>4 DEF ProgressInv, DoneAreSkipped, CompleteMeansCollected
<1> QED
  BY <1>1, <1>5, <1>6, <1>7, <1>8 DEF ProgressInv

LEMMA GatherKeepsProgress ==
    ASSUME TypeOK, ProgressInv, NEW k \in Attempts, Gather(k)
    PROVE  ProgressInv' /\ UNCHANGED job
<1>1. UNCHANGED <<job, seen, period>> /\ pc[k] = "begun"
  BY DEF Gather, rowVars
<1>2. \A l \in Attempts : Current(l)' <=> Current(l)
  BY <1>1 DEF Current
<1>3. CASE period = "OPEN" /\ ~locked
  <2>1. /\ pc' = [pc EXCEPT ![k] = "gathering"]
        /\ ask' = [ask EXCEPT ![k] =
                      [t \in Teams |-> IF seen[k][t] = "COMPLETE" THEN "idle" ELSE "asking"]]
    BY <1>3 DEF Gather
  <2>2. /\ pc'[k] = "gathering"
        /\ \A t \in Teams : ask'[k][t] = IF seen[k][t] = "COMPLETE" THEN "idle" ELSE "asking"
        /\ \A l \in Attempts : l # k => pc'[l] = pc[l] /\ ask'[l] = ask[l]
    BY <2>1 DEF TypeOK
  <2>3. Current(k) => seen[k] = job.results
    BY <1>1 DEF ProgressInv, UpToDate
  <2>4. UpToDate' /\ ClosedMeansProcessed' /\ CompleteMeansCollected'
    BY <1>1, <1>2, <2>2, <2>3
    DEF ProgressInv, UpToDate, ClosedMeansProcessed, CompleteMeansCollected
  <2>5. NotYetAsking'
    BY <1>1, <2>2 DEF ProgressInv, NotYetAsking
  <2>6. Heard' /\ DoneAreSkipped'
    BY <1>1, <1>2, <2>2, <2>3 DEF ProgressInv, Heard, DoneAreSkipped
  <2> QED
    BY <1>1, <2>4, <2>5, <2>6 DEF ProgressInv
<1>4. CASE ~(period = "OPEN" /\ ~locked)
  <2>1. /\ pc' = [pc EXCEPT ![k] = IF period = "OPEN" THEN "raised" ELSE "closed"]
        /\ UNCHANGED ask
    BY <1>4 DEF Gather
  <2>2. /\ pc'[k] \in {"raised", "closed"} /\ (pc'[k] = "closed" => period = "PROCESSED")
        /\ \A l \in Attempts : l # k => pc'[l] = pc[l]
    BY <2>1 DEF TypeOK
  <2>3. UpToDate' /\ Heard' /\ ClosedMeansProcessed'
    BY <1>1, <1>2, <2>1, <2>2 DEF ProgressInv, UpToDate, Heard, ClosedMeansProcessed
  <2>4. NotYetAsking' /\ DoneAreSkipped' /\ CompleteMeansCollected'
    BY <1>1, <1>2, <2>1, <2>2
    DEF ProgressInv, NotYetAsking, DoneAreSkipped, CompleteMeansCollected
  <2> QED
    BY <1>1, <2>3, <2>4 DEF ProgressInv
<1> QED
  BY <1>3, <1>4

LEMMA HeartbeatKeepsProgress ==
    ASSUME TypeOK, ProgressInv, NEW k \in Attempts, Heartbeat(k)
    PROVE  ProgressInv' /\ job'.results = job.results
<1>1. CASE Current(k)
  <2>1. Quiet
    BY <1>1 DEF Heartbeat, Quiet, TypeOK, Jobs, rowVars
  <2> QED
    BY <2>1, QuietKeepsProgress DEF Quiet
<1>2. CASE ~Current(k)
  <2>1. /\ UNCHANGED <<job, seen, period>> /\ pc[k] \in {"begun", "gathering"}
        /\ pc' = [pc EXCEPT ![k] = "raised"] /\ ask' = [ask EXCEPT ![k] = NotAsking]
    BY <1>2 DEF Heartbeat, rowVars
  <2>2. /\ pc'[k] = "raised" /\ \A t \in Teams : ask'[k][t] = "idle"
        /\ \A l \in Attempts : l # k => pc'[l] = pc[l] /\ ask'[l] = ask[l]
    BY <2>1 DEF TypeOK, NotAsking
  <2>3. \A l \in Attempts : Current(l)' => Current(l) /\ l # k
    BY <1>2, <2>1 DEF Current
  <2>4. NotYetAsking'
    BY <2>1, <2>2 DEF ProgressInv, NotYetAsking
  <2> QED
    BY <2>1, <2>2, <2>3, <2>4
    DEF ProgressInv, UpToDate, Heard, ClosedMeansProcessed, DoneAreSkipped, CompleteMeansCollected
<1> QED
  BY <1>1, <1>2

\* A review that goes on neither begins nor ends one.
LEMMA ReviewKeepsProgress ==
    ASSUME TypeOK, ProgressInv, NEW k \in Attempts, NEW t \in Teams,
           Answer(k, t) \/ Submit(k, t)
    PROVE  ProgressInv' /\ UNCHANGED job
<1>1. PICK s \in Steps \ {"idle"} : Review(k, t, s)
  BY DEF Answer, Submit, Steps
<1>2. ask[k][t] # "idle" /\ UNCHANGED <<job, pc, seen, period>>
  BY <1>1 DEF Answer, Submit, Review, rowVars
<1>3. \A l \in Attempts, u \in Teams : ask'[l][u] = IF l = k /\ u = t THEN s ELSE ask[l][u]
  BY <1>1 DEF Review, TypeOK
<1>4. s # "idle"
  BY <1>1
<1>5. \A l \in Attempts : Current(l)' <=> Current(l)
  BY <1>2 DEF Current
<1> QED
  BY <1>2, <1>3, <1>4, <1>5
  DEF ProgressInv, UpToDate, NotYetAsking, Heard, ClosedMeansProcessed, DoneAreSkipped,
      CompleteMeansCollected

LEMMA RecordFailsKeepsProgress ==
    ASSUME TypeOK, ProgressInv, NEW k \in Attempts, NEW t \in Teams, RecordFails(k, t)
    PROVE  ProgressInv' /\ UNCHANGED job
<1>1. /\ UNCHANGED <<job, seen, period>> /\ ask[k][t] # "idle"
      /\ pc' = [pc EXCEPT ![k] = IF @ = "gathering" THEN "raised" ELSE @]
      /\ ask' = [ask EXCEPT ![k][t] = "idle"]
  BY DEF RecordFails, GatherRaises, rowVars
<1>2. \A l \in Attempts, u \in Teams : ask'[l][u] = IF l = k /\ u = t THEN "idle" ELSE ask[l][u]
  BY <1>1 DEF TypeOK
<1>3. /\ pc'[k] = IF pc[k] = "gathering" THEN "raised" ELSE pc[k]
      /\ \A l \in Attempts : l # k => pc'[l] = pc[l]
  BY <1>1 DEF TypeOK
<1>4. \A l \in Attempts : Current(l)' <=> Current(l)
  BY <1>1 DEF Current
<1>5. UpToDate' /\ ClosedMeansProcessed' /\ CompleteMeansCollected' /\ DoneAreSkipped'
  BY <1>1, <1>2, <1>3, <1>4
  DEF ProgressInv, UpToDate, ClosedMeansProcessed, CompleteMeansCollected, DoneAreSkipped
<1>6. NotYetAsking'
  BY <1>1, <1>2, <1>3 DEF ProgressInv, NotYetAsking
<1>7. Heard'
  BY <1>1, <1>2, <1>3, <1>4 DEF ProgressInv, Heard
<1> QED
  BY <1>1, <1>5, <1>6, <1>7 DEF ProgressInv

LEMMA EndKeepsProgress ==
    ASSUME TypeOK, ProgressInv, Crash \/ Shutdown
    PROVE  ProgressInv' /\ job'.results = job.results
<1>1. /\ pc' = [k \in Attempts |-> IF pc[k] = "none" THEN "none" ELSE "over"]
      /\ ask' = [k \in Attempts |-> NotAsking]
      /\ UNCHANGED period
  BY DEF Crash, Shutdown, ProcessEnds
<1>2. /\ \A k \in Attempts : pc'[k] = IF pc[k] = "none" THEN "none" ELSE "over"
      /\ \A k \in Attempts, t \in Teams : ask'[k][t] = "idle"
  BY <1>1 DEF NotAsking
<1>3. /\ job'.results = job.results /\ job'.attempt = job.attempt
      /\ job'.status = job.status \/ job'.status = "FAILED"
  BY DEF Crash, Shutdown, TypeOK, Jobs
<1> QED
  BY <1>1, <1>2, <1>3
  DEF ProgressInv, UpToDate, NotYetAsking, Heard, ClosedMeansProcessed, DoneAreSkipped,
      CompleteMeansCollected

CheckpointStep == \A t \in Teams : job.results[t] = "COMPLETE" => job'.results[t] = "COMPLETE"

LEMMA ProgressStep == TypeOK /\ ProgressInv /\ [Next]_vars => ProgressInv' /\ CheckpointStep
<1> SUFFICES ASSUME TypeOK, ProgressInv, [Next]_vars PROVE ProgressInv' /\ CheckpointStep
  OBVIOUS
<1>1. CASE Tick
  BY <1>1, TickKeepsProgress, TickEffect DEF CheckpointStep
<1>2. ASSUME NEW k \in Attempts, TaskStep(k) \/ Heartbeat(k) PROVE ProgressInv' /\ CheckpointStep
  BY <1>2, BeginKeepsProgress, GatherKeepsProgress, FinishKeepsProgress, HeartbeatKeepsProgress
  DEF TaskStep, CheckpointStep
<1>3. ASSUME NEW k \in Attempts, NEW t \in Teams, Record(k, t)
      PROVE  ProgressInv' /\ CheckpointStep
  <2>1. CASE Current(k)
    <3>1. job.results[t] # "COMPLETE"
      BY <1>3, <2>1 DEF Record, ProgressInv, DoneAreSkipped
    <3>2. \A u \in Teams : job'.results[u] = IF u = t THEN Result(k, t) ELSE job.results[u]
      BY <1>3, <2>1, RecordEffect
    <3>3. CheckpointStep
      BY <3>1, <3>2 DEF CheckpointStep
    <3> QED
      BY <1>3, <3>3, RecordKeepsProgress
  <2>2. CASE ~Current(k)
    BY <1>3, <2>2, RecordKeepsProgress DEF Record, CheckpointStep
  <2> QED
    BY <2>1, <2>2
<1>4. ASSUME NEW k \in Attempts, NEW t \in Teams, Answer(k, t) \/ Submit(k, t) \/ RecordFails(k, t)
      PROVE  ProgressInv' /\ CheckpointStep
  BY <1>4, ReviewKeepsProgress, RecordFailsKeepsProgress DEF CheckpointStep
<1>5. CASE Crash \/ Shutdown
  BY <1>5, EndKeepsProgress DEF CheckpointStep
<1>6. CASE ByHand \/ LoadProcess \/ ProcessByHand \/ SetLock \/ ClockMoves \/ LeaseLapses
           \/ Stall \/ RetryFallsDue \/ Boot \/ UNCHANGED vars
  <2>1. Quiet
    BY <1>6, QuietSteps
  <2> QED
    BY <2>1, QuietKeepsProgress DEF Quiet, CheckpointStep
<1> QED
  BY <1>1, <1>2, <1>3, <1>4, <1>5, <1>6 DEF Next, ReviewStep

LEMMA ProgressInit == Init => ProgressInv
BY CollectionAssumption
DEF Init, ProgressInv, UpToDate, NotYetAsking, Heard, ClosedMeansProcessed, DoneAreSkipped,
    CompleteMeansCollected, Current, NotAsking, Attempts

LEMMA ProgressCorrect == Spec => []ProgressInv
<1>1. TypeOK /\ ProgressInv /\ [Next]_vars => ProgressInv'
  BY ProgressStep
<1> QED
  BY <1>1, CollectionTypes, ProgressInit, PTL DEF Spec

\* No retry asks a manager again whose review is checkpointed, whatever crashes,
\* stalls, late answers and failing writes came before.
THEOREM DoneSkipped == Spec => []DoneAreSkipped
<1>1. ProgressInv => DoneAreSkipped
  BY DEF ProgressInv
<1> QED
  BY <1>1, ProgressCorrect, PTL

\* A collection that is complete before its period ends has heard every manager.
THEOREM CollectionComplete == Spec => []CompleteMeansCollected
<1>1. ProgressInv => CompleteMeansCollected
  BY DEF ProgressInv
<1> QED
  BY <1>1, ProgressCorrect, PTL

\* No step takes back the checkpoint of a completed review.
THEOREM CheckpointsKept == Spec => CheckpointsLast
<1>1. TypeOK /\ ProgressInv /\ [Next]_vars
      => [\A t \in Teams : job.results[t] = "COMPLETE" => job'.results[t] = "COMPLETE"]_vars
  BY ProgressStep DEF CheckpointStep
<1> QED
  BY <1>1, CollectionTypes, ProgressCorrect, PTL DEF Spec, CheckpointsLast
-----------------------------------------------------------------------------
(* The claims.                                                             *)

\* A submission takes no team back to the beginning, and neither does a run of the waivers.
ClaimsStep == \A u \in Teams : claims'[u] = "NONE" => claims[u] = "NONE"

LEMMA ReplacesEffect ==
    ASSUME TypeOK, NEW t \in Teams, Replaces(t) PROVE claims'[t] # "NONE" /\ ClaimsStep
BY DEF TypeOK, Replaces, ClaimsStep

LEMMA ProcessEffect == ASSUME TypeOK, claims' = Decided PROVE ClaimsStep
BY DEF Decided, ClaimsStep

LEMMA ClaimsKept == TypeOK /\ [Next]_vars => ClaimsStep
<1> SUFFICES ASSUME TypeOK, [Next]_vars PROVE ClaimsStep
  OBVIOUS
<1> USE DEF ClaimsStep, rowVars
<1>1. CASE Tick
  BY <1>1, ProcessEffect DEF Tick, EndPeriod, Process, Collect
<1>2. ASSUME NEW k \in Attempts, TaskStep(k) \/ Heartbeat(k) PROVE ClaimsStep
  BY <1>2 DEF TaskStep, Begin, Gather, Finish, Ends, Heartbeat
<1>3. ASSUME NEW k \in Attempts, NEW t \in Teams, ReviewStep(k, t) \/ RecordFails(k, t)
      PROVE  ClaimsStep
  BY <1>3, ReplacesEffect DEF ReviewStep, Answer, Submit, Record, RecordFails
<1>4. CASE ByHand
  BY <1>4, ReplacesEffect DEF ByHand, CollectByHand, LoadSubmission, SubmitByHand
<1>5. CASE ProcessByHand
  BY <1>5, ProcessEffect DEF ProcessByHand, Process
<1>6. CASE LoadProcess \/ SetLock \/ ClockMoves \/ LeaseLapses \/ Stall \/ RetryFallsDue
           \/ Boot \/ Crash \/ Shutdown \/ UNCHANGED vars
  BY <1>6
  DEF LoadProcess, SetLock, ClockMoves, LeaseLapses, Stall, RetryFallsDue, Boot, Crash,
      Shutdown, ProcessEnds, vars
<1> QED
  BY <1>1, <1>2, <1>3, <1>4, <1>5, <1>6 DEF Next

\* Once the scheduled run has been, it is past the processing time and nothing pends.
AfterTheRun == key = "scheduled" => clock = "due" /\ \A t \in Teams : claims[t] # "PENDING"

LEMMA AfterTheRunStep == TypeOK /\ AfterTheRun /\ [Next]_vars => AfterTheRun'
<1> SUFFICES ASSUME TypeOK, AfterTheRun, [Next]_vars PROVE AfterTheRun'
  OBVIOUS
<1> USE DEF AfterTheRun, rowVars, taskVars
<1>1. \A t \in Teams : Decided[t] # "PENDING"
  BY DEF Decided
<1>2. CASE Tick
  BY <1>1, <1>2 DEF Tick, Due, EndPeriod, Process, Collect
<1>3. ASSUME NEW k \in Attempts, TaskStep(k) \/ Heartbeat(k) PROVE AfterTheRun'
  BY <1>3 DEF TaskStep, Begin, Gather, Finish, Ends, Heartbeat
<1>4. ASSUME NEW k \in Attempts, NEW t \in Teams, ReviewStep(k, t) \/ RecordFails(k, t)
      PROVE  AfterTheRun'
  BY <1>4 DEF ReviewStep, Answer, Submit, InTime, Record, RecordFails
<1>5. CASE ByHand
  BY <1>5 DEF ByHand, CollectByHand, LoadSubmission, SubmitByHand, InTime
<1>6. CASE ProcessByHand
  BY <1>1, <1>6 DEF ProcessByHand, Process
<1>7. CASE LoadProcess \/ SetLock \/ ClockMoves \/ LeaseLapses \/ Stall \/ RetryFallsDue
           \/ Boot \/ Crash \/ Shutdown \/ UNCHANGED vars
  BY <1>7
  DEF LoadProcess, SetLock, ClockMoves, LeaseLapses, Stall, RetryFallsDue, Boot, Crash,
      Shutdown, ProcessEnds, vars
<1> QED
  BY <1>2, <1>3, <1>4, <1>5, <1>6, <1>7 DEF Next

\* The scheduled run decides every claim: whatever call or request was under way when
\* it ran comes in too late to leave a claim pending.
THEOREM ScheduledRunCorrect == Spec => []ScheduledRunDecidesAll
<1>1. Init => AfterTheRun
  BY DEF Init, AfterTheRun
<1>2. AfterTheRun => ScheduledRunDecidesAll
  BY DEF AfterTheRun, ScheduledRunDecidesAll
<1> QED
  BY <1>1, <1>2, AfterTheRunStep, CollectionTypes, PTL DEF Spec

\* Which step lets a review be submitted, or a checkpoint say that it was.
LEMMA SubmittedStep ==
    ASSUME TypeOK, ProgressInv, [Next]_vars, NEW t \in Teams
    PROVE  /\ \A k \in Attempts :
                 ask'[k][t] = "submitted" => ask[k][t] = "submitted" \/ claims'[t] # "NONE"
           /\ job'.results[t] = "COMPLETE" =>
                 \/ job.results[t] = "COMPLETE"
                 \/ \E k \in Attempts : ask[k][t] = "submitted"
<1> DEFINE Asked == \A k \in Attempts :
                 ask'[k][t] = "submitted" => ask[k][t] = "submitted" \/ claims'[t] # "NONE"
           Checked == job'.results[t] = "COMPLETE" =>
                 \/ job.results[t] = "COMPLETE"
                 \/ \E k \in Attempts : ask[k][t] = "submitted"
<1>1. CASE Tick
  BY <1>1, TickEffect
<1>2. ASSUME NEW k \in Attempts, TaskStep(k) \/ Heartbeat(k) PROVE Asked /\ Checked
  <2>1. job'.results = job.results
    BY <1>2, BeginKeepsProgress, GatherKeepsProgress, FinishKeepsProgress, HeartbeatKeepsProgress
    DEF TaskStep
  <2>2. \A l \in Attempts : ask'[l] = ask[l] \/ ask'[l][t] # "submitted"
    BY <1>2 DEF TypeOK, TaskStep, Begin, Gather, Finish, Ends, Heartbeat, NotAsking
  <2> QED
    BY <2>1, <2>2
<1>3. ASSUME NEW k \in Attempts, NEW u \in Teams, Record(k, u) \/ RecordFails(k, u)
      PROVE  Asked /\ Checked
  <2>1. \A l \in Attempts : ask'[l][t] = "submitted" => ask[l][t] = "submitted"
    <3>1. ask' = [ask EXCEPT ![k][u] = "idle"]
      BY <1>3 DEF Record, RecordFails
    <3>2. \A l \in Attempts : ask'[l][t] = ask[l][t] \/ ask'[l][t] = "idle"
      BY <3>1 DEF TypeOK
    <3> QED
      BY <3>2
  <2>2. CASE Record(k, u) /\ Current(k)
    <3>1. \A v \in Teams : job'.results[v] = IF v = u THEN Result(k, u) ELSE job.results[v]
      BY <2>2, RecordEffect
    <3>2. job'.results[t] = IF t = u THEN Result(k, u) ELSE job.results[t]
      BY <3>1
    <3> QED
      BY <2>1, <3>2 DEF Result
  <2>3. CASE RecordFails(k, u) \/ (Record(k, u) /\ ~Current(k))
    BY <2>1, <2>3 DEF Record, RecordFails
  <2> QED
    BY <1>3, <2>2, <2>3
<1>4. ASSUME NEW k \in Attempts, NEW u \in Teams, Answer(k, u) \/ Submit(k, u)
      PROVE  Asked /\ Checked
  <2>1. job'.results = job.results
    BY <1>4, ReviewKeepsProgress
  <2>2. CASE Answer(k, u)
    BY <2>1, <2>2 DEF TypeOK, Answer, Review
  <2>3. CASE Submit(k, u)
    <3>1. \A l \in Attempts : ask'[l][t] = "submitted" =>
             ask[l][t] = "submitted" \/ (u = t /\ Replaces(t))
      <4>1. PICK s \in {"submitted", "refused"} :
               ask' = [ask EXCEPT ![k][u] = s] /\ (s = "submitted" => Replaces(u))
        BY <2>3 DEF Submit, Review
      <4>2. \A l \in Attempts : ask'[l][t] = IF l = k /\ u = t THEN s ELSE ask[l][t]
        BY <4>1 DEF TypeOK
      <4> QED
        BY <4>1, <4>2
    <3> QED
      BY <2>1, <3>1, ReplacesEffect
  <2> QED
    BY <1>4, <2>2, <2>3
<1>5. CASE Crash \/ Shutdown
  BY <1>5, EndKeepsProgress DEF Crash, Shutdown, ProcessEnds, NotAsking
<1>6. CASE ByHand \/ LoadProcess \/ ProcessByHand \/ SetLock \/ ClockMoves \/ LeaseLapses
           \/ Stall \/ RetryFallsDue \/ Boot \/ UNCHANGED vars
  BY <1>6, QuietSteps DEF Quiet
<1> QED
  BY <1>1, <1>2, <1>3, <1>4, <1>5, <1>6 DEF Next, ReviewStep

LEMMA SubmissionStep == TypeOK /\ ProgressInv /\ SubmissionInv /\ [Next]_vars => SubmissionInv'
BY SubmittedStep, ClaimsKept DEF SubmissionInv, CheckpointsAreTrue, ClaimsStep

LEMMA SubmissionInit == Init => SubmissionInv
BY DEF Init, SubmissionInv, CheckpointsAreTrue, NoResults, NotAsking

\* A checkpoint is true for every history: the manager's claims were submitted
\* before it was written, and nothing unsubmits them.
THEOREM CheckpointsTrue == Spec => []CheckpointsAreTrue
<1>1. SubmissionInv => CheckpointsAreTrue
  BY DEF SubmissionInv
<1> QED
  BY <1>1, SubmissionInit, SubmissionStep, CollectionTypes, ProgressCorrect, PTL DEF Spec

\* Checkpoints are true, respected by every retry and complete when the job is.
THEOREM CheckpointsCorrect == Spec => []CheckpointsSound
BY CollectionTypes, DoneSkipped, CheckpointsTrue, CollectionComplete, PTL DEF CheckpointsSound
-----------------------------------------------------------------------------
(* One attempt at work.  Without faults the attempt that asks is the       *)
(* latest, and nobody may take the job from it.                            *)

AtWork(k) == pc[k] = "begun" \/ \E t \in Teams : ask[k][t] # "idle"

\* No task outlives its process.
NoneOutlives ==
    ~up => \A k \in Attempts : pc[k] \in {"none", "over"} /\ \A t \in Teams : ask[k][t] = "idle"

\* A task renews its lease as long as it is current.
Leased ==
    faults = 0 =>
        \A k \in Attempts : Current(k) /\ pc[k] \notin {"none", "over"} => job.lease = "live"

\* Whoever works is the latest attempt of a job that runs or timed out.
LatestWorks ==
    faults = 0 =>
        \A k \in Attempts : AtWork(k) =>
            /\ k = job.attempt /\ job.status \in {"RUNNING", "COMPLETE"}
            /\ job.status = "RUNNING" => pc[k] \in {"begun", "gathering"}

WorkInv == NoneOutlives /\ Leased /\ LatestWorks

\* Hence a job that can be taken is one nobody works at.
LEMMA NobodyToTakeFrom ==
    ASSUME TypeOK, WorkInv, faults = 0, Claimable(job), NEW k \in Attempts PROVE ~AtWork(k)
BY DEF WorkInv, Leased, LatestWorks, Claimable, Current, Attempts

\* Steps that leave the tasks alone, and of the job everything but a lease that nobody
\* renews or the date of its retry.
LEMMA QuietKeepsWork ==
    ASSUME TypeOK, WorkInv, UNCHANGED <<pc, ask, faults>>,
           up' = up \/ up', job'.status = job.status, job'.attempt = job.attempt,
           job'.lease = job.lease \/ ~Renewed
    PROVE  WorkInv'
<1>1. NoneOutlives' /\ LatestWorks'
  BY DEF WorkInv, NoneOutlives, LatestWorks, AtWork, TypeOK
<1>2. Leased'
  <2> SUFFICES ASSUME faults = 0, NEW k \in Attempts, Current(k), pc[k] \notin {"none", "over"}
               PROVE  job'.lease = "live"
    BY DEF Leased, Current
  <2>1. up /\ job.lease = "live"
    BY DEF WorkInv, NoneOutlives, Leased
  <2> QED
    BY <2>1 DEF Renewed
<1> QED
  BY <1>1, <1>2 DEF WorkInv

LEMMA TickJob ==
    ASSUME TypeOK, Tick
    PROVE  /\ job' \in {job, Claimed(job), TimedOut(job), TimedOut(Claimed(job))}
           /\ \A k \in Attempts : /\ pc'[k] = pc[k] \/ pc'[k] = "created"
                                  /\ k <= job.attempt => pc'[k] = pc[k]
<1>1. job \in Jobs /\ job.attempt \in Nat
  BY CollectionAssumption DEF TypeOK, Jobs
<1>2. Recovered \in {job, Claimed(job)}
  BY DEF Recovered
<1>3. Claimed(Claimed(job)) = Claimed(job)
  BY <1>1 DEF Claimed, Claimable, Jobs
<1>4. job' \in {job, Claimed(job), TimedOut(job), TimedOut(Claimed(job))}
  BY <1>2, <1>3 DEF Tick, EndPeriod, Collect
<1>5. \A k \in Attempts : pc'[k] = pc[k] \/ (job.attempt < k /\ pc'[k] = "created")
  BY DEF Tick, EndPeriod, Collect, CreateTasks
<1>6. \A k \in Attempts : k <= job.attempt => pc'[k] = pc[k]
  BY <1>1, <1>5 DEF Attempts
<1> QED
  BY <1>4, <1>5, <1>6

LEMMA TickKeepsWork == ASSUME TypeOK, WorkInv, Tick PROVE WorkInv'
<1>1. job \in Jobs /\ job.attempt \in Nat /\ UNCHANGED <<up, ask, faults>> /\ up
  BY CollectionAssumption DEF TypeOK, Jobs, Tick, LoopFree
<1>2. NoneOutlives'
  BY <1>1 DEF NoneOutlives
<1>3. TimedOut(job).status # "RUNNING" /\ TimedOut(Claimed(job)).status # "RUNNING"
  BY <1>1, ClaimedType DEF TimedOut, Jobs
<1>4. Leased'
  <2> SUFFICES ASSUME faults = 0, NEW k \in Attempts, job'.status = "RUNNING", job'.attempt = k,
                      pc'[k] \notin {"none", "over"}
               PROVE  job'.lease = "live"
    BY <1>1 DEF Leased, Current
  <2>1. CASE Claimable(job) /\ job' = Claimed(job)
    BY <1>1, <2>1 DEF Claimed, Jobs
  <2>2. CASE job' = job
    <3>1. pc'[k] = pc[k]
      BY <1>1, <2>2, TickJob
    <3> QED
      BY <2>2, <3>1 DEF WorkInv, Leased, Current
  <2> QED
    BY <1>3, <2>1, <2>2, TickJob DEF Claimed
<1>5. LatestWorks'
  <2> SUFFICES ASSUME faults = 0, NEW k \in Attempts, AtWork(k)'
               PROVE  /\ k = job'.attempt /\ job'.status \in {"RUNNING", "COMPLETE"}
                      /\ job'.status = "RUNNING" => pc'[k] \in {"begun", "gathering"}
    BY <1>1 DEF LatestWorks
  <2>1. AtWork(k)
    BY <1>1, TickJob DEF AtWork
  <2>2. ~Claimable(job)
    BY <2>1, NobodyToTakeFrom
  <2>3. job' \in {job, TimedOut(job)}
    BY <2>2, TickJob DEF Claimed
  <2>4. /\ k = job.attempt /\ job.status \in {"RUNNING", "COMPLETE"}
        /\ job.status = "RUNNING" => pc[k] \in {"begun", "gathering"}
    BY <2>1 DEF WorkInv, LatestWorks
  <2>5. pc'[k] = pc[k]
    BY <1>1, <2>4, TickJob
  <2> QED
    BY <1>1, <2>3, <2>4, <2>5 DEF TimedOut, Jobs
<1> QED
  BY <1>2, <1>4, <1>5 DEF WorkInv

\* A step of one attempt that leaves the job row as it is, or writes it as current.
LEMMA TaskKeepsWork ==
    ASSUME TypeOK, WorkInv, NotYetAsking, NEW k \in Attempts,
           Begin(k) \/ Gather(k) \/ Finish(k) \/ Heartbeat(k)
    PROVE  WorkInv'
<1>0. /\ job \in Jobs /\ pc \in [Attempts -> Places] /\ ask \in [Attempts -> [Teams -> Steps]]
      /\ k # 0
  BY DEF TypeOK, Attempts
<1>1. CASE Begin(k)
  <2>1. up /\ UNCHANGED <<up, job, ask, faults>> /\ pc[k] = "created"
        /\ pc' = [pc EXCEPT ![k] = IF Current(k) THEN "begun" ELSE "raised"]
    BY <1>1 DEF Begin, rowVars, LoopFree
  <2>2. NoneOutlives' /\ Leased'
    BY <1>0, <2>1 DEF WorkInv, NoneOutlives, Leased, Current
  <2>3. LatestWorks'
    BY <1>0, <2>1 DEF WorkInv, LatestWorks, AtWork, Current
  <2> QED
    BY <2>2, <2>3 DEF WorkInv
<1>2. CASE Gather(k)
  <2>1. /\ up /\ UNCHANGED <<up, job, faults>> /\ pc[k] = "begun"
        /\ \A l \in Attempts \ {k} : pc'[l] = pc[l] /\ ask'[l] = ask[l]
        /\ \/ pc'[k] = "gathering"
           \/ pc'[k] \in {"raised", "closed"} /\ ask'[k] = ask[k]
    BY <1>0, <1>2 DEF Gather, rowVars, LoopFree
  <2>2. NoneOutlives' /\ Leased'
    BY <1>0, <2>1 DEF WorkInv, NoneOutlives, Leased, Current
  <2>3. LatestWorks'
    <3> SUFFICES ASSUME faults = 0, NEW l \in Attempts, AtWork(l)'
                 PROVE  /\ l = job.attempt /\ job.status \in {"RUNNING", "COMPLETE"}
                        /\ job.status = "RUNNING" => pc'[l] \in {"begun", "gathering"}
      BY <2>1 DEF LatestWorks
    <3>1. CASE l # k
      BY <2>1, <3>1 DEF WorkInv, LatestWorks, AtWork
    <3>2. CASE l = k
      <4>1. AtWork(k) /\ \A t \in Teams : ask[k][t] = "idle"
        BY <2>1 DEF AtWork, NotYetAsking
      <4>2. pc'[k] = "gathering"
        BY <2>1, <3>2, <4>1 DEF AtWork
      <4> QED
        BY <3>2, <4>1, <4>2 DEF WorkInv, LatestWorks
    <3> QED
      BY <3>1, <3>2
  <2> QED
    BY <2>2, <2>3 DEF WorkInv
<1>3. CASE Finish(k)
  <2>1. /\ up /\ UNCHANGED <<up, ask, faults>>
        /\ pc'[k] = "over" /\ \A l \in Attempts \ {k} : pc'[l] = pc[l]
        /\ ~Current(k) => job' = job
        /\ Current(k) => job'.status \in {"FAILED", "COMPLETE"}
    BY <1>0, <1>3 DEF Finish, Ends, rowVars, LoopFree, Jobs
  <2>2. NoneOutlives'
    BY <2>1 DEF NoneOutlives
  <2>3. Leased'
    BY <1>0, <2>1 DEF WorkInv, Leased, Current
  <2>4. LatestWorks'
    <3> SUFFICES ASSUME faults = 0, NEW l \in Attempts, AtWork(l)'
                 PROVE  /\ l = job'.attempt /\ job'.status \in {"RUNNING", "COMPLETE"}
                        /\ job'.status = "RUNNING" => pc'[l] \in {"begun", "gathering"}
      BY <2>1 DEF LatestWorks
    <3>1. /\ AtWork(l) /\ l = job.attempt /\ job.status \in {"RUNNING", "COMPLETE"}
          /\ job.status = "RUNNING" => pc[l] \in {"begun", "gathering"}
          /\ l = k => \E t \in Teams : ask[l][t] # "idle"
      BY <1>0, <2>1 DEF WorkInv, LatestWorks, AtWork
    <3>2. CASE Current(k)
      <4>1. l = k /\ ~Ended(k) /\ pc[k] \in {"begun", "gathering"}
        BY <3>1, <3>2 DEF Current, Ended
      <4> QED
        BY <1>3, <4>1 DEF Finish
    <3>3. CASE ~Current(k)
      BY <1>0, <2>1, <3>1, <3>3 DEF Current
    <3> QED
      BY <3>2, <3>3
  <2> QED
    BY <2>2, <2>3, <2>4 DEF WorkInv
<1>4. CASE Heartbeat(k)
  <2>1. up /\ UNCHANGED <<up, faults>>
    BY <1>4 DEF Heartbeat, LoopFree
  <2>2. CASE Current(k)
    <3>1. /\ UNCHANGED <<pc, ask>> /\ job'.lease = "live"
          /\ job'.status = job.status /\ job'.attempt = job.attempt
      BY <1>0, <1>4, <2>2 DEF Heartbeat, Jobs
    <3> QED
      BY <2>1, <3>1 DEF WorkInv, NoneOutlives, Leased, LatestWorks, AtWork, Current
  <2>3. CASE ~Current(k)
    <3>1. /\ job' = job /\ pc'[k] = "raised" /\ \A t \in Teams : ask'[k][t] = "idle"
          /\ \A l \in Attempts \ {k} : pc'[l] = pc[l] /\ ask'[l] = ask[l]
      BY <1>0, <1>4, <2>3 DEF Heartbeat, NotAsking
    <3>2. \A l \in Attempts : (Current(l) <=> Current(l)') /\ (AtWork(l)' => l # k /\ AtWork(l))
      BY <3>1 DEF Current, AtWork
    <3> QED
      BY <2>1, <2>3, <3>1, <3>2 DEF WorkInv, NoneOutlives, Leased, LatestWorks
  <2> QED
    BY <2>2, <2>3
<1> QED
  BY <1>1, <1>2, <1>3, <1>4

LEMMA ReviewKeepsWork ==
    ASSUME TypeOK, WorkInv, NEW k \in Attempts, NEW t \in Teams,
           ReviewStep(k, t) \/ RecordFails(k, t)
    PROVE  WorkInv'
<1>0. /\ job \in Jobs /\ pc \in [Attempts -> Places] /\ ask \in [Attempts -> [Teams -> Steps]]
      /\ faults \in Nat
  BY CollectionAssumption DEF TypeOK
<1>1. /\ up /\ up' = up
      /\ ask[k][t] # "idle"
      /\ job'.status = job.status /\ job'.attempt = job.attempt /\ job'.lease = job.lease
      /\ \A l \in Attempts, u \in Teams : <<l, u>> # <<k, t>> => ask'[l][u] = ask[l][u]
  <2>0. ASSUME NEW step, Review(k, t, step)
        PROVE  /\ up' = up /\ job' = job
               /\ \A l \in Attempts, u \in Teams : <<l, u>> # <<k, t>> => ask'[l][u] = ask[l][u]
    BY <1>0, <2>0 DEF Review
  <2>1. CASE Answer(k, t)
    <3>1. up /\ ask[k][t] # "idle" /\ \E step : Review(k, t, step)
      BY <2>1 DEF Answer, LoopFree
    <3> QED
      BY <2>0, <3>1
  <2>2. CASE Submit(k, t)
    <3>1. up /\ ask[k][t] # "idle" /\ \E step : Review(k, t, step)
      BY <2>2 DEF Submit
    <3> QED
      BY <2>0, <3>1
  <2>3. CASE Record(k, t)
    BY <1>0, <2>3 DEF Record, Jobs
  <2>4. CASE RecordFails(k, t)
    BY <1>0, <2>4 DEF RecordFails
  <2> QED
    BY <2>1, <2>2, <2>3, <2>4 DEF ReviewStep
<1>2. faults' = 0 => faults = 0 /\ (UNCHANGED pc \/ (~Current(k) /\ GatherRaises(k)))
  BY <1>0 DEF ReviewStep, Answer, Review, Submit, Record, RecordFails
<1>3. NoneOutlives'
  BY <1>1 DEF NoneOutlives
<1>4. Leased'
  BY <1>0, <1>1, <1>2 DEF WorkInv, Leased, Current, GatherRaises
<1>5. LatestWorks'
  <2> SUFFICES ASSUME faults' = 0, NEW l \in Attempts, AtWork(l)'
               PROVE  /\ l = job.attempt /\ job.status \in {"RUNNING", "COMPLETE"}
                      /\ job.status = "RUNNING" => pc'[l] \in {"begun", "gathering"}
    BY <1>1 DEF LatestWorks
  <2>1. pc'[l] = pc[l] \/ (l = k /\ ~Current(k) /\ pc'[l] = "raised")
    BY <1>0, <1>2 DEF GatherRaises
  <2>2. AtWork(l)
    BY <1>0, <1>1, <2>1 DEF AtWork
  <2> QED
    BY <1>2, <2>1, <2>2 DEF WorkInv, LatestWorks, Current
<1> QED
  BY <1>3, <1>4, <1>5 DEF WorkInv

LEMMA EndKeepsWork == ASSUME TypeOK, WorkInv, Crash \/ Shutdown PROVE WorkInv'
<1>1. /\ \A k \in Attempts : pc'[k] \in {"none", "over"} /\ \A t \in Teams : ask'[k][t] = "idle"
      /\ faults' = faults
  BY DEF Crash, Shutdown, ProcessEnds, NotAsking
<1> QED
  BY <1>1 DEF WorkInv, NoneOutlives, Leased, LatestWorks, AtWork

LEMMA WorkStep == TypeOK /\ ProgressInv /\ WorkInv /\ [Next]_vars => WorkInv'
<1> SUFFICES ASSUME TypeOK, NotYetAsking, WorkInv, [Next]_vars PROVE WorkInv'
  BY DEF ProgressInv
<1>1. CASE LeaseLapses \/ RetryFallsDue
  BY <1>1, QuietKeepsWork DEF LeaseLapses, RetryFallsDue, TypeOK, Jobs, taskVars
<1>2. CASE Stall
  <2>1. UNCHANGED <<up, pc, ask>> /\ faults' # 0
    BY <1>2, CollectionAssumption DEF Stall, TypeOK, taskVars
  <2> QED
    BY <2>1 DEF WorkInv, NoneOutlives, Leased, LatestWorks
<1>3. CASE ByHand \/ LoadProcess \/ ProcessByHand \/ SetLock \/ ClockMoves
  BY <1>3, QuietKeepsWork
     DEF ByHand, CollectByHand, LoadSubmission, SubmitByHand, LoadProcess, ProcessByHand, SetLock, ClockMoves, taskVars
<1>4. CASE Boot \/ UNCHANGED vars
  BY <1>4, QuietKeepsWork DEF Boot, vars, taskVars
<1> QED
  BY <1>1, <1>2, <1>3, <1>4, TickKeepsWork, TaskKeepsWork, ReviewKeepsWork, EndKeepsWork
     DEF Next, TaskStep

\* While nothing fails, no two attempts of a collection ask the managers at the same
\* time, whatever crashes, restarts and shutdowns made the job change hands.
THEOREM OneAttemptCorrect == Spec => []OneAttemptAtWork
<1>1. Init => WorkInv
  BY DEF Init, WorkInv, NoneOutlives, Leased, LatestWorks, AtWork, Current, NotAsking
<1>2. WorkInv => OneAttemptAtWork
  BY DEF WorkInv, LatestWorks, AtWork, OneAttemptAtWork
<1> QED
  BY <1>1, <1>2, WorkStep, CollectionTypes, ProgressCorrect, PTL DEF Spec
=============================================================================
