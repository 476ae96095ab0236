---------------------------- MODULE ReviewsProofs ----------------------------
(***************************************************************************)
(* Theorems about Reviews for any tasks, lineups, ages and bounds.         *)
(***************************************************************************)
EXTENDS Reviews, TLAPS

\* The larger of two versions is one of them and no smaller than either.
LEMMA MaxOfTwo ==
    ASSUME NEW a \in Nat, NEW b \in Nat
    PROVE  /\ Max({a, b}) \in {a, b}
           /\ Max({a, b}) >= a /\ Max({a, b}) >= b
<1>1. \E x \in {a, b} : \A y \in {a, b} : x >= y
  OBVIOUS
<1> QED
  BY <1>1 DEF Max

\* What is known of numbers and of the value None.
LEMMA Values ==
    /\ Times \subseteq Nat /\ Versions \subseteq Nat /\ Weeks \subseteq Nat
    /\ 0 \in Times /\ 0 \in Versions /\ 1 \in Weeks
    /\ \A t \in Tasks : t # None
    /\ \A s \in Stamps : s # None
BY ReviewsAssumption, NoneAssumption DEF Times, Versions, Weeks

LEMMA IdleType == Idle \in InProgress
BY Values DEF Idle, InProgress, Phases

-----------------------------------------------------------------------------
(* Types.  A review that holds inputs has taken them from the team's rows, *)
(* so its stamp is a stamp.                                                *)

\* Whose step it is, and that a review at work has a lineup.
Busy(t) == tasks[t].phase # "idle"
LoopInv ==
    /\ \A t \in Tasks : tasks[t].phase \in {"begun", "answered"} => loop = t
    /\ \A t \in Tasks : Busy(t) => tasks[t].lineup \in Lineups

TypeInv == TypeOK /\ LoopInv

LEMMA StampType ==
    ASSUME TypeInv, NEW t \in Tasks, Busy(t)
    PROVE  /\ StampOf(t) \in Stamps
           /\ StampOf(t).week = tasks[t].week /\ StampOf(t).at = tasks[t].at
           /\ StampOf(t).news = tasks[t].news
           /\ Kind[t] = "LINEUP" => StampOf(t).lineup = lineup
BY DEF TypeInv, TypeOK, LoopInv, StampOf, Stamps, InProgress

\* A step of the world leaves reviews, stamps and loop alone.
WorldStep == SetLineup \/ Changes \/ TradesChange \/ NextWeek \/ Tick

LEMMA TypeStep == TypeInv /\ [Next]_vars => TypeInv'
<1> SUFFICES ASSUME TypeInv, [Next]_vars PROVE TypeInv'
  OBVIOUS
<1> USE DEF TypeInv, TypeOK, LoopInv, Busy
<1>1. ASSUME NEW t \in Tasks, Begin(t) PROVE TypeInv'
  <2>1. [phase |-> "begun", at |-> now, week |-> week, news |-> news, lineup |-> lineup,
         context |-> 0] \in InProgress
    BY Values DEF InProgress, Phases
  <2>2. tasks' \in [Tasks -> InProgress] /\ loop' = t
    BY <1>1, <2>1 DEF Begin
  <2>3. \A u \in Tasks : tasks[u].phase \notin {"begun", "answered"}
    BY <1>1, Values DEF Begin
  <2> QED
    BY <1>1, <2>2, <2>3 DEF Begin, world
<1>2. ASSUME NEW t \in Tasks, LoadContext(t) PROVE TypeInv'
  <2>1. PICK p \in {"answered", "asking"}, c \in Versions :
           /\ tasks' = [tasks EXCEPT ![t] = [tasks[t] EXCEPT !.phase = p, !.context = c]]
           /\ loop' = IF p = "asking" THEN None ELSE loop
    <3>1. tasks[t] \in InProgress
      OBVIOUS
    <3>2. [tasks EXCEPT ![t].phase = "answered"]
             = [tasks EXCEPT ![t] = [tasks[t] EXCEPT !.phase = "answered",
                                                     !.context = tasks[t].context]]
      BY <3>1 DEF InProgress
    <3>3. tasks[t].context \in Versions
      BY <3>1 DEF InProgress
    <3> QED
      BY <1>2, <3>2, <3>3 DEF LoadContext
  <2>2. [tasks[t] EXCEPT !.phase = p, !.context = c] \in InProgress
    <3>1. tasks[t] \in InProgress
      OBVIOUS
    <3> QED
      BY <3>1 DEF InProgress, Phases
  <2>3. loop = t /\ tasks[t].lineup \in Lineups
    BY <1>2 DEF LoadContext
  <2>4. \A u \in Tasks \ {t} : tasks[u].phase \notin {"begun", "answered"}
    BY <2>3
  <2> QED
    BY <1>2, <2>1, <2>2, <2>3, <2>4 DEF LoadContext, world, InProgress
<1>3. ASSUME NEW t \in Tasks, Commit(t) PROVE TypeInv'
  <2>1. [tasks[t] EXCEPT !.phase = "answered"] \in InProgress
    BY DEF InProgress, Phases
  <2>2. tasks' = [tasks EXCEPT ![t] = [tasks[t] EXCEPT !.phase = "answered"]] /\ loop' = t
    BY <1>3 DEF Commit
  <2>3. \A u \in Tasks : tasks[u].phase \notin {"begun", "answered"}
    BY <1>3, Values DEF Commit
  <2>4. LoopInv'
    BY <1>3, <2>1, <2>2, <2>3 DEF InProgress, Commit
  <2>5. lineup' \in Lineups /\ chosen' \in [Lineups -> Versions]
    <3>1. CASE CommitLineup(t)
      <4>1. tasks[t].context \in Nat /\ tasks[t].context \in Versions
        BY Values DEF InProgress
      <4>2. lineup' \in Lineups /\ chosen[lineup'] \in Versions
        BY <3>1 DEF CommitLineup
      <4>3. Max({chosen[lineup'], tasks[t].context}) \in Versions
        BY <4>1, <4>2, MaxOfTwo, Values
      <4> QED
        BY <3>1, <4>2, <4>3 DEF CommitLineup
    <3>2. CASE CommitProposal(t)
      BY <3>2 DEF CommitProposal
    <3> QED
      BY <1>3, <3>1, <3>2 DEF Commit
  <2>6. pending' \in BOOLEAN /\ proposed' \in Times \cup {None}
    BY <1>3 DEF Commit, CommitLineup, CommitProposal
  <2> QED
    BY <1>3, <2>1, <2>2, <2>4, <2>5, <2>6 DEF Commit
<1>4. ASSUME NEW t \in Tasks, End(t) PROVE TypeInv'
  <2>1. Busy(t) /\ loop = t
    BY <1>4 DEF End
  <2>2. stamps' \in [Kinds -> Stamps \cup {None}]
    BY <1>4, <2>1, StampType DEF End, Stamped
  <2>3. tasks' = [tasks EXCEPT ![t] = Idle] /\ loop' = None
    BY <1>4 DEF End
  <2>4. \A u \in Tasks \ {t} : tasks[u].phase \notin {"begun", "answered"}
    BY <2>1
  <2> QED
    BY <1>4, <2>2, <2>3, <2>4, IdleType DEF End, world, Idle
<1>5. ASSUME NEW t \in Tasks, Fail(t) PROVE TypeInv'
  BY <1>5, IdleType, Values DEF Fail, world, Idle
<1>6. CASE Crash
  BY <1>6, IdleType DEF Crash, world, Idle
<1>7. CASE WorldStep /\ UNCHANGED <<proposed, stamps, tasks, loop>>
  <2>1. /\ now' \in Times /\ began' \in Times /\ week' \in Weeks /\ news' \in Versions
        /\ lineup' \in Lineups /\ pending' \in BOOLEAN
        /\ chosen' \in [Lineups -> Versions]
    <3>1. CASE SetLineup \/ TradesChange
      BY <3>1 DEF SetLineup, TradesChange
    <3>2. CASE Changes \/ NextWeek \/ Tick
      <4>1. /\ news < MaxNews => news + 1 \in Versions
            /\ week < MaxWeek => week + 1 \in Weeks
            /\ now < MaxTime => now + 1 \in Times
        BY ReviewsAssumption DEF Times, Weeks, Versions
      <4> QED
        BY <3>2, <4>1 DEF Changes, NextWeek, Tick
    <3> QED
      BY <1>7, <3>1, <3>2 DEF WorldStep
  <2> QED
    BY <1>7, <2>1
<1>8. CASE UNCHANGED vars
  BY <1>8 DEF vars, world
<1> QED
  BY <1>1, <1>2, <1>3, <1>4, <1>5, <1>6, <1>7, <1>8 DEF Next, WorldStep

LEMMA TypeInit == Init => TypeInv
<1> SUFFICES ASSUME Init PROVE TypeInv
  OBVIOUS
<1>1. \A t \in Tasks : tasks[t].phase = "idle"
  BY DEF Init, Idle
<1>2. stamps \in [Kinds -> Stamps \cup {None}] /\ tasks \in [Tasks -> InProgress]
  BY IdleType DEF Init
<1> QED
  BY <1>1, <1>2, Values DEF Init, TypeInv, TypeOK, LoopInv, Busy

LEMMA TypesCorrect == Spec => []TypeInv
BY TypeInit, TypeStep, PTL DEF Spec

-----------------------------------------------------------------------------
(* One review of a kind.                                                   *)

\* Which reviews a step may set to work: only the one that begins.
LEMMA BusyStep ==
    ASSUME TypeInv, [Next]_vars, NEW u \in Tasks, Busy(u)'
    PROVE  \/ Begin(u)
           \/ /\ Busy(u)
              /\ tasks'[u].at = tasks[u].at /\ tasks'[u].week = tasks[u].week
              /\ tasks'[u].news = tasks[u].news /\ tasks'[u].lineup = tasks[u].lineup
<1> DEFINE Same == /\ Busy(u)
                   /\ tasks'[u].at = tasks[u].at /\ tasks'[u].week = tasks[u].week
                   /\ tasks'[u].news = tasks[u].news /\ tasks'[u].lineup = tasks[u].lineup
<1> USE DEF Busy
<1>1. tasks \in [Tasks -> InProgress]
  BY DEF TypeInv, TypeOK
<1>2. ASSUME NEW t \in Tasks, Begin(t), t # u PROVE Same
  BY <1>1, <1>2 DEF Begin
<1>3. ASSUME NEW t \in Tasks, LoadContext(t) PROVE Same
  BY <1>1, <1>3 DEF LoadContext, InProgress
<1>4. ASSUME NEW t \in Tasks, Commit(t) PROVE Same
  BY <1>1, <1>4 DEF Commit, InProgress
<1>5. ASSUME NEW t \in Tasks, End(t) \/ Fail(t) PROVE Same
  BY <1>1, <1>5 DEF End, Fail, Idle
<1>6. CASE Crash
  BY <1>6 DEF Crash, Idle
<1>7. CASE UNCHANGED tasks
  BY <1>7
<1> QED
  BY <1>2, <1>3, <1>4, <1>5, <1>6, <1>7 DEF Next, vars

\* Whoever begins holds the lock of the kind, and whoever ends gives it back.
LEMMA LockStep == TypeInv /\ OneReviewOfAKind /\ [Next]_vars => OneReviewOfAKind'
<1> SUFFICES ASSUME TypeInv, OneReviewOfAKind, [Next]_vars,
                    NEW t \in Tasks \ Manual, NEW u \in Tasks \ Manual,
                    Kind[t] = Kind[u], t # u, Busy(t)', Busy(u)'
             PROVE  FALSE
  BY DEF OneReviewOfAKind, Busy
<1>1. ASSUME NEW x \in Tasks \ Manual, NEW y \in Tasks \ Manual, Kind[x] = Kind[y], x # y,
             Busy(y)', Begin(x)
      PROVE  FALSE
  <2>1. tasks[y].phase = "idle"
    BY <1>1 DEF Begin, HasLock, Scheduled
  <2>2. tasks'[y] = tasks[y]
    BY <1>1 DEF Begin, TypeInv, TypeOK
  <2> QED
    BY <1>1, <2>1, <2>2 DEF Busy
<1>2. ~Begin(t) /\ ~Begin(u)
  BY <1>1
<1>3. Busy(t) /\ Busy(u)
  BY <1>2, BusyStep
<1> QED
  BY <1>3 DEF OneReviewOfAKind, Busy

\* Rows of reviews keep to their values, and jobs that overlap never ask a manager
\* the same kind of question at the same time.
THEOREM ReviewsCorrect == Spec => []ReviewsConsistent
<1>1. Init => OneReviewOfAKind
  BY DEF Init, OneReviewOfAKind, Idle
<1>2. TypeInv => TypeOK
  BY DEF TypeInv
<1> QED
  BY <1>1, <1>2, LockStep, TypesCorrect, PTL DEF Spec, ReviewsConsistent
-----------------------------------------------------------------------------
(* Stamps.  A scheduled review at work has begun after the stamp of its    *)
(* kind was written and does not repeat it.                                *)

FreshInv ==
    /\ \A k \in Kinds : stamps[k] # None => stamps[k].at <= now
    /\ \A t \in Tasks : Busy(t) => tasks[t].at <= now
    /\ \A t \in Tasks \ Manual : Busy(t) =>
          /\ stamps[Kind[t]] # None => stamps[Kind[t]].at <= tasks[t].at
          /\ ~Repeats(t)

\* A stamp changes only when its scheduled review ends.
LEMMA StampStep ==
    ASSUME TypeInv, [Next]_vars, NEW k \in Kinds, stamps'[k] # stamps[k]
    PROVE  \E t \in Tasks \ Manual :
              /\ Kind[t] = k /\ Busy(t) /\ tasks'[t] = Idle
              /\ stamps'[k] = StampOf(t)
              /\ tasks[t].phase = "answered"
              /\ UNCHANGED world
<1>1. PICK t \in Tasks : End(t)
  BY DEF Next, Begin, LoadContext, Commit, Fail, Crash, vars
<1>2. Scheduled(t) /\ stamps' = Stamped(t)
  BY <1>1 DEF End
<1>3. Kind[t] = k
  BY <1>2 DEF Stamped, TypeInv, TypeOK
<1> QED
  BY <1>1, <1>2, <1>3 DEF Stamped, TypeInv, TypeOK, End, Busy, Scheduled

LEMMA TimeStep == TypeInv /\ [Next]_vars => now' >= now
<1> SUFFICES ASSUME TypeInv, [Next]_vars PROVE now' >= now
  OBVIOUS
<1>1. now \in Nat
  BY Values DEF TypeInv, TypeOK
<1>2. now' = now \/ now' = now + 1
  BY DEF Next, Begin, LoadContext, Commit, End, Fail, Crash, SetLineup, Changes, TradesChange,
     NextWeek, Tick, vars, world
<1> QED
  BY <1>1, <1>2

LEMMA FreshStep ==
    TypeInv /\ TypeInv' /\ OneReviewOfAKind /\ FreshInv /\ [Next]_vars => FreshInv'
<1> SUFFICES ASSUME TypeInv, TypeInv', OneReviewOfAKind, FreshInv, [Next]_vars PROVE FreshInv'
  OBVIOUS
<1>1. now \in Nat /\ now' \in Nat /\ now' >= now
  BY TimeStep, Values DEF TypeInv, TypeOK
<1>2. /\ \A k \in Kinds : stamps[k] # None => stamps[k] \in Stamps /\ stamps[k].at \in Nat
      /\ \A t \in Tasks : tasks[t] \in InProgress /\ tasks[t].at \in Nat
  BY Values DEF TypeInv, TypeOK, Stamps, InProgress
<1>3. ASSUME NEW k \in Kinds, stamps'[k] # None PROVE stamps'[k].at <= now'
  <2>1. CASE stamps'[k] = stamps[k]
    BY <1>1, <1>2, <1>3, <2>1 DEF FreshInv
  <2>2. CASE stamps'[k] # stamps[k]
    <3>1. PICK t \in Tasks \ Manual : Busy(t) /\ stamps'[k] = StampOf(t)
      BY <2>2, StampStep
    <3>2. stamps'[k].at = tasks[t].at /\ tasks[t].at <= now
      BY <3>1, StampType DEF FreshInv
    <3> QED
      BY <1>1, <1>2, <3>2
  <2> QED
    BY <2>1, <2>2
<1>4. ASSUME NEW t \in Tasks, Busy(t)' PROVE tasks'[t].at <= now'
  <2>1. CASE Begin(t)
    BY <1>1, <2>1 DEF Begin, TypeInv, TypeOK, world
  <2>2. CASE ~Begin(t)
    BY <1>1, <1>2, <1>4, <2>2, BusyStep DEF FreshInv
  <2> QED
    BY <2>1, <2>2
<1>5. ASSUME NEW t \in Tasks \ Manual, Busy(t)'
      PROVE  /\ stamps'[Kind[t]] # None => stamps'[Kind[t]].at <= tasks'[t].at
             /\ ~Repeats(t)'
  <2>0. Kind[t] \in Kinds /\ Scheduled(t)
    BY ReviewsAssumption DEF Scheduled
  <2>1. CASE Begin(t)
    <3>1. stamps' = stamps /\ ~Unchanged(Kind[t])
      BY <2>0, <2>1 DEF Begin, Skipped
    <3>2. /\ tasks'[t].at = now /\ tasks'[t].week = week /\ tasks'[t].news = news
          /\ tasks'[t].lineup = lineup
      BY <2>1 DEF Begin, TypeInv, TypeOK
    <3>3. stamps[Kind[t]] # None => stamps[Kind[t]].at <= now
      BY <2>0 DEF FreshInv
    <3>4. ~Repeats(t)'
      BY <3>1, <3>2, <3>3 DEF Repeats, Unchanged, SameWeek, SameInputs
    <3> QED
      BY <3>1, <3>2, <3>3, <3>4
  <2>2. CASE ~Begin(t)
    <3>1. /\ Busy(t)
          /\ tasks'[t].at = tasks[t].at /\ tasks'[t].week = tasks[t].week
          /\ tasks'[t].news = tasks[t].news /\ tasks'[t].lineup = tasks[t].lineup
      BY <1>5, <2>2, BusyStep
    <3>2. stamps'[Kind[t]] = stamps[Kind[t]]
      <4>1. SUFFICES ASSUME stamps'[Kind[t]] # stamps[Kind[t]] PROVE FALSE
        OBVIOUS
      <4>2. PICK u \in Tasks \ Manual : Kind[u] = Kind[t] /\ Busy(u) /\ tasks'[u] = Idle
        BY <2>0, <4>1, StampStep
      <4>3. u # t
        BY <1>5, <4>2 DEF Busy, Idle
      <4> QED
        BY <3>1, <4>2, <4>3 DEF OneReviewOfAKind, Busy
    <3> QED
      BY <3>1, <3>2 DEF FreshInv, Repeats
  <2> QED
    BY <2>1, <2>2
<1> QED
  BY <1>3, <1>4, <1>5 DEF FreshInv

LEMMA FreshCorrect == Spec => [](TypeInv /\ OneReviewOfAKind /\ FreshInv)
<1>1. Init => OneReviewOfAKind /\ FreshInv
  BY DEF Init, OneReviewOfAKind, FreshInv, Busy, Idle
<1> QED
  BY <1>1, LockStep, FreshStep, TypesCorrect, PTL DEF Spec

LEMMA RepeatStep ==
    TypeInv /\ FreshInv /\ [Next]_vars
        => [\A t \in Tasks \ Manual :
              tasks[t].phase = "answered" /\ tasks'[t].phase = "idle" /\ stamps' # stamps
                  => ~Repeats(t)]_vars
BY DEF FreshInv, Busy

\* No scheduled review that completes repeats the one stamped before it, whatever
\* jobs overlap and wherever they stop.
THEOREM ReviewsNotRepeated == Spec => NoRepeatedReviews
BY FreshCorrect, RepeatStep, PTL DEF Spec, NoRepeatedReviews

LEMMA AdvanceStep ==
    TypeInv /\ TypeInv' /\ FreshInv /\ [Next]_vars
        => [\A k \in Kinds :
              stamps[k] # None => stamps'[k] # None /\ stamps'[k].at >= stamps[k].at]_vars
<1> SUFFICES ASSUME TypeInv, FreshInv, [Next]_vars, NEW k \in Kinds, stamps[k] # None
             PROVE  stamps'[k] # None /\ stamps'[k].at >= stamps[k].at
  OBVIOUS
<1>1. stamps[k] \in Stamps /\ stamps[k].at \in Nat
  BY Values DEF TypeInv, TypeOK, Stamps
<1>2. CASE stamps'[k] = stamps[k]
  BY <1>1, <1>2
<1>3. CASE stamps'[k] # stamps[k]
  <2>1. PICK t \in Tasks \ Manual : Kind[t] = k /\ Busy(t) /\ stamps'[k] = StampOf(t)
    BY <1>3, StampStep
  <2>2. stamps[k].at <= tasks[t].at /\ tasks[t].at \in Nat
    BY <2>1, Values DEF FreshInv, TypeInv, TypeOK, InProgress
  <2> QED
    BY <1>1, <2>1, <2>2, StampType, Values
<1> QED
  BY <1>2, <1>3

\* No review takes back a stamp that another one wrote meanwhile.
THEOREM StampsKept == Spec => StampsAdvance
BY FreshCorrect, AdvanceStep, PTL DEF Spec, StampsAdvance
-----------------------------------------------------------------------------
(* Skipped reviews.  Whatever a lineup was chosen on is no newer than the  *)
(* news, and a lineup review that has its answer, like the stamp it leaves,*)
(* has news that are out of date or a lineup chosen on the latest.         *)

SkipInv ==
    /\ \A l \in Lineups : chosen[l] <= news
    /\ \A t \in Tasks : Busy(t) => tasks[t].news <= news
    /\ \A t \in Tasks : Kind[t] = "LINEUP" /\ tasks[t].phase \in {"asking", "answered"} =>
          tasks[t].news <= tasks[t].context /\ tasks[t].context <= news
    /\ \A t \in Tasks : Kind[t] = "LINEUP" /\ tasks[t].phase = "answered" =>
          (tasks[t].news = news => chosen[lineup] = news)
    /\ stamps["LINEUP"] # None =>
          /\ stamps["LINEUP"].news <= news
          /\ stamps["LINEUP"].news = news => chosen[stamps["LINEUP"].lineup] = news

\* News only grow, and with the same news a choice is only made on newer ones.
LEMMA NewsStep ==
    ASSUME TypeInv, SkipInv, [Next]_vars
    PROVE  /\ news' >= news
           /\ \A l \in Lineups : chosen'[l] <= news'
           /\ \A l \in Lineups : news' = news /\ chosen[l] = news => chosen'[l] = news'
<1>1. /\ news \in Nat /\ chosen \in [Lineups -> Versions]
      /\ \A l \in Lineups : chosen[l] \in Nat /\ chosen[l] <= news
  BY Values DEF TypeInv, TypeOK, SkipInv
<1>2. ASSUME NEW t \in Tasks, Commit(t), CommitLineup(t)
      PROVE  /\ news' = news
             /\ \A l \in Lineups : chosen'[l] <= news /\ (chosen[l] = news => chosen'[l] = news)
  <2>1. tasks[t].context \in Nat /\ tasks[t].context <= news
    BY <1>2, Values DEF Commit, CommitLineup, SkipInv, TypeInv, TypeOK, InProgress
  <2>2. lineup' \in Lineups /\ news' = news
    BY <1>2 DEF Commit, CommitLineup
  <2>3. /\ Max({chosen[lineup'], tasks[t].context}) \in {chosen[lineup'], tasks[t].context}
        /\ Max({chosen[lineup'], tasks[t].context}) >= chosen[lineup']
    BY <1>1, <2>1, <2>2, MaxOfTwo
  <2>4. \A l \in Lineups :
           chosen'[l] = IF l = lineup' THEN Max({chosen[lineup'], tasks[t].context}) ELSE chosen[l]
    BY <1>1, <1>2 DEF CommitLineup
  <2> HIDE DEF Max
  <2> QED
    BY <1>1, <2>1, <2>2, <2>3, <2>4
<1>3. ASSUME NEW t \in Tasks, Commit(t), CommitProposal(t) PROVE UNCHANGED <<news, chosen>>
  BY <1>3 DEF Commit, CommitProposal
<1>4. CASE SetLineup
  BY <1>1, <1>4 DEF SetLineup
<1>5. CASE Changes \/ NextWeek
  BY <1>1, <1>5 DEF Changes, NextWeek
<1>6. CASE UNCHANGED <<news, chosen>>
  BY <1>1, <1>6
<1>7. ASSUME NEW t \in Tasks, Begin(t) \/ LoadContext(t) \/ End(t) \/ Fail(t)
      PROVE  UNCHANGED <<news, chosen>>
  BY <1>7 DEF Begin, LoadContext, End, Fail, world
<1>8. ASSUME NEW t \in Tasks, Commit(t) PROVE CommitLineup(t) \/ CommitProposal(t)
  BY <1>8 DEF Commit
<1>9. CASE Crash \/ TradesChange \/ Tick \/ UNCHANGED vars
  BY <1>6, <1>9 DEF Crash, TradesChange, Tick, vars, world
<1>10. CASE \E t \in Tasks : Commit(t)
  BY <1>1, <1>2, <1>3, <1>6, <1>8, <1>10
<1> QED
  BY <1>4, <1>5, <1>6, <1>7, <1>9, <1>10 DEF Next

\* While a review has its answer, the lineup only becomes one chosen on the latest news.
LEMMA AnswerStep ==
    ASSUME TypeInv, SkipInv, [Next]_vars, NEW t \in Tasks,
           tasks[t].phase = "answered", news' = news, chosen[lineup] = news
    PROVE  chosen'[lineup'] = news'
<1>1. loop = t /\ t # None /\ lineup \in Lineups
  BY Values DEF TypeInv, TypeOK, LoopInv
<1>2. CASE SetLineup
  BY <1>2 DEF SetLineup, TypeInv, TypeOK
<1>3. ~Changes /\ ~NextWeek
  BY Values DEF Changes, NextWeek, TypeInv, TypeOK
<1>4. \A u \in Tasks : ~Commit(u)
  BY <1>1 DEF Commit
<1>5. CASE UNCHANGED lineup
  BY <1>1, <1>5, NewsStep
<1> QED
  BY <1>2, <1>3, <1>4, <1>5 DEF Next, Begin, LoadContext, End, Fail, Crash, TradesChange, Tick,
     vars, world

LEMMA SkipStep == TypeInv /\ TypeInv' /\ SkipInv /\ [Next]_vars => SkipInv'
<1> SUFFICES ASSUME TypeInv, TypeInv', SkipInv, [Next]_vars PROVE SkipInv'
  OBVIOUS
<1>1. /\ news \in Nat /\ news' \in Nat /\ news' >= news
      /\ \A t \in Tasks : tasks[t] \in InProgress /\ tasks[t].news \in Nat
      /\ stamps["LINEUP"] # None =>
            stamps["LINEUP"].news \in Nat /\ stamps["LINEUP"].lineup \in Lineups
      /\ tasks' \in [Tasks -> InProgress]
  BY NewsStep, Values DEF TypeInv, TypeOK, InProgress, Stamps, Kinds
<1>2. ASSUME NEW t \in Tasks, Busy(t)' PROVE tasks'[t].news <= news'
  <2>1. CASE Begin(t)
    BY <1>1, <2>1 DEF Begin, world, TypeInv, TypeOK
  <2>2. CASE ~Begin(t)
    BY <1>1, <1>2, <2>2, BusyStep DEF SkipInv
  <2> QED
    BY <2>1, <2>2
<1>3. ASSUME NEW t \in Tasks, Kind[t] = "LINEUP", tasks'[t].phase \in {"asking", "answered"}
      PROVE  /\ tasks'[t].news <= tasks'[t].context /\ tasks'[t].context <= news'
             /\ tasks'[t].phase = "answered" /\ tasks'[t].news = news' => chosen'[lineup'] = news'
  <2>0. tasks[t].context \in Nat
    BY <1>1, Values DEF InProgress
  <2>1. CASE LoadContext(t)
    <3>1. Busy(t) /\ tasks'[t].phase = "asking" /\ tasks'[t].context = news
          /\ tasks'[t].news = tasks[t].news /\ news' = news
      BY <1>1, <1>3, <2>1 DEF LoadContext, InProgress, world, Busy, TypeInv, TypeOK
    <3> QED
      BY <1>1, <3>1 DEF SkipInv
  <2>2. CASE Commit(t)
    <3>1. /\ tasks[t].phase = "asking" /\ news' = news
          /\ tasks'[t].news = tasks[t].news /\ tasks'[t].context = tasks[t].context
      BY <1>1, <2>2 DEF Commit, InProgress, TypeInv, TypeOK
    <3>2. CommitLineup(t) /\ lineup' \in Lineups
      BY <1>3, <2>2 DEF Commit, CommitLineup, CommitProposal
    <3>3. chosen'[lineup'] = Max({chosen[lineup'], tasks[t].context})
      BY <3>2 DEF CommitLineup, TypeInv, TypeOK
    <3>4. chosen[lineup'] \in Nat /\ chosen[lineup'] <= news
      BY <3>2, Values DEF TypeInv, TypeOK, SkipInv
    <3>5. chosen'[lineup'] \in {chosen[lineup'], tasks[t].context}
          /\ chosen'[lineup'] >= tasks[t].context
      BY <2>0, <3>3, <3>4, MaxOfTwo
    <3>6. tasks[t].news <= tasks[t].context /\ tasks[t].context <= news
      BY <1>3, <3>1 DEF SkipInv
    <3> QED
      BY <1>1, <2>0, <3>1, <3>4, <3>5, <3>6
  <2>3. CASE ~LoadContext(t) /\ ~Commit(t)
    <3>1. tasks'[t] = tasks[t]
      <4>1. ASSUME NEW u \in Tasks, Begin(u) \/ End(u) \/ Fail(u) PROVE tasks'[t] = tasks[t]
        <5>1. u # t
          BY <1>1, <1>3, <4>1 DEF Begin, End, Fail, Idle, TypeInv, TypeOK
        <5> QED
          BY <1>1, <4>1, <5>1 DEF Begin, End, Fail, TypeInv, TypeOK
      <4>2. ASSUME NEW u \in Tasks, LoadContext(u) \/ Commit(u) PROVE tasks'[t] = tasks[t]
        BY <1>1, <2>3, <4>2 DEF LoadContext, Commit, TypeInv, TypeOK
      <4>3. ~Crash
        BY <1>3 DEF Crash, Idle
      <4>4. CASE UNCHANGED tasks
        BY <4>4
      <4> QED
        BY <4>1, <4>2, <4>3, <4>4 DEF Next, vars
    <3>2. /\ tasks[t].news <= tasks[t].context /\ tasks[t].context <= news
          /\ tasks[t].news <= news
      BY <1>3, <3>1 DEF SkipInv, Busy
    <3>3. tasks[t].phase = "answered" /\ tasks[t].news = news' =>
             news' = news /\ chosen[lineup] = news
      BY <1>1, <1>3, <3>2 DEF SkipInv
    <3> QED
      BY <1>1, <2>0, <3>1, <3>2, <3>3, AnswerStep
  <2> QED
    BY <2>1, <2>2, <2>3
<1>4. ASSUME stamps'["LINEUP"] # None
      PROVE  /\ stamps'["LINEUP"].news <= news'
             /\ stamps'["LINEUP"].news = news' => chosen'[stamps'["LINEUP"].lineup] = news'
  <2>1. CASE stamps'["LINEUP"] = stamps["LINEUP"]
    <3>1. stamps["LINEUP"].news <= news
      BY <1>4, <2>1 DEF SkipInv
    <3>2. stamps["LINEUP"].news = news' =>
             news' = news /\ chosen[stamps["LINEUP"].lineup] = news
      BY <1>1, <1>4, <2>1, <3>1 DEF SkipInv
    <3> QED
      BY <1>1, <1>4, <2>1, <3>1, <3>2, NewsStep
  <2>2. CASE stamps'["LINEUP"] # stamps["LINEUP"]
    <3>1. PICK t \in Tasks :
             /\ Kind[t] = "LINEUP" /\ Busy(t) /\ tasks[t].phase = "answered"
             /\ stamps'["LINEUP"] = StampOf(t) /\ UNCHANGED world
      BY <2>2, StampStep DEF Kinds
    <3>2. StampOf(t).news = tasks[t].news /\ StampOf(t).lineup = lineup
      BY <3>1, StampType
    <3>3. news' = news /\ lineup' = lineup /\ lineup \in Lineups
      BY <3>1 DEF world, TypeInv, TypeOK
    <3> QED
      BY <1>1, <3>1, <3>2, <3>3, NewsStep DEF SkipInv
  <2> QED
    BY <2>1, <2>2
<1> QED
  BY <1>2, <1>3, <1>4, NewsStep DEF SkipInv

\* A lineup review is skipped only for a lineup that somebody chose knowing all that
\* is known now, whatever arrived while an earlier review was waiting for its answer.
THEOREM SkipsCorrect == Spec => []SkipsAreSafe
<1>1. Init => SkipInv
  BY Values DEF Init, SkipInv, Busy, Idle, Kinds
<1>2. SkipInv => SkipsAreSafe
  BY DEF SkipInv, SkipsAreSafe, Unchanged, SameWeek, SameInputs
<1> QED
  BY <1>1, <1>2, SkipStep, TypesCorrect, PTL DEF Spec
=============================================================================
