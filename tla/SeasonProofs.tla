---------------------------- MODULE SeasonProofs ----------------------------
(***************************************************************************)
(* Theorems about Season for any even number of teams, any number of weeks *)
(* and any scores, jobs and moves of the commissioner.                     *)
(***************************************************************************)
EXTENDS Season, FiniteSetTheorems, SequenceTheorems, WellFoundedInduction, TLAPS

-----------------------------------------------------------------------------
(* Induction over the natural numbers, for sets of them.                   *)

LEMMA LeastNumber ==
    ASSUME NEW T \in SUBSET Nat, T # {}
    PROVE  \E n \in T : \A m \in T : n <= m
<1> DEFINE R == {ss \in Nat \X Nat : ss[1] < ss[2]}
<1>1. IsWellFoundedOn(R, Nat)
  BY NatLessThanWellFounded DEF OpToRel
<1> HIDE DEF R
<1>2. PICK x \in T : \A y \in T : <<y, x>> \notin R
  BY <1>1, WFMin
<1>3. \A y, z \in Nat : <<y, z>> \in R <=> y < z
  BY DEF R
<1>4. \A y \in T : ~(y < x)
  BY <1>2, <1>3
<1> QED
  BY <1>4

LEMMA SetInduction ==
    ASSUME NEW P \in SUBSET Nat, 0 \in P, \A n \in P : n + 1 \in P
    PROVE  \A n \in Nat : n \in P
<1> SUFFICES ASSUME Nat \ P # {} PROVE FALSE
  OBVIOUS
<1>1. PICK n \in Nat \ P : \A m \in Nat \ P : n <= m
  BY LeastNumber
<1>2. n # 0 /\ n - 1 \in Nat
  BY <1>1
<1>3. n - 1 \in P
  BY <1>1, <1>2
<1> QED
  BY <1>1, <1>2, <1>3
-----------------------------------------------------------------------------
(* The sum of the points of a set of matchups.                             *)

\* The partial sums over the subsets of S with at most m elements exist, for each m.
LEMMA SumIsNatural ==
    ASSUME NEW S, IsFiniteSet(S), NEW p \in [S -> Nat]
    PROVE  SumFunction(p) \in Nat
<1> DEFINE Pick(s) == CHOOSE x \in s : TRUE
           Upto(m) == {s \in SUBSET S : Cardinality(s) <= m}
           Sums(h, D) == h = [s \in D |-> IF s = {} THEN 0
                                                    ELSE p[Pick(s)] + h[s \ {Pick(s)}]]
           sum == CHOOSE h : Sums(h, SUBSET S)
<1>1. SumFunction(p) = sum[S]
  BY DEF SumFunction, SumFunctionOnSet, FoldFunctionOnSet, MapThenFoldSet
<1>2. ASSUME NEW s \in SUBSET S, s # {}
      PROVE  /\ Pick(s) \in s /\ s \ {Pick(s)} \in SUBSET S
             /\ Cardinality(s \ {Pick(s)}) = Cardinality(s) - 1
             /\ Cardinality(s) \in Nat
  <2>1. Pick(s) \in s
    BY <1>2
  <2>2. IsFiniteSet(s) /\ Cardinality(s) \in Nat
    BY FS_Subset, FS_CardinalityType
  <2> HIDE DEF Pick
  <2> QED
    BY <2>1, <2>2, FS_RemoveElement
<1>3. \A s \in SUBSET S : Cardinality(s) \in Nat /\ (Cardinality(s) = 0 <=> s = {})
  BY FS_Subset, FS_CardinalityType, FS_EmptySet
<1> HIDE DEF Pick
<1> DEFINE P == {m \in Nat : \E h : Sums(h, Upto(m))}
<1>4. 0 \in P
  <2> DEFINE h == [s \in Upto(0) |-> 0]
  <2>1. \A s \in Upto(0) : s = {}
    BY <1>3
  <2>2. Sums(h, Upto(0))
    BY <2>1
  <2> HIDE DEF h
  <2> QED
    BY <2>2
<1>5. ASSUME NEW m \in P PROVE m + 1 \in P
  <2>1. m \in Nat
    OBVIOUS
  <2>2. PICK g : Sums(g, Upto(m))
    OBVIOUS
  <2> DEFINE h == [s \in Upto(m + 1) |-> IF s = {} THEN 0 ELSE p[Pick(s)] + g[s \ {Pick(s)}]]
  <2>3. \A s \in Upto(m + 1) : s # {} => s \ {Pick(s)} \in Upto(m) /\ s \ {Pick(s)} \in Upto(m + 1)
    BY <1>2, <1>3, <2>1
  <2>4. \A s \in Upto(m) : h[s] = g[s] /\ s \in Upto(m + 1)
    <3> SUFFICES ASSUME NEW s \in Upto(m) PROVE h[s] = g[s] /\ s \in Upto(m + 1)
      OBVIOUS
    <3>1. s \in Upto(m + 1)
      BY <1>3, <2>1
    <3>2. g[s] = IF s = {} THEN 0 ELSE p[Pick(s)] + g[s \ {Pick(s)}]
      BY <2>2
    <3> QED
      BY <3>1, <3>2
  <2>5. \A s \in Upto(m + 1) : h[s] = IF s = {} THEN 0 ELSE p[Pick(s)] + h[s \ {Pick(s)}]
    <3> SUFFICES ASSUME NEW s \in Upto(m + 1)
                 PROVE  h[s] = IF s = {} THEN 0 ELSE p[Pick(s)] + h[s \ {Pick(s)}]
      OBVIOUS
    <3>1. h[s] = IF s = {} THEN 0 ELSE p[Pick(s)] + g[s \ {Pick(s)}]
      OBVIOUS
    <3> HIDE DEF h, Upto
    <3> QED
      BY <2>3, <2>4, <3>1
  <2>6. h = [s \in Upto(m + 1) |-> h[s]]
    OBVIOUS
  <2> HIDE DEF h, Upto, P
  <2>7. Sums(h, Upto(m + 1))
    BY <2>5, <2>6
  <2> HIDE DEF Sums
  <2> QED
    BY <2>1, <2>7 DEF P
<1> HIDE DEF P
<1>6. Cardinality(S) \in P
  BY <1>3, <1>4, <1>5, SetInduction DEF P
<1>7. Upto(Cardinality(S)) = SUBSET S
  BY FS_Subset
<1>8. Sums(sum, SUBSET S)
  <2>1. \E h : Sums(h, SUBSET S)
    BY <1>6, <1>7 DEF P
  <2> HIDE DEF Sums
  <2> QED
    BY <2>1
<1> HIDE DEF sum
<1>9. \A s \in SUBSET S : sum[s] = IF s = {} THEN 0 ELSE p[Pick(s)] + sum[s \ {Pick(s)}]
  BY <1>8
<1> DEFINE Q == {m \in Nat : \A s \in SUBSET S : Cardinality(s) <= m => sum[s] \in Nat}
<1>10. 0 \in Q
  BY <1>3, <1>9
<1>11. ASSUME NEW m \in Q PROVE m + 1 \in Q
  <2> SUFFICES ASSUME NEW s \in SUBSET S, Cardinality(s) <= m + 1 PROVE sum[s] \in Nat
    OBVIOUS
  <2>1. CASE s = {}
    <3>1. sum[s] = 0
      BY <1>9, <2>1
    <3> QED
      BY <3>1
  <2>2. CASE s # {}
    <3>1. Pick(s) \in S /\ s \ {Pick(s)} \in SUBSET S /\ Cardinality(s \ {Pick(s)}) <= m
      BY <1>2, <2>2
    <3>2. sum[s \ {Pick(s)}] \in Nat /\ p[Pick(s)] \in Nat
      BY <3>1
    <3> QED
      BY <1>9, <2>2, <3>2
  <2> QED
    BY <2>1, <2>2
<1> HIDE DEF Q
<1>12. Cardinality(S) \in Q
  BY <1>3, <1>10, <1>11, SetInduction DEF Q
<1>13. sum[S] \in Nat
  BY <1>3, <1>12 DEF Q
<1> QED
  BY <1>1, <1>13
-----------------------------------------------------------------------------
(* The schedule pairs teams of the league.                                 *)

\* One turn of the circle: the first stays, the last moves next to it, the others move on.
LEMMA RotatedAt ==
    ASSUME NEW T, NEW s \in Seq(T), Len(s) >= 2
    PROVE  /\ Rotated(s) \in Seq(T) /\ Len(Rotated(s)) = Len(s)
           /\ Rotated(s)[1] = s[1] /\ Rotated(s)[2] = s[Len(s)]
           /\ \A j \in 3..Len(s) : Rotated(s)[j] = s[j - 1]
<1> DEFINE n == Len(s)
           front == <<s[1], s[n]>>
           back == SubSeq(s, 2, n - 1)
<1>1. n \in Nat /\ n >= 2 /\ s[1] \in T /\ s[n] \in T
  OBVIOUS
<1>2. front \in Seq(T) /\ Len(front) = 2 /\ front[1] = s[1] /\ front[2] = s[n]
  BY <1>1
<1>3. back \in Seq(T) /\ Len(back) = n - 2 /\ \A j \in 1..n - 2 : back[j] = s[j + 1]
  <2>1. \A i \in 2..n - 1 : s[i] \in T
    BY <1>1
  <2>2. 2 \in Int /\ n - 1 \in Int /\ (IF 2 <= n - 1 THEN n - 1 - 2 + 1 ELSE 0) = n - 2
    <3> HIDE DEF n
    <3> QED
      BY <1>1
  <2>3. back \in Seq(T) /\ Len(back) = n - 2
    BY <2>1, <2>2, SubSeqProperties
  <2>4. \A j \in 1..n - 2 : back[j] = s[2 + j - 1]
    BY <2>1, <2>2, SubSeqProperties
  <2> HIDE DEF n, back
  <2>5. \A j \in 1..n - 2 : 2 + j - 1 = j + 1
    BY <1>1
  <2> QED
    BY <2>3, <2>4, <2>5
<1>4. Rotated(s) = front \o back
  BY DEF Rotated
<1> HIDE DEF front, back
<1>5. /\ front \o back \in Seq(T) /\ Len(front \o back) = Len(front) + Len(back)
      /\ \A j \in 1..Len(front) + Len(back) :
            (front \o back)[j] = IF j <= Len(front) THEN front[j] ELSE back[j - Len(front)]
  BY <1>2, <1>3, ConcatProperties
<1> HIDE DEF n
<1>6. \A j \in 1..n : Rotated(s)[j] = IF j <= 2 THEN front[j] ELSE back[j - 2]
  BY <1>1, <1>2, <1>3, <1>4, <1>5
<1>7. \A j \in 3..n : j - 2 \in 1..n - 2 /\ j - 2 + 1 = j - 1
  BY <1>1
<1>8. Rotated(s) \in Seq(T) /\ Len(Rotated(s)) = n
  BY <1>1, <1>2, <1>3, <1>4, <1>5
<1>9. Rotated(s)[1] = s[1] /\ Rotated(s)[2] = s[n]
  BY <1>1, <1>2, <1>6
<1>10. \A j \in 3..n : Rotated(s)[j] = s[j - 1]
  BY <1>1, <1>3, <1>6, <1>7
<1> QED
  BY <1>8, <1>9, <1>10 DEF n

\* Where the team at position j stood before the circle was turned k times.
Stood(j, k, n) == IF j = 1 THEN 1 ELSE IF j - k >= 2 THEN j - k ELSE j - k + n - 1

\* The circle turned k times has the same teams, each k places on: the turns up to m
\* exist, for each m <= k.
LEMMA RotatedByAt ==
    ASSUME NEW T, NEW s \in Seq(T), Len(s) >= 2, NEW k \in 0..Len(s) - 2
    PROVE  /\ RotatedBy(s, k) \in Seq(T) /\ Len(RotatedBy(s, k)) = Len(s)
           /\ \A j \in 1..Len(s) : /\ Stood(j, k, Len(s)) \in 1..Len(s)
                                   /\ RotatedBy(s, k)[j] = s[Stood(j, k, Len(s))]
<1> DEFINE n == Len(s)
           Turns(h, m) == h = [i \in 0..m |-> IF i = 0 THEN s ELSE Rotated(h[i - 1])]
           turned == CHOOSE h : Turns(h, k)
           P == {m \in Nat : \E h : Turns(h, m)}
<1>0. n \in Nat /\ n >= 2 /\ k \in Nat /\ k <= n - 2
  OBVIOUS
<1>1. RotatedBy(s, k) = turned[k]
  BY DEF RotatedBy
<1>2. 0 \in P
  <2> DEFINE h == [i \in 0..0 |-> s]
  <2>1. Turns(h, 0)
    OBVIOUS
  <2> QED
    BY <2>1
<1>3. ASSUME NEW m \in P PROVE m + 1 \in P
  <2>1. m \in Nat
    OBVIOUS
  <2>2. PICK g : Turns(g, m)
    OBVIOUS
  <2> DEFINE h == [i \in 0..m + 1 |-> IF i = m + 1 THEN Rotated(g[m]) ELSE g[i]]
  <2>3. \A i \in 0..m : g[i] = IF i = 0 THEN s ELSE Rotated(g[i - 1])
    BY <2>2
  <2>4. /\ \A i \in 0..m : h[i] = g[i]
        /\ h[m + 1] = Rotated(g[m])
        /\ h = [i \in 0..m + 1 |-> h[i]]
    BY <2>1
  <2> HIDE DEF h, P
  <2>5. ASSUME NEW i \in 0..m + 1 PROVE h[i] = IF i = 0 THEN s ELSE Rotated(h[i - 1])
    <3>1. CASE i = m + 1
      <4>1. m \in 0..m /\ i - 1 = m /\ i # 0
        BY <2>1, <3>1
      <4> QED
        BY <2>4, <3>1, <4>1
    <3>2. CASE i # m + 1 /\ i # 0
      <4>1. i \in 0..m /\ i - 1 \in 0..m
        BY <2>1, <3>2
      <4> QED
        BY <2>3, <2>4, <3>2, <4>1
    <3>3. CASE i = 0
      <4>1. 0 \in 0..m
        BY <2>1
      <4> QED
        BY <2>3, <2>4, <3>3, <4>1
    <3> QED
      BY <3>1, <3>2, <3>3
  <2>6. Turns(h, m + 1)
    BY <2>4, <2>5
  <2> HIDE DEF Turns
  <2> QED
    BY <2>1, <2>6 DEF P
<1> HIDE DEF P
<1>4. k \in P
  BY <1>0, <1>2, <1>3, SetInduction DEF P
<1>5. Turns(turned, k)
  <2>1. \E h : Turns(h, k)
    BY <1>4 DEF P
  <2> HIDE DEF Turns
  <2> QED
    BY <2>1
<1> HIDE DEF turned
<1>6. \A i \in 0..k : turned[i] = IF i = 0 THEN s ELSE Rotated(turned[i - 1])
  BY <1>5
<1> DEFINE Moved(h, m) == /\ h \in Seq(T) /\ Len(h) = n
                          /\ \A j \in 1..n : h[j] = s[Stood(j, m, n)]
           Q == {m \in Nat : m <= k => Moved(turned[m], m)}
<1>7. \A j \in 1..n, m \in 0..k : Stood(j, m, n) \in 1..n
  <2> HIDE DEF n
  <2> QED
    BY <1>0 DEF Stood
<1>8. 0 \in Q
  <2>1. turned[0] = s
    BY <1>0, <1>6
  <2>2. \A j \in 1..n : Stood(j, 0, n) = j
    <3> HIDE DEF n
    <3> QED
      BY <1>0 DEF Stood
  <2> QED
    BY <2>1, <2>2
<1>9. ASSUME NEW m \in Q PROVE m + 1 \in Q
  <2> SUFFICES ASSUME m + 1 <= k PROVE Moved(turned[m + 1], m + 1)
    OBVIOUS
  <2>0. m \in Nat /\ m <= k /\ Moved(turned[m], m)
    BY <1>0
  <2>1. PICK t : t = turned[m]
    OBVIOUS
  <2>2. t \in Seq(T) /\ Len(t) = n /\ \A j \in 1..n : t[j] = s[Stood(j, m, n)]
    BY <2>0, <2>1
  <2>3. m + 1 \in 0..k /\ m + 1 # 0 /\ m + 1 - 1 = m
    BY <1>0, <2>0
  <2>4. turned[m + 1] = Rotated(t)
    BY <1>6, <2>1, <2>3
  <2>5. /\ Rotated(t) \in Seq(T) /\ Len(Rotated(t)) = n
        /\ Rotated(t)[1] = t[1] /\ Rotated(t)[2] = t[n]
        /\ \A j \in 3..n : Rotated(t)[j] = t[j - 1]
    BY <1>0, <2>2, RotatedAt
  <2> HIDE DEF n, Q
  <2>6. ASSUME NEW j \in 1..n PROVE Rotated(t)[j] = s[Stood(j, m + 1, n)]
    <3>1. CASE j = 1
      <4>1. Stood(1, m, n) = 1 /\ Stood(1, m + 1, n) = 1 /\ 1 \in 1..n
        BY <1>0 DEF Stood
      <4> QED
        BY <2>2, <2>5, <3>1, <4>1
    <3>2. CASE j = 2
      <4>1. Stood(n, m, n) = Stood(2, m + 1, n) /\ n \in 1..n
        BY <1>0, <2>0, <2>3 DEF Stood
      <4> QED
        BY <2>2, <2>5, <3>2, <4>1
    <3>3. CASE j \in 3..n
      <4>1. Stood(j - 1, m, n) = Stood(j, m + 1, n) /\ j - 1 \in 1..n
        BY <1>0, <2>0, <3>3 DEF Stood
      <4> QED
        BY <2>2, <2>5, <3>3, <4>1
    <3> QED
      BY <1>0, <3>1, <3>2, <3>3
  <2> QED
    BY <2>4, <2>5, <2>6
<1> HIDE DEF Q
<1>10. k \in Q
  BY <1>0, <1>8, <1>9, SetInduction DEF Q
<1>11. Moved(turned[k], k)
  BY <1>0, <1>10 DEF Q
<1> QED
  BY <1>0, <1>1, <1>7, <1>11

LEMMA PairsType ==
    ASSUME NEW T, NEW s \in Seq(T), Len(s) >= 2, NEW w \in Nat \ {0},
           NEW i \in 1..Len(s) \div 2
    PROVE  WeekPairs(s, w)[i] \in [home : T, away : T]
<1> DEFINE n == Len(s)
           half == n \div 2
           round == ((w - 1) % (n - 1)) + 1
           Pairs(r) == RoundRobin(s)[r]
           Sides == [home : T, away : T]
<1>1. n \in Nat /\ n >= 2 /\ half \in 0..n
  OBVIOUS
<1>2. \A p \in Sides : Swap(p) \in Sides
  BY DEF Swap
<1>3. round \in 1..n - 1
  <2>1. n - 1 \in Nat \ {0} /\ w - 1 \in Nat
    <3>1. w \in Nat /\ w # 0
      OBVIOUS
    <3> HIDE DEF n
    <3> QED
      BY <1>1, <3>1
  <2>2. (w - 1) % (n - 1) \in 0..n - 2
    BY <2>1
  <2> QED
    BY <1>1, <2>2
<1>4. ASSUME NEW r \in 1..n - 1
      PROVE  DOMAIN Pairs(r) = 1..half /\ \A j \in 1..half : Pairs(r)[j] \in Sides
  <2> DEFINE circle == RotatedBy(s, r - 1)
             Pair(j) == [home |-> circle[j], away |-> circle[n + 1 - j]]
  <2>1. circle \in Seq(T) /\ Len(circle) = n
    <3>1. r - 1 \in 0..Len(s) - 2
      BY <1>1
    <3> QED
      BY <1>1, <3>1, RotatedByAt
  <2>2. Pairs(r) = [j \in 1..half |-> IF (r + j) % 2 = 1 THEN Swap(Pair(j)) ELSE Pair(j)]
    BY DEF RoundRobin
  <2> HIDE DEF circle
  <2>3. ASSUME NEW j \in 1..half PROVE Pair(j) \in Sides
    <3>1. j \in 1..n /\ n + 1 - j \in 1..n
      BY <1>1
    <3> QED
      BY <2>1, <3>1
  <2> HIDE DEF Pair, Sides
  <2> QED
    BY <1>2, <2>2, <2>3
<1>5. /\ DOMAIN Pairs(round) = 1..half /\ i \in 1..half
      /\ \A j \in 1..half : Pairs(round)[j] \in Sides
  BY <1>3, <1>4
<1>6. WeekPairs(s, w) = Pairs(round)
      \/ WeekPairs(s, w) = [j \in DOMAIN Pairs(round) |-> Swap(Pairs(round)[j])]
  BY DEF WeekPairs
<1> HIDE DEF Pairs, Sides, round, half
<1>7. WeekPairs(s, w)[i] \in Sides
  BY <1>2, <1>5, <1>6
<1> QED
  BY <1>7 DEF Sides
-----------------------------------------------------------------------------
(* The schedule is fair: after k turns of the circle any two teams are      *)
(* across from each other for exactly one k, and who is at home is settled *)
(* by the parity of the pair, so that the next cycle exchanges it.         *)

\* Where the team that begins at position x stands after k turns.
Place(x, k, n) == IF x = 1 THEN 1 ELSE IF x + k <= n THEN x + k ELSE x + k - n + 1

LEMMA PlaceStood ==
    ASSUME NEW n \in Nat, n >= 2, NEW k \in 0..n - 2, NEW x \in 1..n
    PROVE  /\ Place(x, k, n) \in 1..n /\ Stood(Place(x, k, n), k, n) = x
           /\ Stood(x, k, n) \in 1..n /\ Place(Stood(x, k, n), k, n) = x
BY DEF Place, Stood

\* Two teams are across from each other after exactly one number of turns.
LEMMA AcrossOnce ==
    ASSUME NEW h \in Nat \ {0}, NEW n, n = 2 * h, NEW x \in 1..n, NEW y \in 1..n, x # y
    PROVE  \E k \in 0..n - 2 :
              /\ Place(x, k, n) + Place(y, k, n) = n + 1
              /\ \A m \in 0..n - 2 : Place(x, m, n) + Place(y, m, n) = n + 1 => m = k
<1>1. \E k \in 0..n - 2 : Place(x, k, n) + Place(y, k, n) = n + 1
  <2>1. CASE x = 1
    <3>1. n - y \in 0..n - 2 /\ Place(y, n - y, n) = n
      BY <2>1 DEF Place
    <3> QED
      BY <2>1, <3>1 DEF Place
  <2>2. CASE y = 1
    <3>1. n - x \in 0..n - 2 /\ Place(x, n - x, n) = n
      BY <2>2 DEF Place
    <3> QED
      BY <2>2, <3>1 DEF Place
  <2>3. CASE x # 1 /\ y # 1 /\ \E q \in Nat : x + y = 2 * q
    <3>1. PICK q \in Nat : x + y = 2 * q
      BY <2>3
    <3>2. n - q \in 0..n - 2
      BY <2>3, <3>1
    <3>3. Place(x, n - q, n) + Place(y, n - q, n) = n + 1
      BY <2>3, <3>1 DEF Place
    <3> QED
      BY <3>2, <3>3
  <2>4. CASE x # 1 /\ y # 1 /\ \E q \in Nat : x + y = 2 * q + 1
    <3>1. PICK q \in Nat : x + y = 2 * q + 1
      BY <2>4
    <3>2. CASE q <= h
      <4>1. h - q \in 0..n - 2
        BY <2>4, <3>1, <3>2
      <4>2. Place(x, h - q, n) + Place(y, h - q, n) = n + 1
        BY <2>4, <3>1, <3>2 DEF Place
      <4> QED
        BY <4>1, <4>2
    <3>3. CASE q > h
      <4>1. h - q + n - 1 \in 0..n - 2
        BY <2>4, <3>1, <3>3
      <4>2. Place(x, h - q + n - 1, n) + Place(y, h - q + n - 1, n) = n + 1
        BY <2>4, <3>1, <3>3 DEF Place
      <4> QED
        BY <4>1, <4>2
    <3> QED
      BY <3>2, <3>3
  <2>5. \E q \in Nat : x + y = 2 * q \/ x + y = 2 * q + 1
    <3>1. (x + y) \div 2 \in Nat
      OBVIOUS
    <3>2. x + y = 2 * ((x + y) \div 2) \/ x + y = 2 * ((x + y) \div 2) + 1
      OBVIOUS
    <3> QED
      BY <3>1, <3>2
  <2> QED
    BY <2>1, <2>2, <2>3, <2>4, <2>5
<1>2. ASSUME NEW k \in 0..n - 2, NEW m \in 0..n - 2,
             Place(x, k, n) + Place(y, k, n) = n + 1, Place(x, m, n) + Place(y, m, n) = n + 1
      PROVE  m = k
  BY <1>2 DEF Place
<1> QED
  BY <1>1, <1>2

\* Where the home team of pair i stands in round r.
HomePlace(i, r, n) == IF (r + i) % 2 = 1 THEN n + 1 - i ELSE i

\* The list s fills the two halves of a circle of n places.
Circle(s, h, n) == n = 2 * h /\ Len(s) = n

\* Pair i of round r.
PairAt(s, i, r, n) ==
    [home |-> s[Stood(HomePlace(i, r, n), r - 1, n)],
     away |-> s[Stood(n + 1 - HomePlace(i, r, n), r - 1, n)]]

LEMMA RoundAt ==
    ASSUME NEW T, NEW s \in Seq(T), NEW h \in Nat \ {0}, NEW n \in Nat, Circle(s, h, n),
           NEW r \in 1..n - 1
    PROVE  /\ DOMAIN RoundRobin(s)[r] = 1..h
           /\ \A i \in 1..h :
                 HomePlace(i, r, n) \in 1..n /\ RoundRobin(s)[r][i] = PairAt(s, i, r, n)
<1> DEFINE circle == RotatedBy(s, r - 1)
           Pair(i) == [home |-> circle[i], away |-> circle[n + 1 - i]]
<1>1. n \in Nat /\ n >= 2 /\ n \div 2 = h /\ r - 1 \in 0..n - 2 /\ Len(s) = n /\ n = 2 * h
  BY DEF Circle
<1>2. \A j \in 1..n : circle[j] = s[Stood(j, r - 1, n)]
  BY <1>1, RotatedByAt
<1>3. RoundRobin(s)[r] = [i \in 1..h |-> IF (r + i) % 2 = 1 THEN Swap(Pair(i)) ELSE Pair(i)]
  BY <1>1 DEF RoundRobin
<1> HIDE DEF circle
<1>4. ASSUME NEW i \in 1..h
      PROVE  HomePlace(i, r, n) \in 1..n /\ RoundRobin(s)[r][i] = PairAt(s, i, r, n)
  <2>1. i \in 1..n /\ n + 1 - i \in 1..n /\ n + 1 - (n + 1 - i) = i
    BY <1>1
  <2>2. Pair(i).home = s[Stood(i, r - 1, n)] /\ Pair(i).away = s[Stood(n + 1 - i, r - 1, n)]
    BY <1>2, <2>1
  <2>3. CASE (r + i) % 2 = 1
    <3>1. RoundRobin(s)[r][i] = [home |-> Pair(i).away, away |-> Pair(i).home]
      BY <1>3, <2>3 DEF Swap
    <3>2. HomePlace(i, r, n) = n + 1 - i
      BY <2>3 DEF HomePlace
    <3> QED
      BY <2>1, <2>2, <3>1, <3>2 DEF PairAt
  <2>4. CASE (r + i) % 2 # 1
    <3>1. RoundRobin(s)[r][i] = Pair(i)
      BY <1>3, <2>4
    <3>2. HomePlace(i, r, n) = i
      BY <2>4 DEF HomePlace
    <3> QED
      BY <2>1, <2>2, <3>1, <3>2 DEF PairAt
  <2> QED
    BY <2>3, <2>4
<1> QED
  BY <1>3, <1>4

\* The team that began at x is at home against the one that began at y in round r.
Hosts(x, y, r, n) ==
    /\ Place(x, r - 1, n) + Place(y, r - 1, n) = n + 1
    /\ \E i \in 1..n \div 2 : HomePlace(i, r, n) = Place(x, r - 1, n)

LEMMA OneHosts ==
    ASSUME NEW h \in Nat \ {0}, NEW n, n = 2 * h, NEW r \in 1..n - 1,
           NEW x \in 1..n, NEW y \in 1..n, Place(x, r - 1, n) + Place(y, r - 1, n) = n + 1
    PROVE  Hosts(x, y, r, n) <=> ~Hosts(y, x, r, n)
<1>1. n \in Nat /\ n >= 2 /\ n \div 2 = h /\ r - 1 \in 0..n - 2
  OBVIOUS
<1>2. PICK p \in 1..n, q \in 1..n : p = Place(x, r - 1, n) /\ q = Place(y, r - 1, n)
  BY <1>1, PlaceStood
<1>3. p + q = n + 1 /\ q + p = n + 1
  BY <1>2
<1>4. /\ Hosts(x, y, r, n) <=> \E i \in 1..h : HomePlace(i, r, n) = p
      /\ Hosts(y, x, r, n) <=> \E i \in 1..h : HomePlace(i, r, n) = q
  BY <1>1, <1>2, <1>3 DEF Hosts
<1>5. PICK l \in 1..h : l = p \/ l = q
  <2>1. CASE p <= h
    <3>1. p \in 1..h
      BY <1>1, <2>1
    <3> QED
      BY <3>1
  <2>2. CASE p > h
    <3>1. q \in 1..h
      BY <1>1, <1>3, <2>2
    <3> QED
      BY <3>1
  <2> QED
    BY <1>1, <2>1, <2>2
<1>6. HomePlace(l, r, n) = p \/ HomePlace(l, r, n) = q
  BY <1>3, <1>5 DEF HomePlace
<1>7. p # q
  BY <1>3
<1>8. \A i \in 1..h : HomePlace(i, r, n) \in {p, q} => i = l
  BY <1>3, <1>5 DEF HomePlace
<1> QED
  BY <1>4, <1>6, <1>7, <1>8

\* No team is in the list twice.
Distinct(s) == \A i, j \in DOMAIN s : s[i] = s[j] => i = j

\* In a round the pair of two teams is the one of their places.
LEMMA RoundMeets ==
    ASSUME NEW T, NEW s \in Seq(T), NEW h \in Nat \ {0}, NEW n \in Nat, Circle(s, h, n),
           Distinct(s), NEW r \in 1..n - 1, NEW x \in 1..n, NEW y \in 1..n
    PROVE  (\E i \in 1..h : RoundRobin(s)[r][i] = [home |-> s[x], away |-> s[y]])
              <=> Hosts(x, y, r, n)
<1>1. n \in Nat /\ n >= 2 /\ n \div 2 = h /\ r - 1 \in 0..n - 2 /\ DOMAIN s = 1..n
  BY DEF Circle
<1>0. \A i \in 1..h :
         HomePlace(i, r, n) \in 1..n /\ RoundRobin(s)[r][i] = PairAt(s, i, r, n)
  BY RoundAt
<1>2. ASSUME NEW i \in 1..h
      PROVE  RoundRobin(s)[r][i] = [home |-> s[x], away |-> s[y]] <=>
                /\ HomePlace(i, r, n) = Place(x, r - 1, n)
                /\ n + 1 - HomePlace(i, r, n) = Place(y, r - 1, n)
  <2>1. PICK p \in 1..n : p = HomePlace(i, r, n)
    BY <1>0
  <2>2. RoundRobin(s)[r][i] = [home |-> s[Stood(p, r - 1, n)],
                               away |-> s[Stood(n + 1 - p, r - 1, n)]]
    BY <1>0, <2>1 DEF PairAt
  <2>3. PICK q \in 1..n : q = n + 1 - p
    BY <1>1
  <2>4. Stood(p, r - 1, n) \in 1..n /\ Stood(q, r - 1, n) \in 1..n
    BY <1>1, PlaceStood
  <2>5. /\ s[Stood(p, r - 1, n)] = s[x] <=> Stood(p, r - 1, n) = x
        /\ s[Stood(q, r - 1, n)] = s[y] <=> Stood(q, r - 1, n) = y
    BY <1>1, <2>4 DEF Distinct
  <2>6. /\ Stood(p, r - 1, n) = x <=> p = Place(x, r - 1, n)
        /\ Stood(q, r - 1, n) = y <=> q = Place(y, r - 1, n)
    <3>1. /\ Place(Stood(p, r - 1, n), r - 1, n) = p /\ Place(Stood(q, r - 1, n), r - 1, n) = q
          /\ Stood(Place(x, r - 1, n), r - 1, n) = x /\ Stood(Place(y, r - 1, n), r - 1, n) = y
      <4>1. PICK k \in 0..n - 2 : k = r - 1
        BY <1>1
      <4>2. ASSUME NEW j \in 1..n
            PROVE  Place(Stood(j, k, n), k, n) = j /\ Stood(Place(j, k, n), k, n) = j
        <5>1. n \in Nat /\ n >= 2
          BY <1>1
        <5> QED
          BY <5>1, PlaceStood
      <4> QED
        BY <4>1, <4>2
    <3> QED
      BY <3>1
  <2> QED
    BY <2>1, <2>2, <2>3, <2>5, <2>6
<1>3. Place(x, r - 1, n) \in 1..n /\ Place(y, r - 1, n) \in 1..n
  BY <1>1, PlaceStood
<1>4. \A i \in 1..h : HomePlace(i, r, n) \in 1..n
  BY <1>0
<1>5. PICK a \in 1..n, b \in 1..n : a = Place(x, r - 1, n) /\ b = Place(y, r - 1, n)
  BY <1>3
<1>6. \A i \in 1..h : HomePlace(i, r, n) = a /\ n + 1 - HomePlace(i, r, n) = b
                         <=> HomePlace(i, r, n) = a /\ a + b = n + 1
  BY <1>1, <1>4
<1>7. Hosts(x, y, r, n) <=> a + b = n + 1 /\ \E i \in 1..h : HomePlace(i, r, n) = a
  BY <1>1, <1>5 DEF Hosts
<1> QED
  BY <1>2, <1>5, <1>6, <1>7

\* The weeks of two cycles.
LEMMA FirstCycle ==
    ASSUME NEW r \in Nat, NEW v \in Nat, v < r
    PROVE  v % r = v /\ v \div r = 0
OBVIOUS

LEMMA SecondCycle ==
    ASSUME NEW r \in Nat, NEW v \in Nat, v >= r, v < r + r
    PROVE  v % r = v - r /\ v \div r = 1
OBVIOUS

\* In the first cycle a week is a round, in the second a round with sides exchanged.
LEMMA RoundOfWeek ==
    ASSUME NEW s, NEW h \in Nat \ {0}, NEW n \in Nat, Circle(s, h, n), NEW r \in 1..n - 1
    PROVE  /\ WeekPairs(s, r) = RoundRobin(s)[r]
           /\ WeekPairs(s, r + n - 1) =
                 [i \in DOMAIN RoundRobin(s)[r] |-> Swap(RoundRobin(s)[r][i])]
<1> DEFINE pairs == RoundRobin(s)[r]
<1>1. n - 1 \in Nat /\ n >= 2 /\ r \in Nat /\ r >= 1 /\ Len(s) = n
  BY DEF Circle
<1>4. (r - 1) % (n - 1) = r - 1 /\ (r - 1) \div (n - 1) = 0
  <2>1. r - 1 \in Nat /\ r - 1 < n - 1
    BY <1>1
  <2> QED
    BY <1>1, <2>1, FirstCycle
<1>5. /\ (r + n - 1 - 1) % (n - 1) = r - 1
      /\ (r + n - 1 - 1) \div (n - 1) = 1
  <2>1. PICK v \in Nat, m \in Nat : v = r + n - 1 - 1 /\ m = n - 1
    BY <1>1
  <2>2. v >= m /\ v < m + m /\ v - m = r - 1
    BY <1>1, <2>1
  <2>3. v % m = v - m /\ v \div m = 1
    BY <2>1, <2>2, SecondCycle
  <2> QED
    BY <2>1, <2>2, <2>3
<1>6. r - 1 + 1 = r /\ 0 % 2 # 1 /\ 1 % 2 = 1
  BY <1>1
<1> HIDE DEF pairs
<1>7. WeekPairs(s, r) = pairs
  BY <1>1, <1>4, <1>6 DEF WeekPairs, pairs
<1>8. WeekPairs(s, r + n - 1) = [i \in DOMAIN pairs |-> Swap(pairs[i])]
  BY <1>1, <1>5, <1>6 DEF WeekPairs, pairs
<1> QED
  BY <1>7, <1>8 DEF pairs

\* In the first cycle a week is a round, in the second a round with sides exchanged.
LEMMA WeekMeets ==
    ASSUME NEW T, NEW s \in Seq(T), NEW h \in Nat \ {0}, NEW n \in Nat, Circle(s, h, n),
           Distinct(s), NEW r \in 1..n - 1, NEW x \in 1..n, NEW y \in 1..n
    PROVE  /\ DOMAIN WeekPairs(s, r) = 1..h /\ DOMAIN WeekPairs(s, r + n - 1) = 1..h
           /\ Meeting(s, r, s[x], s[y]) <=> Hosts(x, y, r, n)
           /\ Meeting(s, r + n - 1, s[x], s[y]) <=> Hosts(y, x, r, n)
<1> DEFINE pairs == RoundRobin(s)[r]
<1>1. n \in Nat /\ n >= 2 /\ n - 1 \in Nat /\ r \in Nat /\ r >= 1
  BY DEF Circle
<1>2. DOMAIN pairs = 1..h /\ \A i \in 1..h : pairs[i] = PairAt(s, i, r, n)
  BY RoundAt
<1>3. /\ (\E i \in 1..h : pairs[i] = [home |-> s[x], away |-> s[y]]) <=> Hosts(x, y, r, n)
      /\ (\E i \in 1..h : pairs[i] = [home |-> s[y], away |-> s[x]]) <=> Hosts(y, x, r, n)
  BY RoundMeets
<1>4. /\ WeekPairs(s, r) = RoundRobin(s)[r]
      /\ WeekPairs(s, r + n - 1) = [i \in DOMAIN RoundRobin(s)[r] |-> Swap(RoundRobin(s)[r][i])]
  BY RoundOfWeek
<1> HIDE DEF pairs
<1>7. WeekPairs(s, r) = pairs
  BY <1>4 DEF pairs
<1>8. WeekPairs(s, r + n - 1) = [i \in DOMAIN pairs |-> Swap(pairs[i])]
  BY <1>4 DEF pairs
<1>9. ASSUME NEW i \in 1..h
      PROVE  Swap(pairs[i]) = [home |-> s[x], away |-> s[y]]
                <=> pairs[i] = [home |-> s[y], away |-> s[x]]
  BY <1>2 DEF Swap, PairAt
<1>10. Meeting(s, r, s[x], s[y]) <=> Hosts(x, y, r, n)
  BY <1>2, <1>3, <1>7 DEF Meeting
<1>11. Meeting(s, r + n - 1, s[x], s[y]) <=> Hosts(y, x, r, n)
  <2>1. PICK ws : ws = WeekPairs(s, r + n - 1)
    OBVIOUS
  <2>2. DOMAIN ws = 1..h /\ \A i \in 1..h : ws[i] = Swap(pairs[i])
    BY <1>2, <1>8, <2>1
  <2>3. Meeting(s, r + n - 1, s[x], s[y]) <=>
           \E i \in DOMAIN ws : ws[i] = [home |-> s[x], away |-> s[y]]
    BY <2>1 DEF Meeting
  <2>4. Meeting(s, r + n - 1, s[x], s[y]) <=>
           \E i \in 1..h : pairs[i] = [home |-> s[y], away |-> s[x]]
    BY <1>9, <2>2, <2>3
  <2> QED
    BY <1>3, <2>4
<1> QED
  BY <1>2, <1>7, <1>8, <1>10, <1>11

\* The same pairs of teams, home and away exchanged or not.
SamePairs(p, q) ==
    /\ DOMAIN p = DOMAIN q
    /\ \A i \in DOMAIN p : \/ p[i].home = q[i].home /\ p[i].away = q[i].away
                           \/ p[i].home = q[i].away /\ p[i].away = q[i].home

\* A week's pairs are those of its round, sides exchanged or not.
LEMMA WeekOfRound ==
    ASSUME NEW T, NEW s \in Seq(T), NEW h \in Nat \ {0}, NEW n \in Nat, Circle(s, h, n),
           NEW r \in 1..n - 1
    PROVE  /\ DOMAIN RoundRobin(s)[r] = 1..h
           /\ SamePairs(WeekPairs(s, r), RoundRobin(s)[r])
           /\ SamePairs(WeekPairs(s, r + n - 1), RoundRobin(s)[r])
<1>1. DOMAIN RoundRobin(s)[r] = 1..h
  BY RoundAt
<1>2. /\ WeekPairs(s, r) = RoundRobin(s)[r]
      /\ WeekPairs(s, r + n - 1) = [i \in DOMAIN RoundRobin(s)[r] |-> Swap(RoundRobin(s)[r][i])]
  BY RoundOfWeek
<1>3. PICK pairs : pairs = RoundRobin(s)[r]
  OBVIOUS
<1>4. SamePairs(pairs, pairs) /\ SamePairs([i \in DOMAIN pairs |-> Swap(pairs[i])], pairs)
  BY DEF SamePairs, Swap
<1>5. SamePairs(WeekPairs(s, r), RoundRobin(s)[r])
  BY <1>2, <1>3, <1>4
<1>6. SamePairs(WeekPairs(s, r + n - 1), RoundRobin(s)[r])
  BY <1>2, <1>3, <1>4
<1> QED
  BY <1>1, <1>5, <1>6

\* Each round has every team: a team stands in the upper half of the circle or opposite.
LEMMA RoundCovers ==
    ASSUME NEW T, NEW s \in Seq(T), NEW h \in Nat \ {0}, NEW n \in Nat, Circle(s, h, n),
           NEW r \in 1..n - 1
    PROVE  /\ \A i \in 1..h : /\ RoundRobin(s)[r][i].home \in {s[j] : j \in 1..n}
                              /\ RoundRobin(s)[r][i].away \in {s[j] : j \in 1..n}
           /\ \A x \in 1..n : \E i \in 1..h :
                 s[x] \in {RoundRobin(s)[r][i].home, RoundRobin(s)[r][i].away}
<1>1. n \in Nat /\ n >= 2 /\ n = 2 * h
  BY DEF Circle
<1>2. \A i \in 1..h : HomePlace(i, r, n) \in 1..n /\ RoundRobin(s)[r][i] = PairAt(s, i, r, n)
  BY RoundAt
<1>3. PICK k \in 0..n - 2 : k = r - 1
  BY <1>1
<1>4. \A i \in 1..h : /\ RoundRobin(s)[r][i].home = s[Stood(HomePlace(i, r, n), k, n)]
                      /\ RoundRobin(s)[r][i].away = s[Stood(n + 1 - HomePlace(i, r, n), k, n)]
  <2>1. ASSUME NEW i \in 1..h
        PROVE  /\ RoundRobin(s)[r][i].home = s[Stood(HomePlace(i, r, n), k, n)]
               /\ RoundRobin(s)[r][i].away = s[Stood(n + 1 - HomePlace(i, r, n), k, n)]
    <3>1. PICK pair : pair = RoundRobin(s)[r][i]
      OBVIOUS
    <3>2. pair = PairAt(s, i, r, n)
      BY <1>2, <3>1
    <3> QED
      BY <1>3, <3>1, <3>2 DEF PairAt
  <2> QED
    BY <2>1
<1>5. ASSUME NEW i \in 1..h
      PROVE  /\ RoundRobin(s)[r][i].home \in {s[j] : j \in 1..n}
             /\ RoundRobin(s)[r][i].away \in {s[j] : j \in 1..n}
  <2>1. PICK p \in 1..n, q \in 1..n : p = HomePlace(i, r, n) /\ q = n + 1 - p
    <3>1. PICK p \in 1..n : p = HomePlace(i, r, n)
      BY <1>2
    <3>2. n + 1 - p \in 1..n
      BY <1>1
    <3> QED
      BY <3>1, <3>2
  <2>2. Stood(p, k, n) \in 1..n /\ Stood(q, k, n) \in 1..n
    BY <1>1, PlaceStood
  <2> QED
    BY <1>4, <2>1, <2>2
<1>6. ASSUME NEW x \in 1..n
      PROVE  \E i \in 1..h : s[x] \in {RoundRobin(s)[r][i].home, RoundRobin(s)[r][i].away}
  <2>1. PICK p \in 1..n : p = Place(x, k, n) /\ Stood(p, k, n) = x
    <3>1. Place(x, k, n) \in 1..n /\ Stood(Place(x, k, n), k, n) = x
      BY <1>1, PlaceStood
    <3> QED
      BY <3>1
  <2>2. PICK i \in 1..h : i = p \/ i = n + 1 - p
    <3>1. CASE p <= h
      <4>1. p \in 1..h
        BY <1>1, <3>1
      <4> QED
        BY <4>1
    <3>2. CASE p > h
      <4>1. n + 1 - p \in 1..h
        BY <1>1, <3>2
      <4> QED
        BY <4>1
    <3> QED
      BY <1>1, <3>1, <3>2
  <2>3. HomePlace(i, r, n) = p \/ n + 1 - HomePlace(i, r, n) = p
    BY <1>1, <2>2 DEF HomePlace
  <2> QED
    BY <1>4, <2>1, <2>3
<1> QED
  BY <1>5, <1>6

\* Whom the circle pairs: for any even number of distinct teams each plays once a week,
\* any two meet once a cycle, and over two cycles each of them is once at home.
THEOREM CircleIsFair ==
    ASSUME NEW T, NEW s \in Seq(T), NEW h \in Nat \ {0}, Len(s) = 2 * h, Distinct(s)
    PROVE  FairFor(s)
<1>0. PICK n \in Nat : n = 2 * h /\ Len(s) = n /\ Circle(s, h, n)
  BY DEF Circle
<1> DEFINE cycle == n - 1
           teams == {s[i] : i \in DOMAIN s}
           Pairs(w) == WeekPairs(s, w)
<1>1. n \in Nat /\ n >= 2 /\ DOMAIN s = 1..n /\ cycle \in Nat /\ cycle = n - 1
  BY <1>0
<1> HIDE DEF cycle
<1>2. \A w \in 1..2 * cycle : \/ w \in 1..n - 1
                              \/ \E r \in 1..n - 1 : w = r + n - 1
  <2> SUFFICES ASSUME NEW w \in 1..2 * cycle, w \notin 1..n - 1
               PROVE  \E r \in 1..n - 1 : w = r + n - 1
    OBVIOUS
  <2>1. w - cycle \in 1..n - 1 /\ w = (w - cycle) + n - 1
    BY <1>1
  <2> QED
    BY <2>1
<1>3. ASSUME NEW w \in 1..2 * cycle
      PROVE  {Pairs(w)[i].home : i \in DOMAIN Pairs(w)} \cup {Pairs(w)[i].away : i \in DOMAIN Pairs(w)}
                = teams
  <2>1. PICK r \in 1..n - 1 : w = r \/ w = r + n - 1
    BY <1>2
  <2>2. PICK pairs : pairs = RoundRobin(s)[r]
    OBVIOUS
  <2>3. /\ DOMAIN pairs = 1..h
        /\ \A i \in 1..h : pairs[i].home \in teams /\ pairs[i].away \in teams
        /\ \A x \in 1..n : \E i \in 1..h : s[x] \in {pairs[i].home, pairs[i].away}
    <3>1. DOMAIN pairs = 1..h
      BY <1>0, <2>2, RoundAt
    <3>2. /\ \A i \in 1..h : /\ pairs[i].home \in {s[j] : j \in 1..n}
                             /\ pairs[i].away \in {s[j] : j \in 1..n}
          /\ \A x \in 1..n : \E i \in 1..h : s[x] \in {pairs[i].home, pairs[i].away}
      BY <1>0, <2>2, RoundCovers
    <3> QED
      BY <1>1, <3>1, <3>2
  <2>4. /\ DOMAIN Pairs(w) = 1..h
        /\ \A i \in 1..h : \/ Pairs(w)[i].home = pairs[i].home /\ Pairs(w)[i].away = pairs[i].away
                           \/ Pairs(w)[i].home = pairs[i].away /\ Pairs(w)[i].away = pairs[i].home
    <3>1. /\ DOMAIN RoundRobin(s)[r] = 1..h
          /\ SamePairs(WeekPairs(s, r), RoundRobin(s)[r])
          /\ SamePairs(WeekPairs(s, r + n - 1), RoundRobin(s)[r])
      BY <1>0, WeekOfRound
    <3>2. SamePairs(WeekPairs(s, w), pairs) /\ DOMAIN pairs = 1..h
      BY <2>1, <2>2, <3>1
    <3> QED
      BY <3>2 DEF SamePairs
  <2> HIDE DEF Pairs
  <2>5. ASSUME NEW t \in teams
        PROVE  \E i \in 1..h : t = Pairs(w)[i].home \/ t = Pairs(w)[i].away
    <3>1. PICK x \in 1..n : t = s[x]
      BY <1>1
    <3>2. PICK i \in 1..h : s[x] \in {pairs[i].home, pairs[i].away}
      BY <2>3
    <3> QED
      BY <2>4, <3>1, <3>2
  <2>6. \A i \in 1..h : Pairs(w)[i].home \in teams /\ Pairs(w)[i].away \in teams
    BY <2>3, <2>4
  <2>7. PICK sides : sides = Pairs(w)
    OBVIOUS
  <2> HIDE DEF teams
  <2>8. {sides[i].home : i \in 1..h} \cup {sides[i].away : i \in 1..h} = teams
    BY <2>5, <2>6, <2>7
  <2> QED
    BY <2>4, <2>7, <2>8
<1>4. ASSUME NEW t \in teams, NEW u \in teams \ {t}
      PROVE  /\ Cardinality({w \in 1..cycle : Meeting(s, w, t, u) \/ Meeting(s, w, u, t)}) = 1
             /\ Cardinality({w \in 1..2 * cycle : Meeting(s, w, t, u)}) = 1
  <2>1. PICK x \in 1..n, y \in 1..n : t = s[x] /\ u = s[y]
    BY <1>1
  <2>2. x # y
    BY <2>1
  <2>3. PICK k \in 0..n - 2 :
           /\ Place(x, k, n) + Place(y, k, n) = n + 1
           /\ \A m \in 0..n - 2 : Place(x, m, n) + Place(y, m, n) = n + 1 => m = k
    BY <1>0, <2>2, AcrossOnce
  <2>4. PICK r \in 1..n - 1 : r - 1 = k
    <3>1. k + 1 \in 1..n - 1 /\ k + 1 - 1 = k
      BY <1>1
    <3> QED
      BY <3>1
  <2>5. Hosts(x, y, r, n) <=> ~Hosts(y, x, r, n)
    BY <1>0, <2>3, <2>4, OneHosts
  <2>6. \A w \in 1..n - 1 : Hosts(x, y, w, n) \/ Hosts(y, x, w, n) => w = r
    <3> SUFFICES ASSUME NEW w \in 1..n - 1, Hosts(x, y, w, n) \/ Hosts(y, x, w, n) PROVE w = r
      OBVIOUS
    <3>1. PICK m \in 0..n - 2 : m = w - 1
      BY <1>1
    <3>2. Place(x, m, n) \in 1..n /\ Place(y, m, n) \in 1..n
      BY <1>1, PlaceStood
    <3>3. \/ Place(x, m, n) + Place(y, m, n) = n + 1
          \/ Place(y, m, n) + Place(x, m, n) = n + 1
      BY <3>1 DEF Hosts
    <3>4. m = k
      BY <2>3, <3>2, <3>3
    <3> QED
      BY <1>1, <2>4, <3>1, <3>4
  <2>7. ASSUME NEW w \in 1..n - 1
        PROVE  /\ Meeting(s, w, t, u) <=> Hosts(x, y, w, n)
               /\ Meeting(s, w, u, t) <=> Hosts(y, x, w, n)
               /\ Meeting(s, w + n - 1, t, u) <=> Hosts(y, x, w, n)
    BY <1>0, <2>1, WeekMeets
  <2>8. {w \in 1..cycle : Meeting(s, w, t, u) \/ Meeting(s, w, u, t)} = {r}
    BY <1>1, <2>5, <2>6, <2>7
  <2>9. \E v : {w \in 1..2 * cycle : Meeting(s, w, t, u)} = {v}
    <3>1. \A w \in 1..2 * cycle : Meeting(s, w, t, u) =>
             IF Hosts(x, y, r, n) THEN w = r ELSE w = r + n - 1
      <4> SUFFICES ASSUME NEW w \in 1..2 * cycle, Meeting(s, w, t, u)
                   PROVE  IF Hosts(x, y, r, n) THEN w = r ELSE w = r + n - 1
        OBVIOUS
      <4>1. CASE w \in 1..n - 1
        BY <2>5, <2>6, <2>7, <4>1
      <4>2. ASSUME NEW v \in 1..n - 1, w = v + n - 1
            PROVE  IF Hosts(x, y, r, n) THEN w = r ELSE w = r + n - 1
        <5>1. Hosts(y, x, v, n)
          BY <2>7, <4>2
        <5>2. v = r
          BY <2>6, <5>1
        <5> QED
          BY <2>5, <4>2, <5>1, <5>2
      <4> QED
        BY <1>2, <4>1, <4>2
    <3>2. r \in 1..2 * cycle /\ r + n - 1 \in 1..2 * cycle
      BY <1>1
    <3>3. CASE Hosts(x, y, r, n)
      <4>1. Meeting(s, r, t, u)
        BY <2>7, <3>3
      <4>2. {w \in 1..2 * cycle : Meeting(s, w, t, u)} = {r}
        BY <3>1, <3>2, <3>3, <4>1
      <4> QED
        BY <4>2
    <3>4. CASE ~Hosts(x, y, r, n)
      <4>1. Meeting(s, r + n - 1, t, u)
        BY <2>5, <2>7, <3>4
      <4>2. {w \in 1..2 * cycle : Meeting(s, w, t, u)} = {r + n - 1}
        BY <3>1, <3>2, <3>4, <4>1
      <4> QED
        BY <4>2
    <3> QED
      BY <3>3, <3>4
  <2> QED
    BY <2>8, <2>9, FS_Singleton
<1> HIDE DEF teams, Pairs
<1> QED
  BY <1>0, <1>3, <1>4 DEF FairFor, teams, Pairs, cycle
-----------------------------------------------------------------------------
(* The buckets of points allowed.                                          *)

\* The i-th bucket of points allowed.
LEMMA BucketOf ==
    /\ DOMAIN PointsAllowed = 1..7
    /\ PointsAllowed[1] = Bucket(0, 0, 10) /\ PointsAllowed[2] = Bucket(1, 6, 7)
    /\ PointsAllowed[3] = Bucket(7, 13, 4) /\ PointsAllowed[4] = Bucket(14, 20, 1)
    /\ PointsAllowed[5] = Bucket(21, 27, 0) /\ PointsAllowed[6] = Bucket(28, 34, -1)
    /\ PointsAllowed[7] = Bucket(35, None, -4)
BY DEF PointsAllowed

\* Which bucket holds a value.
BucketFor(v) ==
    IF v = 0 THEN 1 ELSE IF v <= 6 THEN 2 ELSE IF v <= 13 THEN 3 ELSE IF v <= 20 THEN 4
    ELSE IF v <= 27 THEN 5 ELSE IF v <= 34 THEN 6 ELSE 7

PointsFor(v) ==
    IF v = 0 THEN 10 ELSE IF v <= 6 THEN 7 ELSE IF v <= 13 THEN 4 ELSE IF v <= 20 THEN 1
    ELSE IF v <= 27 THEN 0 ELSE IF v <= 34 THEN -1 ELSE -4

LEMMA OneBucketHolds ==
    ASSUME None \notin Int, NEW v \in Nat
    PROVE  /\ Holding(PointsAllowed, v) = {BucketFor(v)}
           /\ BucketPoints(PointsAllowed, v) = PointsFor(v)
<1>1. ASSUME NEW i \in 1..7
      PROVE  Holds(PointsAllowed[i], v) <=> i = BucketFor(v)
  <2>1. CASE i = 1
    BY <2>1, BucketOf DEF Bucket, Holds, BucketFor
  <2>2. CASE i = 2
    BY <2>2, BucketOf DEF Bucket, Holds, BucketFor
  <2>3. CASE i = 3
    BY <2>3, BucketOf DEF Bucket, Holds, BucketFor
  <2>4. CASE i = 4
    BY <2>4, BucketOf DEF Bucket, Holds, BucketFor
  <2>5. CASE i = 5
    BY <2>5, BucketOf DEF Bucket, Holds, BucketFor
  <2>6. CASE i = 6
    BY <2>6, BucketOf DEF Bucket, Holds, BucketFor
  <2>7. CASE i = 7
    BY <2>7, BucketOf DEF Bucket, Holds, BucketFor
  <2> QED
    BY <2>1, <2>2, <2>3, <2>4, <2>5, <2>6, <2>7
<1>2. BucketFor(v) \in 1..7
  BY DEF BucketFor
<1>3. Holding(PointsAllowed, v) = {BucketFor(v)}
  BY <1>1, <1>2, BucketOf DEF Holding
<1>4. \A b \in 1..7 : Min({b}) = b
  BY DEF Min
<1>5. BucketPoints(PointsAllowed, v) = PointsAllowed[BucketFor(v)].points
  BY <1>2, <1>3, <1>4 DEF BucketPoints
<1>6. PointsAllowed[BucketFor(v)].points = PointsFor(v)
  BY BucketOf DEF Bucket, BucketFor, PointsFor
<1> QED
  BY <1>3, <1>5, <1>6

\* The scoring of points allowed, whatever the number of points: exactly one bucket holds
\* it, and a defence that allows more never scores more.
THEOREM BucketsAreFair ==
    ASSUME None \notin Int, NEW most \in Nat
    PROVE  FairBuckets(PointsAllowed, most)
<1> SUFFICES ASSUME NEW v \in 0..most
             PROVE  /\ Cardinality(Holding(PointsAllowed, v)) = 1
                    /\ BucketPoints(PointsAllowed, v + 1) <= BucketPoints(PointsAllowed, v)
  BY DEF FairBuckets
<1>1. v \in Nat /\ v + 1 \in Nat
  OBVIOUS
<1>2. Holding(PointsAllowed, v) = {BucketFor(v)}
  BY <1>1, OneBucketHolds
<1>3. Cardinality(Holding(PointsAllowed, v)) = 1
  BY <1>2, FS_Singleton
<1>4. PICK u \in Nat : u = v + 1
  BY <1>1
<1>5. /\ BucketPoints(PointsAllowed, v) = PointsFor(v)
      /\ BucketPoints(PointsAllowed, u) = PointsFor(u)
  BY <1>1, OneBucketHolds
<1>6. PointsFor(u) <= PointsFor(v)
  BY <1>1, <1>4 DEF PointsFor
<1> QED
  BY <1>3, <1>4, <1>5, <1>6
-----------------------------------------------------------------------------
(* Percentages are compared by cross products, which is a total preorder.  *)

LEMMA ProductMonotonic ==
    ASSUME NEW x \in Nat, NEW y \in Nat, NEW g \in Nat, x <= y
    PROVE  x * g <= y * g
OBVIOUS

LEMMA ProductCancels ==
    ASSUME NEW x \in Nat, NEW y \in Nat, NEW h \in Nat, h > 0, x * h <= y * h
    PROVE  x <= y
OBVIOUS

\* If b/h is at most a/g and c/k at most b/h, then c/k is at most a/g.
LEMMA CrossTransitive ==
    ASSUME NEW a \in Nat, NEW b \in Nat, NEW c \in Nat,
           NEW g \in Nat, NEW h \in Nat, NEW k \in Nat,
           h > 0, b * g <= a * h, c * h <= b * k
    PROVE  c * g <= a * k
<1>1. (c * h) * g <= (b * k) * g
  BY ProductMonotonic
<1>2. (b * g) * k <= (a * h) * k
  BY ProductMonotonic
<1>3. (c * h) * g = (c * g) * h /\ (b * k) * g = (b * g) * k /\ (a * h) * k = (a * k) * h
  OBVIOUS
<1>4. (c * g) * h <= (a * k) * h
  BY <1>1, <1>2, <1>3
<1> QED
  BY <1>4, ProductCancels

LEMMA PercentageOrder ==
    ASSUME NEW r \in Records, NEW q \in Records, NEW s \in Records
    PROVE  /\ BetterPercentage(r, q) => ~BetterPercentage(q, r)
           /\ ~BetterPercentage(q, r) /\ ~BetterPercentage(s, q) => ~BetterPercentage(s, r)
<1> DEFINE Num(t) == 2 * t.wins + t.ties
<1>1. \A t \in Records : Num(t) \in Nat /\ Games(t) \in Nat /\ (Games(t) = 0 => Num(t) = 0)
  BY DEF Games, Records
<1>2. \A t, u : BetterPercentage(t, u) <=>
                   IF Games(u) = 0 THEN Num(t) > 0
                   ELSE Games(t) > 0 /\ Num(t) * Games(u) > Num(u) * Games(t)
  BY DEF BetterPercentage, Better
<1> HIDE DEF Num
<1> DEFINE xr == Num(r)
           xq == Num(q)
           xs == Num(s)
           gr == Games(r)
           gq == Games(q)
           gs == Games(s)
<1>3. /\ xr \in Nat /\ xq \in Nat /\ xs \in Nat /\ gr \in Nat /\ gq \in Nat /\ gs \in Nat
      /\ gr = 0 => xr = 0
      /\ gq = 0 => xq = 0
      /\ gs = 0 => xs = 0
  BY <1>1
<1>4. /\ BetterPercentage(r, q) <=> IF gq = 0 THEN xr > 0 ELSE gr > 0 /\ xr * gq > xq * gr
      /\ BetterPercentage(q, r) <=> IF gr = 0 THEN xq > 0 ELSE gq > 0 /\ xq * gr > xr * gq
      /\ BetterPercentage(s, q) <=> IF gq = 0 THEN xs > 0 ELSE gs > 0 /\ xs * gq > xq * gs
      /\ BetterPercentage(s, r) <=> IF gr = 0 THEN xs > 0 ELSE gs > 0 /\ xs * gr > xr * gs
  BY <1>2
<1> HIDE DEF xr, xq, xs, gr, gq, gs
<1>5. BetterPercentage(r, q) => ~BetterPercentage(q, r)
  <2> DEFINE m == xr * gq
             n == xq * gr
  <2>1. m \in Nat /\ n \in Nat
    BY <1>3
  <2>2. BetterPercentage(r, q) <=> IF gq = 0 THEN xr > 0 ELSE gr > 0 /\ m > n
    BY <1>4
  <2>3. BetterPercentage(q, r) <=> IF gr = 0 THEN xq > 0 ELSE gq > 0 /\ n > m
    BY <1>4
  <2> HIDE DEF m, n
  <2> QED
    BY <1>3, <2>1, <2>2, <2>3
<1>6. ASSUME ~BetterPercentage(q, r), ~BetterPercentage(s, q) PROVE ~BetterPercentage(s, r)
  <2>1. CASE gq = 0
    <3>1. xs = 0
      BY <1>3, <1>4, <1>6, <2>1
    <3>2. xs * gr = 0 /\ xr * gs \in Nat
      BY <1>3, <3>1
    <3> QED
      BY <1>3, <1>4, <3>1, <3>2
  <2>2. CASE gq > 0 /\ gr = 0
    <3>1. xq = 0
      BY <1>3, <1>4, <1>6, <2>2
    <3>2. xq * gs = 0
      BY <1>3, <3>1
    <3>3. gs > 0 => xs * gq <= 0
      BY <1>3, <1>4, <1>6, <2>2, <3>2
    <3>4. xs = 0
      BY <1>3, <2>2, <3>3
    <3> QED
      BY <1>4, <2>2, <3>4
  <2>3. CASE gq > 0 /\ gr > 0 /\ gs > 0
    <3>1. xq * gr <= xr * gq /\ xs * gq <= xq * gs
      BY <1>3, <1>4, <1>6, <2>3
    <3>2. xs * gr <= xr * gs
      BY <1>3, <2>3, <3>1, CrossTransitive
    <3> QED
      BY <1>3, <1>4, <2>3, <3>2
  <2>4. CASE gs = 0 /\ gr > 0
    BY <1>4, <2>4
  <2> QED
    BY <1>3, <2>1, <2>2, <2>3, <2>4
<1> QED
  BY <1>5, <1>6

LEMMA OrderFacts ==
    /\ DOMAIN Order = 1..Len(Order) /\ Len(Order) \in Nat /\ Len(Order) >= 4
    /\ IsFiniteSet(DOMAIN Order) /\ Cardinality(DOMAIN Order) = Len(Order)
    /\ Cardinality(Teams) = Len(Order)
<1>1. /\ Order \in Seq(Teams) /\ Len(Order) >= 4 /\ Cardinality(Teams) = Len(Order)
  BY SeasonAssumption DEF SeasonAssumption
<1> HIDE DEF Teams
<1>2. DOMAIN Order = 1..Len(Order) /\ Len(Order) \in Nat
  BY <1>1
<1>3. IsFiniteSet(1..Len(Order)) /\ Cardinality(1..Len(Order)) = Len(Order)
  <2>1. PICK n \in Nat : n = Len(Order) /\ n >= 4
    BY <1>1, <1>2
  <2>2. IsFiniteSet(1..n) /\ Cardinality(1..n) = n
    <3>1. 1 \in Int /\ n \in Int /\ 1 <= n /\ n - 1 + 1 = n
      BY <2>1
    <3> QED
      BY <3>1, FS_Interval
  <2> QED
    BY <2>1, <2>2
<1> QED
  BY <1>1, <1>2, <1>3

\* The four best of a table are four teams, none with a better percentage than one before.
LEMMA TableSeeds ==
    ASSUME NEW ms, NEW rec \in [Teams -> Records], NEW table \in Tables(ms, rec)
    PROVE  /\ \A i \in 1..4 : table[i] \in Teams
           /\ SeedsInOrder(<<table[1], table[2], table[3], table[4]>>, rec)
<1>1. /\ table \in [DOMAIN Order -> Teams] /\ {table[i] : i \in DOMAIN table} = Teams
      /\ \A i \in 1..Len(Order) - 1 : Ahead(ms, rec, table[i], table[i + 1])
  BY DEF Tables
<1>2. /\ DOMAIN Order = 1..Len(Order) /\ Len(Order) \in Nat /\ Len(Order) >= 4
      /\ IsFiniteSet(DOMAIN Order) /\ Cardinality(DOMAIN Order) = Len(Order)
      /\ Cardinality(Teams) = Len(Order)
  BY OrderFacts
<1> HIDE DEF Teams
<1>3. \A t \in Teams : \E i \in DOMAIN Order : table[i] = t
  BY <1>1
<1>4. table \in Surjection(DOMAIN Order, Teams)
  BY <1>1, <1>3 DEF Surjection
<1>5. table \in Injection(DOMAIN Order, Teams)
  BY <1>2, <1>4, FS_SurjSameCardinalityImpliesInj
<1>6. \A i, j \in DOMAIN Order : i # j => table[i] # table[j]
  BY <1>5 DEF Injection, IsInjective
<1>7. \A i \in 1..4 : i \in DOMAIN Order /\ table[i] \in Teams /\ rec[table[i]] \in Records
  BY <1>1, <1>2
<1> DEFINE Behind(i, j) == ~BetterPercentage(rec[table[j]], rec[table[i]])
<1>8. \A i \in 1..3 : Behind(i, i + 1)
  <2> SUFFICES ASSUME NEW i \in 1..3 PROVE Behind(i, i + 1)
    OBVIOUS
  <2>1. i \in 1..4 /\ i + 1 \in 1..4 /\ i \in 1..Len(Order) - 1
    BY <1>2
  <2>2. Ahead(ms, rec, table[i], table[i + 1])
    BY <1>1, <2>1
  <2>3. rec[table[i]] \in Records /\ rec[table[i + 1]] \in Records
    BY <1>7, <2>1
  <2> QED
    BY <2>2, <2>3, PercentageOrder DEF Ahead
<1>9. \A i, j, k \in 1..4 : Behind(i, j) /\ Behind(j, k) => Behind(i, k)
  <2> SUFFICES ASSUME NEW i \in 1..4, NEW j \in 1..4, NEW k \in 1..4,
                      Behind(i, j), Behind(j, k)
               PROVE  Behind(i, k)
    OBVIOUS
  <2>1. /\ rec[table[i]] \in Records /\ rec[table[j]] \in Records /\ rec[table[k]] \in Records
    BY <1>7
  <2> QED
    BY <2>1, PercentageOrder
<1> HIDE DEF Behind
<1>10. \A i, j \in 1..4 : i < j => Behind(i, j)
  <2>1. Behind(1, 2) /\ Behind(2, 3) /\ Behind(3, 4)
    BY <1>8
  <2>2. Behind(1, 3) /\ Behind(2, 4)
    BY <1>9, <2>1
  <2>3. Behind(1, 4)
    BY <1>9, <2>1, <2>2
  <2> QED
    BY <2>1, <2>2, <2>3
<1> DEFINE seeds == <<table[1], table[2], table[3], table[4]>>
<1>11. \A i \in 1..4 : seeds[i] = table[i]
  OBVIOUS
<1> HIDE DEF seeds
<1>12. SeedsInOrder(seeds, rec)
  <2> SUFFICES ASSUME NEW i \in 1..4, NEW j \in 1..4, i < j
               PROVE  seeds[i] # seeds[j] /\ ~BetterPercentage(rec[seeds[j]], rec[seeds[i]])
    BY DEF SeedsInOrder
  <2>1. Behind(i, j) /\ table[i] # table[j]
    BY <1>6, <1>7, <1>10
  <2> QED
    BY <1>11, <2>1 DEF Behind
<1> QED
  BY <1>7, <1>12 DEF seeds
-----------------------------------------------------------------------------
(* The inductive invariant, its parts as operators on the rows so that the *)
(* settling of a week and the bracket's step of one transaction compose.   *)

RegularGames == (1..RegularWeeks) \X (1..Len(Order) \div 2)
BracketGames == Semis \cup {Championship}
Row == [home : Teams \cup {None}, away : Teams \cup {None}, done : BOOLEAN,
        winner : Teams \cup {None}]
Matchups == [RegularGames -> Row] \cup [RegularGames \cup BracketGames -> Row]

TitleOK(ms) ==
    Championship \in DOMAIN ms =>
        \/ ms[Championship] = Scheduled(None, None)
        \/ /\ ms[<<PlayoffWeeks[1], 1>>].winner # None
           /\ ms[<<PlayoffWeeks[1], 2>>].winner # None
           /\ ms[Championship].home = ms[<<PlayoffWeeks[1], 1>>].winner
           /\ ms[Championship].away = ms[<<PlayoffWeeks[1], 2>>].winner

\* The regular games and the whole bracket or none of it; an open game has no winner.
MatchupsOK(ms) ==
    /\ ms \in Matchups
    /\ \A id \in DOMAIN ms : ~ms[id].done => ms[id].winner = None
    /\ TitleOK(ms)

Played(ms, t) == {id \in DOMAIN ms : ms[id].done /\ t \in {ms[id].home, ms[id].away}}
Won(ms, t) == {id \in Played(ms, t) : ms[id].winner = t}
Lost(ms, t) == {id \in Played(ms, t) : ms[id].winner \notin {t, None}}
Drawn(ms, t) == {id \in Played(ms, t) : ms[id].winner = None}

RecordsOK(ms, rec) ==
    /\ rec \in [Teams -> Records]
    /\ \A t \in Teams : /\ rec[t].wins = Cardinality(Won(ms, t))
                        /\ rec[t].losses = Cardinality(Lost(ms, t))
                        /\ rec[t].ties = Cardinality(Drawn(ms, t))

ChampionOK(ms, c) ==
    /\ c \in Teams \cup {None}
    /\ c # None => /\ Championship \in DOMAIN ms
                   /\ ms[Championship].done /\ ms[Championship].winner = c

RowsOK(ms, rec, c) == MatchupsOK(ms) /\ RecordsOK(ms, rec) /\ ChampionOK(ms, c)

Statuses == {"DRAFTING", "REGULAR_SEASON", "PLAYOFFS", "COMPLETE", "LOCKED"}

LeagueOK ==
    /\ status \in Statuses
    /\ locked \in BOOLEAN
    /\ week \in 0..LastWeek
    /\ draft \in {"ACTIVE", "PAUSED", "COMPLETED"}
    /\ weeks \in [Weeks -> WeekStates]
    /\ periods \subseteq Weeks
    /\ moves \in Nat

\* Final scores of a week are there for each of its matchups, of which it has one.
ScoresOK(ms, f) ==
    /\ DOMAIN f = Weeks
    /\ \A w \in Weeks : f[w] # None =>
          /\ \E id \in DOMAIN ms : id[1] = w
          /\ \A id \in DOMAIN ms : id[1] = w => f[w][id] \in [home : Nat, away : Nat]

JobsOK == jobs \subseteq Reads /\ \A r \in jobs : r.ended => final[r.week] # None

SeasonInv ==
    /\ LeagueOK
    /\ RowsOK(matchups, record, champion)
    /\ ScoresOK(matchups, final)
    /\ JobsOK

\* What a step leaves of the matchups: the rows, and those complete as they are.
Kept(ms, next) ==
    \A id \in DOMAIN ms : id \in DOMAIN next /\ (ms[id].done => next[id] = ms[id])

-----------------------------------------------------------------------------
(* The games' numbers.                                                     *)

LEMMA SeasonFacts ==
    /\ RegularWeeks \in Nat /\ RegularWeeks >= 1 /\ LastWeek \in Nat
    /\ PlayoffWeeks[1] \in Weeks /\ PlayoffWeeks[2] \in Weeks
    /\ RegularWeeks < PlayoffWeeks[1] /\ PlayoffWeeks[1] < PlayoffWeeks[2]
    /\ Weeks \subseteq Nat /\ 1 \in Weeks /\ None \notin Teams
    /\ \A w \in 1..RegularWeeks : w \in Weeks
<1>1. PlayoffWeeks[1] \in Nat /\ PlayoffWeeks[2] \in Nat
  <2>1. PlayoffWeeks \in Seq(Nat) /\ Len(PlayoffWeeks) = 2
    BY SeasonAssumption DEF SeasonAssumption
  <2>2. 1 \in 1..Len(PlayoffWeeks) /\ 2 \in 1..Len(PlayoffWeeks)
    BY <2>1
  <2> QED
    BY <2>1, <2>2, ElementOfSeq
<1> QED
  BY <1>1, SeasonAssumption DEF SeasonAssumption, Weeks

LEMMA GamesFacts ==
    /\ RegularGames \cup BracketGames \subseteq Weeks \X (1..Len(Order))
    /\ \A id \in RegularGames : id[1] \in 1..RegularWeeks /\ id \notin BracketGames
    /\ \A id \in BracketGames : id[1] \in {PlayoffWeeks[1], PlayoffWeeks[2]}
    /\ <<PlayoffWeeks[1], 1>> # <<PlayoffWeeks[1], 2>>
    /\ Championship \notin Semis
    /\ IsFiniteSet(RegularGames) /\ IsFiniteSet(RegularGames \cup BracketGames)
<1>1. /\ Len(Order) \in Nat /\ Len(Order) >= 4 /\ Len(Order) \div 2 \in Nat
      /\ Len(Order) \div 2 <= Len(Order)
  BY OrderFacts
<1> HIDE DEF Weeks, Teams
<1>2. RegularGames \subseteq Weeks \X (1..Len(Order))
  BY <1>1, SeasonFacts DEF RegularGames
<1>3. BracketGames \subseteq Weeks \X (1..Len(Order))
  BY <1>1, SeasonFacts DEF BracketGames, Semis, Championship
<1>4. \A id \in BracketGames : id[1] \in {PlayoffWeeks[1], PlayoffWeeks[2]}
  BY DEF BracketGames, Semis, Championship
<1>5. \A id \in RegularGames : id[1] \in 1..RegularWeeks
  BY DEF RegularGames
<1>6. PlayoffWeeks[1] \notin 1..RegularWeeks /\ PlayoffWeeks[2] \notin 1..RegularWeeks
  <2>1. PlayoffWeeks[1] \in Nat /\ PlayoffWeeks[2] \in Nat
    BY SeasonFacts
  <2> QED
    BY <2>1, SeasonFacts
<1>7. Championship \notin Semis
  <2>1. PlayoffWeeks[1] # PlayoffWeeks[2]
    <3>1. PlayoffWeeks[1] \in Nat /\ PlayoffWeeks[2] \in Nat
      BY SeasonFacts
    <3> QED
      BY <3>1, SeasonFacts
  <2> QED
    BY <2>1 DEF Championship, Semis
<1>8. IsFiniteSet(RegularGames)
  <2>1. PICK m \in Nat, n \in Nat : m = RegularWeeks /\ n = Len(Order) \div 2
    BY <1>1, SeasonFacts
  <2>2. IsFiniteSet(1..m) /\ IsFiniteSet(1..n)
    BY FS_Interval
  <2> QED
    BY <2>1, <2>2, FS_Product DEF RegularGames
<1>9. IsFiniteSet(RegularGames \cup BracketGames)
  <2>1. BracketGames = {<<PlayoffWeeks[1], 1>>} \cup ({<<PlayoffWeeks[1], 2>>} \cup {Championship})
    BY DEF BracketGames, Semis
  <2>2. /\ IsFiniteSet({<<PlayoffWeeks[1], 1>>}) /\ IsFiniteSet({<<PlayoffWeeks[1], 2>>})
        /\ IsFiniteSet({Championship})
    BY FS_Singleton
  <2>3. IsFiniteSet(BracketGames)
    BY <2>1, <2>2, FS_Union
  <2> QED
    BY <1>8, <2>3, FS_Union
<1> QED
  BY <1>2, <1>3, <1>4, <1>5, <1>6, <1>7, <1>8, <1>9

LEMMA MatchupsFacts ==
    ASSUME NEW ms \in Matchups
    PROVE  /\ IsFiniteSet(DOMAIN ms)
           /\ DOMAIN ms = RegularGames \/ DOMAIN ms = RegularGames \cup BracketGames
           /\ \A id \in DOMAIN ms : /\ ms[id] \in Row
                                    /\ id \in Weeks \X (1..Len(Order))
           /\ AlreadySeeded(ms) <=> DOMAIN ms = RegularGames \cup BracketGames
<1>1. /\ DOMAIN ms = RegularGames \/ DOMAIN ms = RegularGames \cup BracketGames
      /\ \A id \in DOMAIN ms : ms[id] \in Row
  BY DEF Matchups
<1>2. IsFiniteSet(DOMAIN ms) /\ \A id \in DOMAIN ms : id \in Weeks \X (1..Len(Order))
  <2> HIDE DEF Weeks
  <2> QED
    BY <1>1, GamesFacts
<1>3. AlreadySeeded(ms) <=> DOMAIN ms = RegularGames \cup BracketGames
  <2>1. Championship \in BracketGames
    BY DEF BracketGames
  <2>2. \A id \in RegularGames : id[1] \notin {PlayoffWeeks[1], PlayoffWeeks[2]}
    <3>1. PlayoffWeeks[1] \in Nat /\ PlayoffWeeks[2] \in Nat /\ RegularWeeks \in Nat
      BY SeasonFacts
    <3>2. RegularWeeks < PlayoffWeeks[1] /\ RegularWeeks < PlayoffWeeks[2]
      BY <3>1, SeasonFacts
    <3> QED
      BY <3>1, <3>2, GamesFacts
  <2> QED
    BY <1>1, <2>1, <2>2, GamesFacts DEF AlreadySeeded
<1> QED
  BY <1>1, <1>2, <1>3
-----------------------------------------------------------------------------
(* What each part of a transaction makes of the rows.                      *)

\* Rows that differ in games without a result only are counted alike.
LEMMA SameRecords ==
    ASSUME NEW ms, NEW next, NEW rec, RecordsOK(ms, rec), Kept(ms, next),
           \A id \in DOMAIN next : next[id].done => id \in DOMAIN ms /\ ms[id].done
    PROVE  RecordsOK(next, rec)
<1>1. \A t : Played(next, t) = Played(ms, t)
  BY DEF Played, Kept
<1>2. \A t : \A id \in Played(ms, t) : next[id] = ms[id]
  BY DEF Played, Kept
<1>3. \A t : Won(next, t) = Won(ms, t) /\ Lost(next, t) = Lost(ms, t) /\ Drawn(next, t) = Drawn(ms, t)
  BY <1>1, <1>2 DEF Won, Lost, Drawn
<1> QED
  BY <1>3 DEF RecordsOK

\* A count that grows by a disjoint set.
LEMMA CountBoth ==
    ASSUME NEW A, NEW B, IsFiniteSet(A), IsFiniteSet(B), A \cap B = {}
    PROVE  Cardinality(A \cup B) = Cardinality(A) + Cardinality(B)
<1>1. Cardinality(A \cup B) = Cardinality(A) + Cardinality(B) - Cardinality(A \cap B)
  BY FS_Union
<1>2. Cardinality(A) \in Nat /\ Cardinality(B) \in Nat
  BY FS_CardinalityType
<1>3. Cardinality(A \cap B) = 0
  BY FS_EmptySet
<1> QED
  BY <1>1, <1>2, <1>3

\* complete_matchup for a week: each open game of it is counted once, for each side.
LEMMA SettledRows ==
    ASSUME RowsOK(matchups, record, champion), NEW w, Playable(w), NEW score,
           \A id \in IdsOf(w) : score[id] \in [home : Nat, away : Nat],
           NEW ms, ms = Settled(w, score), NEW rec, rec = Credited(w, score)
    PROVE  RowsOK(ms, rec, champion) /\ DOMAIN ms = DOMAIN matchups /\ Kept(matchups, ms)
<1> DEFINE Now(id) == WinnerBy(matchups[id], score[id])
           New == Open(w)
<1>1. /\ matchups \in Matchups /\ TitleOK(matchups)
      /\ \A id \in DOMAIN matchups : ~matchups[id].done => matchups[id].winner = None
  BY DEF RowsOK, MatchupsOK
<1>2. /\ IsFiniteSet(DOMAIN matchups)
      /\ \A id \in DOMAIN matchups : matchups[id] \in Row
  BY <1>1, MatchupsFacts
<1>3. New \subseteq DOMAIN matchups /\ \A id \in New : ~matchups[id].done /\ id \in IdsOf(w)
  BY DEF Open, IdsOf
<1>4. /\ DOMAIN ms = DOMAIN matchups
      /\ \A id \in DOMAIN ms \ New : ms[id] = matchups[id]
      /\ \A id \in New : ms[id] = [matchups[id] EXCEPT !.done = TRUE, !.winner = Now(id)]
  BY <1>3 DEF Settled
<1>5. \A id \in New : /\ matchups[id].home \in Teams /\ matchups[id].away \in Teams
                      /\ Now(id) \in {matchups[id].home, matchups[id].away, None}
  BY <1>2, <1>3 DEF Playable, WinnerBy, Row
<1>6. \A id \in New : /\ ms[id].done /\ ms[id].winner = Now(id)
                      /\ ms[id].home = matchups[id].home /\ ms[id].away = matchups[id].away
                      /\ ms[id] \in Row
  <2> SUFFICES ASSUME NEW id \in New
               PROVE  /\ ms[id].done /\ ms[id].winner = Now(id)
                      /\ ms[id].home = matchups[id].home /\ ms[id].away = matchups[id].away
                      /\ ms[id] \in Row
    OBVIOUS
  <2>1. PICK row, winner : row = matchups[id] /\ winner = Now(id)
    OBVIOUS
  <2>2. row \in Row /\ row.home \in Teams /\ row.away \in Teams
        /\ winner \in {row.home, row.away, None}
    BY <1>2, <1>3, <1>5, <2>1
  <2>3. ms[id] = [row EXCEPT !.done = TRUE, !.winner = winner]
    BY <1>4, <2>1
  <2> HIDE DEF New, Now, Teams
  <2> QED
    BY <2>1, <2>2, <2>3 DEF Row
<1>7. Kept(matchups, ms)
  BY <1>3, <1>4 DEF Kept
<1>8. ms \in Matchups
  <2>1. \A id \in DOMAIN ms : ms[id] \in Row
    BY <1>2, <1>4, <1>6
  <2>2. ms = [id \in DOMAIN ms |-> ms[id]]
    <3> HIDE DEF New, Now
    <3> QED
      BY DEF Settled
  <2>3. DOMAIN matchups = RegularGames \/ DOMAIN matchups = RegularGames \cup BracketGames
    BY <1>1, MatchupsFacts
  <2> HIDE DEF New, Now
  <2>4. DOMAIN ms = RegularGames \/ DOMAIN ms = RegularGames \cup BracketGames
    BY <1>4, <2>3
  <2>5. ms \in [DOMAIN ms -> Row]
    BY <2>1, <2>2
  <2> QED
    BY <2>4, <2>5 DEF Matchups
<1>9. \A id \in DOMAIN ms : ~ms[id].done => ms[id].winner = None
  <2> TAKE id \in DOMAIN ms
  <2> HIDE DEF New, Now
  <2>1. CASE id \in New
    BY <1>6, <2>1
  <2>2. CASE id \notin New
    <3>1. id \in DOMAIN matchups /\ ms[id] = matchups[id]
      BY <1>4, <2>2
    <3> QED
      BY <1>1, <3>1
  <2> QED
    BY <2>1, <2>2
<1>10. TitleOK(ms)
  <2> SUFFICES ASSUME Championship \in DOMAIN matchups PROVE TitleOK(ms)
    BY <1>4 DEF TitleOK
  <2>1. Semis \subseteq DOMAIN matchups
    <3>1. DOMAIN matchups = RegularGames \cup BracketGames
      BY <1>1, MatchupsFacts, GamesFacts DEF BracketGames
    <3> QED
      BY <3>1 DEF BracketGames
  <2> DEFINE s == <<PlayoffWeeks[1], 1>>
             z == <<PlayoffWeeks[1], 2>>
  <2>2. s \in DOMAIN matchups /\ z \in DOMAIN matchups
    BY <2>1 DEF Semis
  <2> HIDE DEF s, z
  <2>3. CASE matchups[Championship] = Scheduled(None, None)
    <3>1. matchups[Championship].home = None
      BY <2>3 DEF Scheduled
    <3>2. None \notin Teams
      BY SeasonFacts
    <3>3. Championship \notin New
      BY <1>5, <3>1, <3>2
    <3>4. ms[Championship] = matchups[Championship]
      BY <1>4, <3>3
    <3> QED
      BY <2>3, <3>4 DEF TitleOK
  <2>4. CASE /\ matchups[s].winner # None /\ matchups[z].winner # None
             /\ matchups[Championship].home = matchups[s].winner
             /\ matchups[Championship].away = matchups[z].winner
    <3>1. s \notin New /\ z \notin New
      BY <1>1, <1>3, <2>2, <2>4
    <3>2. ms[s] = matchups[s] /\ ms[z] = matchups[z]
      BY <1>4, <2>2, <3>1
    <3>3. /\ ms[Championship].home = matchups[Championship].home
          /\ ms[Championship].away = matchups[Championship].away
      BY <1>4, <1>6
    <3> QED
      BY <2>4, <3>2, <3>3 DEF TitleOK, s, z
  <2> QED
    BY <1>1, <2>3, <2>4 DEF TitleOK, s, z
<1>11. RecordsOK(ms, rec)
  <2> DEFINE played(t) == {id \in New : t \in {matchups[id].home, matchups[id].away}}
             points(t) == [id \in played(t) |-> IF matchups[id].home = t THEN score[id].home
                                                                       ELSE score[id].away]
             won(t) == {id \in played(t) : Now(id) = t}
             lost(t) == {id \in played(t) : Now(id) \notin {t, None}}
             drawn(t) == {id \in played(t) : Now(id) = None}
  <2>1. rec = [t \in Teams |-> [wins |-> record[t].wins + Cardinality(won(t)),
                                losses |-> record[t].losses + Cardinality(lost(t)),
                                ties |-> record[t].ties + Cardinality(drawn(t)),
                                points |-> record[t].points + SumFunction(points(t))]]
    BY DEF Credited
  <2>2. ASSUME NEW t \in Teams
        PROVE  /\ IsFiniteSet(played(t)) /\ points(t) \in [played(t) -> Nat]
               /\ IsFiniteSet(won(t)) /\ IsFiniteSet(lost(t)) /\ IsFiniteSet(drawn(t))
    <3>1. IsFiniteSet(played(t))
      <4>1. played(t) \subseteq DOMAIN matchups
        BY <1>3
      <4> QED
        BY <1>2, <4>1, FS_Subset
    <3>2. IsFiniteSet(won(t)) /\ IsFiniteSet(lost(t)) /\ IsFiniteSet(drawn(t))
      <4>1. won(t) \subseteq played(t) /\ lost(t) \subseteq played(t) /\ drawn(t) \subseteq played(t)
        OBVIOUS
      <4> QED
        BY <3>1, <4>1, FS_Subset
    <3>3. \A id \in New : score[id].home \in Nat /\ score[id].away \in Nat
      BY <1>3
    <3> QED
      BY <3>1, <3>2, <3>3
  <2>3. ASSUME NEW t \in Teams
        PROVE  /\ Won(ms, t) = Won(matchups, t) \cup won(t) /\ Won(matchups, t) \cap won(t) = {}
               /\ Lost(ms, t) = Lost(matchups, t) \cup lost(t) /\ Lost(matchups, t) \cap lost(t) = {}
               /\ Drawn(ms, t) = Drawn(matchups, t) \cup drawn(t)
               /\ Drawn(matchups, t) \cap drawn(t) = {}
    <3>1. Played(ms, t) = Played(matchups, t) \cup played(t)
      <4>1. \A id \in New : id \notin Played(matchups, t) /\ id \in DOMAIN ms
        BY <1>3, <1>4 DEF Played
      <4>2. \A id \in New : id \in Played(ms, t) <=> id \in played(t)
        BY <1>6, <4>1 DEF Played
      <4>3. \A id : id \notin New => (id \in Played(ms, t) <=> id \in Played(matchups, t))
        BY <1>4 DEF Played
      <4>4. played(t) \subseteq New
        OBVIOUS
      <4> HIDE DEF played, New
      <4> QED
        BY <4>1, <4>2, <4>3, <4>4
    <3>2. \A id \in Played(matchups, t) : id \notin New /\ ms[id] = matchups[id]
      BY <1>3, <1>4 DEF Played
    <3>3. \A id \in played(t) : id \in New /\ ms[id].winner = Now(id)
      BY <1>6
    <3> HIDE DEF New, Now
    <3> QED
      BY <3>1, <3>2, <3>3 DEF Won, Lost, Drawn
  <2>4. ASSUME NEW t \in Teams
        PROVE  /\ IsFiniteSet(Won(matchups, t)) /\ IsFiniteSet(Lost(matchups, t))
               /\ IsFiniteSet(Drawn(matchups, t))
    <3>1. /\ Won(matchups, t) \subseteq DOMAIN matchups /\ Lost(matchups, t) \subseteq DOMAIN matchups
          /\ Drawn(matchups, t) \subseteq DOMAIN matchups
      BY DEF Won, Lost, Drawn, Played
    <3> QED
      BY <1>2, <3>1, FS_Subset
  <2>5. record \in [Teams -> Records]
        /\ \A t \in Teams : /\ record[t].wins = Cardinality(Won(matchups, t))
                            /\ record[t].losses = Cardinality(Lost(matchups, t))
                            /\ record[t].ties = Cardinality(Drawn(matchups, t))
    BY DEF RowsOK, RecordsOK
  <2>6. ASSUME NEW t \in Teams
        PROVE  /\ Cardinality(won(t)) \in Nat /\ Cardinality(lost(t)) \in Nat
               /\ Cardinality(drawn(t)) \in Nat /\ SumFunction(points(t)) \in Nat
    BY <2>2, FS_CardinalityType, SumIsNatural
  <2>7. ASSUME NEW t \in Teams
        PROVE  /\ Cardinality(Won(ms, t)) = record[t].wins + Cardinality(won(t))
               /\ Cardinality(Lost(ms, t)) = record[t].losses + Cardinality(lost(t))
               /\ Cardinality(Drawn(ms, t)) = record[t].ties + Cardinality(drawn(t))
    <3>1. PICK a, b, c : a = Won(matchups, t) /\ b = Lost(matchups, t) /\ c = Drawn(matchups, t)
      OBVIOUS
    <3>2. PICK x, y, z : x = won(t) /\ y = lost(t) /\ z = drawn(t)
      OBVIOUS
    <3>3. /\ IsFiniteSet(a) /\ IsFiniteSet(b) /\ IsFiniteSet(c)
          /\ IsFiniteSet(x) /\ IsFiniteSet(y) /\ IsFiniteSet(z)
      BY <2>2, <2>4, <3>1, <3>2
    <3> HIDE DEF won, lost, drawn
    <3>4. /\ Won(ms, t) = a \cup x /\ a \cap x = {}
          /\ Lost(ms, t) = b \cup y /\ b \cap y = {}
          /\ Drawn(ms, t) = c \cup z /\ c \cap z = {}
      BY <2>3, <3>1, <3>2
    <3>5. /\ Cardinality(a \cup x) = Cardinality(a) + Cardinality(x)
          /\ Cardinality(b \cup y) = Cardinality(b) + Cardinality(y)
          /\ Cardinality(c \cup z) = Cardinality(c) + Cardinality(z)
      BY <3>3, <3>4, CountBoth
    <3> QED
      BY <2>5, <3>1, <3>2, <3>4, <3>5
  <2> HIDE DEF won, lost, drawn, points
  <2>8. rec \in [Teams -> Records]
    BY <2>1, <2>5, <2>6 DEF Records
  <2>9. \A t \in Teams : /\ rec[t].wins = Cardinality(Won(ms, t))
                         /\ rec[t].losses = Cardinality(Lost(ms, t))
                         /\ rec[t].ties = Cardinality(Drawn(ms, t))
    BY <2>1, <2>7
  <2> QED
    BY <2>8, <2>9 DEF RecordsOK
<1>12. ChampionOK(ms, champion)
  BY <1>4, <1>7 DEF RowsOK, ChampionOK, Kept
<1> QED
  BY <1>4, <1>7, <1>8, <1>9, <1>10, <1>11, <1>12 DEF RowsOK, MatchupsOK

\* seed_playoffs: the bracket is added beside the games there are.
LEMMA SeededRows ==
    ASSUME NEW ms, NEW rec, NEW c, RowsOK(ms, rec, c), ~AlreadySeeded(ms),
           NEW table \in Tables(ms, rec), NEW next,
           next = [id \in DOMAIN ms \cup DOMAIN Bracket(table) |->
                      IF id \in DOMAIN ms THEN ms[id] ELSE Bracket(table)[id]]
    PROVE  /\ RowsOK(next, rec, c) /\ Kept(ms, next)
           /\ SeedsInOrder(Seeds(next), rec)
<1> DEFINE s == <<PlayoffWeeks[1], 1>>
           z == <<PlayoffWeeks[1], 2>>
<1>1. /\ ms \in Matchups /\ \A id \in DOMAIN ms : ~ms[id].done => ms[id].winner = None
      /\ rec \in [Teams -> Records]
  BY DEF RowsOK, MatchupsOK, RecordsOK
<1>2. DOMAIN ms = RegularGames /\ \A id \in DOMAIN ms : ms[id] \in Row /\ id \notin BracketGames
  <2>1. DOMAIN ms = RegularGames
    BY <1>1, MatchupsFacts
  <2> QED
    BY <1>1, <2>1, MatchupsFacts, GamesFacts
<1>3. /\ \A i \in 1..4 : table[i] \in Teams
      /\ SeedsInOrder(<<table[1], table[2], table[3], table[4]>>, rec)
  BY <1>1, TableSeeds
<1>4. BracketGames = {s, z, Championship} /\ s # z /\ Championship # s /\ Championship # z
  BY GamesFacts DEF BracketGames, Semis
<1>5. /\ DOMAIN Bracket(table) = BracketGames
      /\ Bracket(table)[s] = Scheduled(table[1], table[4])
      /\ Bracket(table)[z] = Scheduled(table[2], table[3])
      /\ Bracket(table)[Championship] = Scheduled(None, None)
  <2>1. Bracket(table) = [id \in BracketGames |->
                            CASE id = s -> Scheduled(table[1], table[4])
                              [] id = z -> Scheduled(table[2], table[3])
                              [] id = Championship -> Scheduled(None, None)]
    BY DEF Bracket, BracketGames
  <2> HIDE DEF s, z
  <2> QED
    BY <1>4, <2>1
<1> HIDE DEF s, z
<1>6. /\ DOMAIN next = RegularGames \cup BracketGames
      /\ \A id \in RegularGames : next[id] = ms[id]
      /\ \A id \in BracketGames : next[id] = Bracket(table)[id]
  BY <1>2, <1>5
<1>7. /\ next[s] = Scheduled(table[1], table[4]) /\ next[z] = Scheduled(table[2], table[3])
      /\ next[Championship] = Scheduled(None, None)
  BY <1>4, <1>5, <1>6
<1>8. \A i \in 1..4 : table[i] \in Teams \cup {None}
  BY <1>3
<1>9. \A id \in BracketGames : next[id] \in Row /\ ~next[id].done /\ next[id].winner = None
  <2>1. \A t, u \in Teams \cup {None} :
           /\ Scheduled(t, u) \in Row /\ ~Scheduled(t, u).done /\ Scheduled(t, u).winner = None
    BY DEF Scheduled, Row
  <2>2. /\ table[1] \in Teams \cup {None} /\ table[2] \in Teams \cup {None}
        /\ table[3] \in Teams \cup {None} /\ table[4] \in Teams \cup {None}
    BY <1>8
  <2> HIDE DEF Teams
  <2> QED
    BY <1>4, <1>7, <2>1, <2>2
<1>10. next \in Matchups
  <2>1. next = [id \in DOMAIN next |-> next[id]]
    OBVIOUS
  <2>2. \A id \in DOMAIN next : next[id] \in Row
    BY <1>2, <1>6, <1>9
  <2> QED
    BY <1>6, <2>1, <2>2 DEF Matchups
<1>11. Kept(ms, next)
  BY <1>2, <1>6 DEF Kept
<1>12. MatchupsOK(next)
  BY <1>1, <1>2, <1>6, <1>7, <1>9, <1>10 DEF MatchupsOK, TitleOK
<1>13. RecordsOK(next, rec)
  <2>1. \A id \in DOMAIN next : next[id].done => id \in DOMAIN ms /\ ms[id].done
    BY <1>2, <1>6, <1>9
  <2> QED
    BY <1>11, <2>1, SameRecords DEF RowsOK
<1>14. ChampionOK(next, c)
  BY <1>11 DEF RowsOK, ChampionOK, Kept
<1>15. SeedsInOrder(Seeds(next), rec)
  <2>1. Seeds(next) = <<table[1], table[2], table[3], table[4]>>
    <3>1. Seeds(next) = <<next[s].home, next[z].home, next[z].away, next[s].away>>
      BY DEF Seeds, s, z
    <3> QED
      BY <1>7, <3>1 DEF Scheduled
  <2> QED
    BY <1>3, <2>1
<1> QED
  BY <1>11, <1>12, <1>13, <1>14, <1>15 DEF RowsOK

\* advance_playoffs with the semifinals decided: the title game gets its teams.
LEMMA PairedRows ==
    ASSUME NEW ms, NEW rec, NEW c, RowsOK(ms, rec, c),
           Championship \in DOMAIN ms, ~ms[Championship].done, SemisDecided(ms), NEW next,
           next = [ms EXCEPT ![Championship].home = ms[<<PlayoffWeeks[1], 1>>].winner,
                             ![Championship].away = ms[<<PlayoffWeeks[1], 2>>].winner]
    PROVE  RowsOK(next, rec, c) /\ Kept(ms, next) /\ DOMAIN next = DOMAIN ms
<1> DEFINE s == <<PlayoffWeeks[1], 1>>
           z == <<PlayoffWeeks[1], 2>>
<1>1. /\ ms \in Matchups /\ \A id \in DOMAIN ms : ~ms[id].done => ms[id].winner = None
      /\ \A id \in DOMAIN ms : ms[id] \in Row
  BY MatchupsFacts DEF RowsOK, MatchupsOK
<1>2. Championship # s /\ Championship # z
  BY GamesFacts DEF Semis
<1>3. s \in DOMAIN ms /\ z \in DOMAIN ms
  <2>1. DOMAIN ms = RegularGames \cup BracketGames
    BY <1>1, MatchupsFacts, GamesFacts DEF BracketGames
  <2> QED
    BY <2>1 DEF BracketGames, Semis
<1>4. ms[s].winner # None /\ ms[z].winner # None
  BY DEF SemisDecided, Semis
<1>5. /\ DOMAIN next = DOMAIN ms
      /\ \A id \in DOMAIN ms : id # Championship => next[id] = ms[id]
      /\ next[Championship] = [ms[Championship] EXCEPT !.home = ms[s].winner, !.away = ms[z].winner]
  OBVIOUS
<1> HIDE DEF s, z
<1>6. /\ ms[s].winner \in Teams \cup {None} /\ ms[z].winner \in Teams \cup {None}
      /\ ms[Championship] \in Row
  BY <1>1, <1>3 DEF Row
<1>7. /\ next[Championship] \in Row
      /\ next[Championship].home = ms[s].winner /\ next[Championship].away = ms[z].winner
      /\ next[Championship].done = ms[Championship].done
      /\ next[Championship].winner = ms[Championship].winner
  BY <1>5, <1>6 DEF Row
<1>8. next[s] = ms[s] /\ next[z] = ms[z]
  BY <1>2, <1>3, <1>5
<1>9. next \in Matchups
  <2>1. \A id \in DOMAIN next : next[id] \in Row
    BY <1>1, <1>5, <1>7
  <2>2. next = [id \in DOMAIN next |-> next[id]]
    <3>1. ms = [id \in DOMAIN ms |-> ms[id]]
      BY <1>1 DEF Matchups
    <3> QED
      BY <3>1
  <2>3. DOMAIN next = RegularGames \/ DOMAIN next = RegularGames \cup BracketGames
    BY <1>1, <1>5, MatchupsFacts
  <2> QED
    BY <2>1, <2>2, <2>3 DEF Matchups
<1>10. Kept(ms, next)
  BY <1>5 DEF Kept
<1>11. TitleOK(next)
  BY <1>4, <1>7, <1>8 DEF TitleOK, s, z
<1>12. MatchupsOK(next)
  BY <1>1, <1>5, <1>7, <1>9, <1>11 DEF MatchupsOK
<1>13. RecordsOK(next, rec)
  <2>1. \A id \in DOMAIN next : next[id].done => id \in DOMAIN ms /\ ms[id].done
    BY <1>5, <1>7
  <2> QED
    BY <1>10, <2>1, SameRecords DEF RowsOK
<1>14. ChampionOK(next, c)
  BY <1>10 DEF RowsOK, ChampionOK, Kept
<1> QED
  BY <1>5, <1>10, <1>12, <1>13, <1>14 DEF RowsOK

\* Scores stay those of their weeks when rows are added: a week with a score has its rows.
LEMMA ScoresKept ==
    ASSUME NEW ms \in Matchups, NEW next \in Matchups, Kept(ms, next), NEW f, ScoresOK(ms, f)
    PROVE  ScoresOK(next, f)
<1>1. /\ DOMAIN ms = RegularGames \/ DOMAIN ms = RegularGames \cup BracketGames
      /\ DOMAIN next = RegularGames \/ DOMAIN next = RegularGames \cup BracketGames
      /\ DOMAIN ms \subseteq DOMAIN next
  BY MatchupsFacts DEF Kept
<1>2. /\ PlayoffWeeks[1] \notin 1..RegularWeeks /\ PlayoffWeeks[2] \notin 1..RegularWeeks
  <2>1. PlayoffWeeks[1] \in Nat /\ PlayoffWeeks[2] \in Nat /\ RegularWeeks \in Nat
    BY SeasonFacts
  <2> QED
    BY <2>1, SeasonFacts
<1>3. ASSUME NEW w \in Weeks, NEW id \in DOMAIN ms, id[1] = w,
             NEW other \in DOMAIN next, other[1] = w
      PROVE  other \in DOMAIN ms
  BY <1>1, <1>2, <1>3, GamesFacts
<1> QED
  BY <1>1, <1>3 DEF ScoresOK
-----------------------------------------------------------------------------
(* The transactions.                                                       *)

\* What a transaction makes of the rows ms with the records rec it has settled before.
Bracketed(ms, rec) ==
    /\ RowsOK(matchups', rec, champion')
    /\ Kept(ms, matchups')
    /\ weeks' \in [Weeks -> WeekStates]
    /\ status' \in Statuses
    /\ week' \in 0..LastWeek
    /\ Championship \in DOMAIN matchups' \ DOMAIN ms => SeedsInOrder(Seeds(matchups'), rec)

LEMMA SeedStep ==
    ASSUME NEW ms, NEW rec, NEW ws \in [Weeks -> WeekStates], RowsOK(ms, rec, champion),
           status \in Statuses, week \in 0..LastWeek, SeedPlayoffs(ms, rec, ws)
    PROVE  Bracketed(ms, rec)
<1> HIDE DEF Weeks
<1>1. PlayoffWeeks[1] \in 0..LastWeek
  BY SeasonFacts DEF Weeks
<1>2. CASE AlreadySeeded(ms)
  <2>1. /\ matchups' = ms /\ weeks' = ws
        /\ status' = status /\ week' = week /\ champion' = champion
    BY <1>2 DEF SeedPlayoffs
  <2> QED
    BY <2>1 DEF Bracketed, Kept
<1>3. CASE ~AlreadySeeded(ms)
  <2>1. PICK table \in Tables(ms, rec) :
           matchups' = [id \in DOMAIN ms \cup DOMAIN Bracket(table) |->
                           IF id \in DOMAIN ms THEN ms[id] ELSE Bracket(table)[id]]
    BY <1>3 DEF SeedPlayoffs
  <2>2. /\ champion' = champion /\ status' = "PLAYOFFS" /\ week' = PlayoffWeeks[1]
        /\ weeks' = [w \in Weeks |-> IF ws[w] = "ABSENT" /\ w \in {PlayoffWeeks[1], PlayoffWeeks[2]}
                                     THEN "SCHEDULED" ELSE ws[w]]
    BY <1>3 DEF SeedPlayoffs
  <2>3. PICK c, next : c = champion /\ next = matchups'
    OBVIOUS
  <2>4. RowsOK(next, rec, c) /\ Kept(ms, next) /\ SeedsInOrder(Seeds(next), rec)
    <3>1. RowsOK(ms, rec, c)
      BY <2>3
    <3>2. next = [id \in DOMAIN ms \cup DOMAIN Bracket(table) |->
                     IF id \in DOMAIN ms THEN ms[id] ELSE Bracket(table)[id]]
      BY <2>1, <2>3
    <3> QED
      BY <1>3, <3>1, <3>2, SeededRows
  <2>5. weeks' \in [Weeks -> WeekStates]
    BY <2>2 DEF WeekStates
  <2>6. /\ RowsOK(matchups', rec, champion') /\ Kept(ms, matchups')
        /\ SeedsInOrder(Seeds(matchups'), rec)
    BY <2>2, <2>3, <2>4
  <2> QED
    BY <1>1, <2>2, <2>5, <2>6 DEF Bracketed, Statuses
<1> QED
  BY <1>2, <1>3

LEMMA AdvanceStep ==
    ASSUME NEW ms, NEW rec, NEW ws \in [Weeks -> WeekStates], RowsOK(ms, rec, champion),
           status \in Statuses, week \in 0..LastWeek, AdvancePlayoffs(ms, ws)
    PROVE  Bracketed(ms, rec)
<1> HIDE DEF Weeks
<1>1. PlayoffWeeks[2] \in 0..LastWeek
  BY SeasonFacts DEF Weeks
<1>2. Championship \in DOMAIN ms /\ weeks' = ws
  BY DEF AdvancePlayoffs
<1>3. CASE ms[Championship].done
  <2>1. /\ ms[Championship].winner # None /\ champion' = ms[Championship].winner
        /\ status' = "COMPLETE" /\ matchups' = ms /\ week' = week
    BY <1>3 DEF AdvancePlayoffs
  <2>2. ms[Championship].winner \in Teams \cup {None}
    <3>1. ms[Championship] \in Row
      BY <1>2, MatchupsFacts DEF RowsOK, MatchupsOK
    <3> QED
      BY <3>1 DEF Row
  <2>3. RowsOK(matchups', rec, champion')
    BY <1>2, <1>3, <2>1, <2>2 DEF RowsOK, ChampionOK
  <2> QED
    BY <1>2, <2>1, <2>3 DEF Bracketed, Kept, Statuses
<1>4. CASE ~ms[Championship].done
  <2>1. /\ SemisDecided(ms) /\ status' = status /\ champion' = champion
        /\ week' = PlayoffWeeks[2]
        /\ matchups' = [ms EXCEPT ![Championship].home = ms[<<PlayoffWeeks[1], 1>>].winner,
                                  ![Championship].away = ms[<<PlayoffWeeks[1], 2>>].winner]
    BY <1>4 DEF AdvancePlayoffs
  <2>2. PICK c, next : c = champion /\ next = matchups'
    OBVIOUS
  <2>3. RowsOK(next, rec, c) /\ Kept(ms, next) /\ DOMAIN next = DOMAIN ms
    <3>1. RowsOK(ms, rec, c)
      BY <2>2
    <3>2. next = [ms EXCEPT ![Championship].home = ms[<<PlayoffWeeks[1], 1>>].winner,
                            ![Championship].away = ms[<<PlayoffWeeks[1], 2>>].winner]
      BY <2>1, <2>2
    <3> QED
      BY <1>2, <1>4, <2>1, <3>1, <3>2, PairedRows
  <2>4. RowsOK(matchups', rec, champion') /\ Kept(ms, matchups') /\ DOMAIN matchups' = DOMAIN ms
    BY <2>1, <2>2, <2>3
  <2> QED
    BY <1>1, <1>2, <2>1, <2>4 DEF Bracketed
<1> QED
  BY <1>3, <1>4

LEMMA AdvanceAfterStep ==
    ASSUME NEW w \in Weeks, NEW ms, NEW rec, NEW ws \in [Weeks -> WeekStates],
           RowsOK(ms, rec, champion), LeagueOK, AdvanceAfterWeek(w, ms, rec, ws)
    PROVE  Bracketed(ms, rec) /\ periods' \subseteq Weeks
<1>1. status \in Statuses /\ week \in 0..LastWeek /\ periods \subseteq Weeks
  BY DEF LeagueOK
<1>2. PlayoffWeeks[1] \in Weeks /\ PlayoffWeeks[2] \in Weeks
  BY SeasonFacts
<1>3. CASE BeforeEnd(w)
  <2>1. w + 1 \in Weeks /\ w + 1 \in 0..LastWeek
    <3>1. w \in Nat /\ w < RegularWeeks /\ RegularWeeks \in Nat /\ LastWeek \in Nat
      BY <1>3, SeasonFacts DEF BeforeEnd
    <3>2. RegularWeeks <= LastWeek
      BY SeasonFacts DEF Weeks
    <3> QED
      BY <3>1, <3>2 DEF Weeks
  <2>2. w # RegularWeeks /\ w # PlayoffWeeks[1] /\ w # PlayoffWeeks[2]
    <3>1. w \in Nat /\ w < RegularWeeks /\ PlayoffWeeks[1] \in Nat /\ PlayoffWeeks[2] \in Nat
      BY <1>3, SeasonFacts DEF BeforeEnd
    <3> QED
      BY <3>1, SeasonFacts
  <2>3. /\ week' = w + 1 /\ periods' = periods \cup {w + 1} /\ matchups' = ms
        /\ status' = status /\ champion' = champion
        /\ weeks' = IF ws[w + 1] = "ABSENT" THEN ws ELSE [ws EXCEPT ![w + 1] = "ACTIVE"]
    BY <1>3, <2>2 DEF AdvanceAfterWeek
  <2>4. weeks' \in [Weeks -> WeekStates]
    BY <2>1, <2>3 DEF WeekStates
  <2> QED
    BY <1>1, <2>1, <2>3, <2>4 DEF Bracketed, Kept
<1>4. CASE SeedPlayoffs(ms, rec, ws) /\ periods' = periods \cup {PlayoffWeeks[1]}
  BY <1>1, <1>2, <1>4, SeedStep
<1>5. CASE AdvancePlayoffs(ms, ws) /\ periods' \in {periods, periods \cup {PlayoffWeeks[2]}}
  BY <1>1, <1>2, <1>5, AdvanceStep
<1> QED
  BY <1>3, <1>4, <1>5 DEF AdvanceAfterWeek

LEMMA ClosedType ==
    ASSUME NEW w \in Weeks, weeks \in [Weeks -> WeekStates]
    PROVE  Closed(w) \in [Weeks -> WeekStates]
BY DEF Closed, WeekStates
-----------------------------------------------------------------------------
(* The invariant.                                                          *)

\* What every step keeps beside the invariant: the results and the order of the seeds.
StepOK ==
    /\ SeasonInv'
    /\ Kept(matchups, matchups')
    /\ Championship \in DOMAIN matchups' \ DOMAIN matchups =>
          SeedsInOrder(Seeds(matchups'), record')

LEMMA InitInv == Init => SeasonInv
<1> SUFFICES ASSUME Init PROVE SeasonInv
  OBVIOUS
<1>1. LeagueOK
  <2>1. weeks \in [Weeks -> WeekStates]
    BY DEF Init, WeekStates
  <2>2. week \in 0..LastWeek
    BY SeasonFacts DEF Init
  <2> QED
    BY <2>1, <2>2 DEF Init, LeagueOK, Statuses
<1>2. /\ matchups = [id \in RegularGames |-> Scheduled(WeekPairs(Order, id[1])[id[2]].home,
                                                       WeekPairs(Order, id[1])[id[2]].away)]
      /\ record = [t \in Teams |-> [wins |-> 0, losses |-> 0, ties |-> 0, points |-> 0]]
      /\ champion = None /\ jobs = {} /\ final = [w \in Weeks |-> None]
  BY DEF Init, RegularGames
<1>3. \A id \in RegularGames : WeekPairs(Order, id[1])[id[2]] \in [home : Teams, away : Teams]
  <2> SUFFICES ASSUME NEW id \in RegularGames
               PROVE  WeekPairs(Order, id[1])[id[2]] \in [home : Teams, away : Teams]
    OBVIOUS
  <2>1. id[1] \in 1..RegularWeeks /\ id[2] \in 1..Len(Order) \div 2
    BY DEF RegularGames
  <2>2. id[1] \in Nat \ {0} /\ Order \in Seq(Teams) /\ Len(Order) >= 2
    <3>1. Len(Order) \in Nat /\ Len(Order) >= 4
      BY OrderFacts
    <3> QED
      BY <2>1, <3>1, SeasonFacts, SeasonAssumption DEF SeasonAssumption
  <2> QED
    BY <2>1, <2>2, PairsType
<1>4. \A id \in RegularGames : /\ matchups[id] \in Row /\ ~matchups[id].done
                               /\ matchups[id].winner = None
  <2> SUFFICES ASSUME NEW id \in RegularGames
               PROVE  matchups[id] \in Row /\ ~matchups[id].done /\ matchups[id].winner = None
    OBVIOUS
  <2> DEFINE pair == WeekPairs(Order, id[1])[id[2]]
  <2>1. pair.home \in Teams /\ pair.away \in Teams
    BY <1>3
  <2>2. matchups[id] = Scheduled(pair.home, pair.away)
    BY <1>2
  <2> HIDE DEF pair, Teams
  <2> QED
    BY <2>1, <2>2 DEF Scheduled, Row
<1>5. DOMAIN matchups = RegularGames /\ matchups \in Matchups
  <2>1. DOMAIN matchups = RegularGames /\ matchups = [id \in RegularGames |-> matchups[id]]
    BY <1>2
  <2> QED
    BY <1>4, <2>1 DEF Matchups
<1>6. MatchupsOK(matchups)
  <2>1. Championship \notin RegularGames
    BY GamesFacts DEF BracketGames
  <2> QED
    BY <1>4, <1>5, <2>1 DEF MatchupsOK, TitleOK
<1>7. RecordsOK(matchups, record)
  <2>1. \A t : Won(matchups, t) = {} /\ Lost(matchups, t) = {} /\ Drawn(matchups, t) = {}
    BY <1>4, <1>5 DEF Won, Lost, Drawn, Played
  <2>2. Cardinality({}) = 0
    BY FS_EmptySet
  <2> HIDE DEF Teams
  <2> QED
    BY <1>2, <2>1, <2>2 DEF RecordsOK, Records
<1>8. ChampionOK(matchups, champion)
  BY <1>2 DEF ChampionOK
<1>9. ScoresOK(matchups, final) /\ JobsOK
  BY <1>2 DEF ScoresOK, JobsOK
<1> QED
  BY <1>1, <1>6, <1>7, <1>8, <1>9 DEF SeasonInv, RowsOK

\* The rest of the invariant after a transaction that wrote rows.
LEMMA AfterRows ==
    ASSUME SeasonInv, Bracketed(matchups, record'), locked' \in BOOLEAN, draft' = draft,
           periods' \subseteq Weeks, moves' \in Nat, final' = final, jobs' \subseteq jobs
    PROVE  StepOK
<1>1. matchups \in Matchups /\ matchups' \in Matchups
  BY DEF SeasonInv, Bracketed, RowsOK, MatchupsOK
<1>2. ScoresOK(matchups', final')
  <2>1. PICK ms, next, f : ms = matchups /\ next = matchups' /\ f = final
    OBVIOUS
  <2>2. ScoresOK(next, f)
    <3>1. ms \in Matchups /\ next \in Matchups /\ Kept(ms, next) /\ ScoresOK(ms, f)
      BY <1>1, <2>1 DEF SeasonInv, Bracketed
    <3> QED
      BY <3>1, ScoresKept
  <2> QED
    BY <2>1, <2>2
<1>3. LeagueOK'
  BY DEF SeasonInv, LeagueOK, Bracketed
<1>4. JobsOK'
  BY DEF SeasonInv, JobsOK
<1> QED
  BY <1>2, <1>3, <1>4 DEF StepOK, SeasonInv, Bracketed

\* The rest of it after a step that left the rows alone.
LEMMA RowsAlone ==
    ASSUME SeasonInv, LeagueOK', UNCHANGED <<matchups, record, champion, final>>, JobsOK'
    PROVE  StepOK
BY DEF SeasonInv, StepOK, Kept

\* FinalStats: the week is settled, then the bracket seeded or advanced.
LEMMA FinalStatsSound ==
    ASSUME SeasonInv, NEW r \in jobs, FinalStats(r)
    PROVE  StepOK
<1>1. /\ r.ended /\ StillCurrent(r.week) /\ Playable(r.week)
      /\ record' = Credited(r.week, final[r.week])
      /\ AdvanceAfterWeek(r.week, Settled(r.week, final[r.week]), record', Closed(r.week))
      /\ jobs' \in {jobs, jobs \ {r}}
      /\ locked' = locked /\ draft' = draft /\ final' = final /\ moves' = moves
  BY DEF FinalStats
<1>2. r.week \in Weeks /\ final[r.week] # None
  <2>1. r \in Reads /\ (r.ended => final[r.week] # None)
    BY DEF SeasonInv, JobsOK
  <2> QED
    BY <1>1, <2>1 DEF Reads
<1>3. \A id \in IdsOf(r.week) : final[r.week][id] \in [home : Nat, away : Nat]
  BY <1>2 DEF SeasonInv, ScoresOK, IdsOf
<1>4. PICK ms, rec, ws : /\ ms = Settled(r.week, final[r.week])
                         /\ rec = record' /\ ws = Closed(r.week)
  OBVIOUS
<1>5. RowsOK(ms, rec, champion) /\ DOMAIN ms = DOMAIN matchups /\ Kept(matchups, ms)
  <2>1. PICK w, score : w = r.week /\ score = final[r.week]
    OBVIOUS
  <2>2. /\ Playable(w) /\ \A id \in IdsOf(w) : score[id] \in [home : Nat, away : Nat]
        /\ ms = Settled(w, score) /\ rec = Credited(w, score)
    BY <1>1, <1>3, <1>4, <2>1
  <2> QED
    BY <2>2, SettledRows DEF SeasonInv
<1>6. ws \in [Weeks -> WeekStates]
  BY <1>2, <1>4, ClosedType DEF SeasonInv, LeagueOK
<1>7. Bracketed(ms, rec) /\ periods' \subseteq Weeks
  <2>1. AdvanceAfterWeek(r.week, ms, rec, ws)
    BY <1>1, <1>4
  <2>2. LeagueOK
    BY DEF SeasonInv
  <2> QED
    BY <1>2, <1>5, <1>6, <2>1, <2>2, AdvanceAfterStep
<1>8. Bracketed(matchups, record')
  <2>1. Kept(matchups, matchups')
    BY <1>5, <1>7 DEF Bracketed, Kept
  <2> QED
    BY <1>4, <1>5, <1>7, <2>1 DEF Bracketed
<1>9. locked' \in BOOLEAN /\ moves' \in Nat
  BY <1>1 DEF SeasonInv, LeagueOK
<1> QED
  BY <1>1, <1>7, <1>8, <1>9, AfterRows

\* The commissioner's transactions that write rows.
LEMMA MoveSound ==
    ASSUME SeasonInv, Move
    PROVE  StepOK
<1>1. moves' \in Nat
  BY DEF Move, SeasonInv, LeagueOK
<1>2. /\ RowsOK(matchups, record, champion) /\ LeagueOK /\ JobsOK
      /\ weeks \in [Weeks -> WeekStates] /\ status \in Statuses /\ week \in 0..LastWeek
      /\ locked \in BOOLEAN /\ periods \subseteq Weeks
  BY DEF SeasonInv, LeagueOK
<1>3. ASSUME NEW w \in Weeks, CalculateWeek(w) PROVE StepOK
  <2>1. /\ Playable(w) /\ weeks' = Closed(w) /\ UNCHANGED <<league, draft, periods, final, jobs>>
    BY <1>3 DEF CalculateWeek
  <2>2. PICK score \in IF final[w] # None THEN {final[w]} ELSE Outcomes(w) :
           matchups' = Settled(w, score) /\ record' = Credited(w, score)
    BY <1>3 DEF CalculateWeek
  <2>3. \A id \in IdsOf(w) : score[id] \in [home : Nat, away : Nat]
    <3>1. CASE final[w] # None
      BY <2>2, <3>1 DEF SeasonInv, ScoresOK, IdsOf
    <3>2. CASE final[w] = None
      <4>1. \A id \in IdsOf(w) : score[id] \in UNION {Scores[n] : n \in DOMAIN Scores}
        BY <2>2, <3>2 DEF Outcomes, Range
      <4>2. \A n \in DOMAIN Scores : Scores[n] \subseteq [home : Nat, away : Nat]
        BY SeasonAssumption DEF SeasonAssumption
      <4> QED
        BY <4>1, <4>2
    <3> QED
      BY <3>1, <3>2
  <2>4. PICK ms, rec : ms = matchups' /\ rec = record'
    OBVIOUS
  <2>5. RowsOK(ms, rec, champion) /\ DOMAIN ms = DOMAIN matchups /\ Kept(matchups, ms)
    <3>1. ms = Settled(w, score) /\ rec = Credited(w, score)
      BY <2>2, <2>4
    <3> QED
      BY <1>2, <2>1, <2>3, <3>1, SettledRows
  <2>6. weeks' \in [Weeks -> WeekStates]
    BY <1>2, <2>1, ClosedType
  <2>7. Bracketed(matchups, record')
    BY <1>2, <2>1, <2>4, <2>5, <2>6 DEF Bracketed, league
  <2> QED
    BY <1>1, <1>2, <2>1, <2>7, AfterRows DEF league
<1>4. ASSUME NEW w \in 1..LastWeek + 1, AdvanceWeek(w) PROVE StepOK
  <2>1. /\ w <= LastWeek /\ week' = w /\ weeks' = [weeks EXCEPT ![w] = "ACTIVE"]
        /\ status' \in {"PLAYOFFS", status}
        /\ UNCHANGED <<locked, champion, draft, matchups, record, periods, final, jobs>>
    BY <1>4 DEF AdvanceWeek
  <2>2. LeagueOK'
    <3>1. w \in 0..LastWeek
      BY <2>1, SeasonFacts
    <3> QED
      BY <1>1, <1>2, <2>1, <3>1 DEF LeagueOK, Statuses, WeekStates
  <2> QED
    BY <1>2, <2>1, <2>2, RowsAlone DEF JobsOK
<1>5. CASE CreatePlayoffs
  <2>1. /\ SeedPlayoffs(matchups, record, weeks)
        /\ UNCHANGED <<locked, draft, record, periods, final, jobs>>
    BY <1>5 DEF CreatePlayoffs
  <2>2. Bracketed(matchups, record)
    BY <1>2, <2>1, SeedStep
  <2> QED
    BY <1>1, <1>2, <2>1, <2>2, AfterRows DEF Bracketed
<1>6. CASE AdvanceBracket
  <2>1. /\ AdvancePlayoffs(matchups, weeks)
        /\ UNCHANGED <<locked, draft, record, periods, final, jobs>>
    BY <1>6 DEF AdvanceBracket
  <2>2. Bracketed(matchups, record)
    BY <1>2, <2>1, AdvanceStep
  <2> QED
    BY <1>1, <1>2, <2>1, <2>2, AfterRows DEF Bracketed
<1>7. CASE UndoLastPick
  <2>1. LeagueOK'
    BY <1>1, <1>2, <1>7 DEF LeagueOK, UndoLastPick, rows, Statuses
  <2> QED
    BY <1>2, <1>7, <2>1, RowsAlone DEF JobsOK, UndoLastPick, rows
<1>8. ASSUME NEW w \in Weeks, RecalculateWeek(w) PROVE StepOK
  <2>1. UNCHANGED <<league, draft, weeks, matchups, record, periods, final, jobs>>
    BY <1>8 DEF RecalculateWeek
  <2>2. LeagueOK'
    BY <1>1, <1>2, <2>1 DEF LeagueOK, league
  <2> QED
    BY <1>2, <2>1, <2>2, RowsAlone DEF JobsOK, league
<1> QED
  BY <1>3, <1>4, <1>5, <1>6, <1>7, <1>8 DEF Move

LEMMA StepSound ==
    ASSUME SeasonInv, [Next]_vars
    PROVE  StepOK
<1>1. LeagueOK /\ JobsOK /\ ScoresOK(matchups, final)
  BY DEF SeasonInv
<1>2. CASE CompleteDraft
  <2>1. 1 \in Weeks /\ 1 \in 0..LastWeek
    BY SeasonFacts DEF Weeks
  <2>2. weeks' \in [Weeks -> WeekStates]
    BY <1>1, <1>2 DEF CompleteDraft, LeagueOK, WeekStates
  <2>3. LeagueOK'
    BY <1>1, <1>2, <2>1, <2>2 DEF LeagueOK, CompleteDraft, Statuses
  <2> QED
    BY <1>1, <1>2, <2>3, RowsAlone DEF JobsOK, CompleteDraft
<1>3. CASE ResumeDraft
  <2>1. LeagueOK'
    BY <1>1, <1>3 DEF LeagueOK, ResumeDraft, league, rows
  <2> QED
    BY <1>1, <1>3, <2>1, RowsAlone DEF JobsOK, ResumeDraft, league, rows
<1>4. CASE Tick
  <2>1. week \in Weeks
    BY <1>1, <1>4 DEF Tick, InSeason, LeagueOK, Weeks
  <2>2. LeagueOK'
    BY <1>1, <1>4, <2>1 DEF LeagueOK, Tick, league
  <2> QED
    BY <1>1, <1>4, <2>2, RowsAlone DEF JobsOK, Tick, league
<1>5. CASE BeginStats
  <2>1. /\ jobs' = jobs \cup {[week |-> week, ended |-> final[week] # None]} /\ week > 0
        /\ UNCHANGED <<league, draft, rows, final, moves>>
    BY <1>5 DEF BeginStats
  <2>2. LeagueOK'
    BY <1>1, <2>1 DEF LeagueOK, league, rows
  <2>3. JobsOK'
    <3>1. week \in Weeks
      BY <1>1, <2>1 DEF LeagueOK, Weeks
    <3>2. [week |-> week, ended |-> final[week] # None] \in Reads
      BY <3>1 DEF Reads
    <3>3. final' = final
      BY <2>1
    <3>4. ASSUME NEW r \in jobs' PROVE r \in Reads /\ (r.ended => final[r.week] # None)
      <4>1. CASE r \in jobs
        BY <1>1, <4>1 DEF JobsOK
      <4>2. CASE r = [week |-> week, ended |-> final[week] # None]
        <5>1. r \in Reads
          BY <3>2, <4>2
        <5>2. r.week = week
          BY <4>2
        <5>3. r.ended <=> final[week] # None
          BY <4>2
        <5> QED
          BY <5>1, <5>2, <5>3
      <4> QED
        BY <2>1, <4>1, <4>2
    <3> QED
      BY <3>3, <3>4 DEF JobsOK
  <2> QED
    BY <2>1, <2>2, <2>3, RowsAlone DEF league, rows
<1>6. ASSUME NEW r \in jobs, EndStats(r) PROVE StepOK
  <2>1. LeagueOK'
    BY <1>1, <1>6 DEF LeagueOK, EndStats, league, rows
  <2> QED
    BY <1>1, <1>6, <2>1, RowsAlone DEF JobsOK, EndStats, league, rows
<1>7. ASSUME NEW r \in jobs, FinalStats(r) PROVE StepOK
  BY <1>7, FinalStatsSound
<1>8. CASE GamesEnd
  <2>1. /\ week > 0 /\ final[week] = None /\ Open(week) # {}
        /\ UNCHANGED <<league, draft, rows, jobs, moves>>
    BY <1>8 DEF GamesEnd
  <2>2. PICK score \in Outcomes(week) : final' = [final EXCEPT ![week] = score]
    BY <1>8 DEF GamesEnd
  <2>3. week \in Weeks
    BY <1>1, <2>1 DEF LeagueOK, Weeks
  <2>4. LeagueOK'
    BY <1>1, <2>1 DEF LeagueOK, league, rows
  <2>5. \A id \in IdsOf(week) : score[id] \in [home : Nat, away : Nat]
    <3>1. \A id \in IdsOf(week) : score[id] \in UNION {Scores[n] : n \in DOMAIN Scores}
      BY <2>2 DEF Outcomes, Range
    <3>2. \A n \in DOMAIN Scores : Scores[n] \subseteq [home : Nat, away : Nat]
      BY SeasonAssumption DEF SeasonAssumption
    <3> QED
      BY <3>1, <3>2
  <2>6. ScoresOK(matchups, final')
    <3>1. DOMAIN final = Weeks /\ DOMAIN final' = Weeks
      BY <1>1, <2>2 DEF ScoresOK
    <3>2. \E id \in DOMAIN matchups : id[1] = week
      BY <2>1 DEF Open, IdsOf
    <3>3. \A id \in DOMAIN matchups : id[1] = week => score[id] \in [home : Nat, away : Nat]
      BY <2>5 DEF IdsOf
    <3>4. final'[week] = score /\ \A w \in Weeks : w # week => final'[w] = final[w]
      BY <2>2, <2>3, <3>1
    <3> QED
      BY <1>1, <3>1, <3>2, <3>3, <3>4 DEF ScoresOK
  <2>7. JobsOK'
    <3>1. ASSUME NEW r \in jobs PROVE r \in Reads /\ (r.ended => final'[r.week] # None)
      <4>1. r \in Reads /\ r.week \in Weeks /\ (r.ended => final[r.week] # None)
        BY <1>1 DEF JobsOK, Reads
      <4>2. r.ended => r.week # week
        BY <2>1, <4>1
      <4>3. r.ended => final'[r.week] = final[r.week]
        BY <1>1, <2>2, <4>1, <4>2 DEF ScoresOK
      <4> QED
        BY <4>1, <4>3
    <3> QED
      BY <1>1, <2>1, <3>1 DEF JobsOK
  <2>8. UNCHANGED <<matchups, record, champion>>
    BY <2>1 DEF league, rows
  <2> QED
    BY <2>4, <2>6, <2>7, <2>8 DEF StepOK, SeasonInv, Kept
<1>9. CASE Move
  BY <1>9, MoveSound
<1>10. CASE LockLeague
  <2>1. LeagueOK'
    BY <1>1, <1>10 DEF LeagueOK, LockLeague, rows, Statuses
  <2> QED
    BY <1>1, <1>10, <2>1, RowsAlone DEF JobsOK, LockLeague, rows
<1>11. CASE UnlockLeague
  <2>1. StatusOnUnlock \in Statuses
    BY DEF StatusOnUnlock, Statuses
  <2>2. LeagueOK'
    BY <1>1, <1>11, <2>1 DEF LeagueOK, UnlockLeague, rows
  <2> QED
    BY <1>1, <1>11, <2>2, RowsAlone DEF JobsOK, UnlockLeague, rows
<1>12. CASE UNCHANGED vars
  <2>1. LeagueOK' /\ JobsOK'
    BY <1>1, <1>12 DEF LeagueOK, JobsOK, vars, league, rows
  <2> QED
    BY <1>12, <2>1, RowsAlone DEF vars, league, rows
<1> QED
  BY <1>2, <1>3, <1>4, <1>5, <1>6, <1>7, <1>8, <1>9, <1>10, <1>11, <1>12 DEF Next, StatsStep
-----------------------------------------------------------------------------
(* The theorems.                                                           *)

\* The inductive invariant holds throughout.
THEOREM SeasonInvariant == Spec => []SeasonInv
<1>1. SeasonInv /\ [Next]_vars => SeasonInv'
  BY StepSound DEF StepOK
<1> QED
  BY InitInv, <1>1, PTL DEF Spec

LEMMA InvConsistent == SeasonInv => SeasonConsistent
<1> SUFFICES ASSUME SeasonInv PROVE SeasonConsistent
  OBVIOUS
<1>1. /\ LeagueOK /\ JobsOK /\ MatchupsOK(matchups) /\ RecordsOK(matchups, record)
      /\ ChampionOK(matchups, champion)
  BY DEF SeasonInv, RowsOK
<1>2. TypeOK
  <2>1. \A id \in DOMAIN matchups :
           /\ id \in Weeks \X (1..Len(Order))
           /\ matchups[id] \in [home : Teams \cup {None}, away : Teams \cup {None},
                                done : BOOLEAN, winner : Teams \cup {None}]
    BY <1>1, MatchupsFacts DEF MatchupsOK, Row
  <2> HIDE DEF Weeks, Teams
  <2> QED
    BY <1>1, <2>1 DEF TypeOK, LeagueOK, Statuses, ChampionOK, RecordsOK, JobsOK
<1>3. RecordsMatchResults
  BY <1>1 DEF RecordsMatchResults, RecordsOK, Won, Lost, Drawn, Played
<1>4. BracketFollowsResults
  <2>1. champion # None => matchups[Championship].done /\ matchups[Championship].winner = champion
    BY <1>1 DEF ChampionOK
  <2> QED
    BY <1>1, <2>1 DEF BracketFollowsResults, MatchupsOK, TitleOK
<1> QED
  BY <1>2, <1>3, <1>4 DEF SeasonConsistent

\* Throughout any season every team's record counts each completed game of its own once
\* and says how it ended, the title game is played by the winners of the semifinals, and
\* the champion has won it: whichever jobs overlap, whatever the commissioner calculates,
\* seeds and advances by hand in between.
THEOREM RowsTellOneStory == Spec => []SeasonConsistent
BY SeasonInvariant, InvConsistent, PTL

\* Nobody is seeded behind a team with a lower percentage, the first seed meets the
\* fourth and the second the third, by the records of the transaction that seeds.
THEOREM SeedsAreInOrder == Spec => SeedsFollowRecords
<1>1. SeasonInv /\ [Next]_vars =>
         [(Championship \in DOMAIN matchups' \ DOMAIN matchups) =>
             SeedsInOrder(Seeds(matchups'), record')]_vars
  BY StepSound DEF StepOK
<1> QED
  BY SeasonInvariant, <1>1, PTL DEF Spec, SeedsFollowRecords

\* A job whose answer came late finds another week, so only the commissioner takes the
\* week back, or the last selection of a reopened draft.
LEMMA WeekForward ==
    ASSUME SeasonInv, [Next]_vars, week' < week
    PROVE  moves' # moves \/ draft' # draft
<1> SUFFICES ASSUME moves' = moves, draft' = draft PROVE FALSE
  OBVIOUS
<1>1. week \in Int /\ moves \in Nat
  <2>1. week \in 0..LastWeek /\ moves \in Nat
    BY DEF SeasonInv, LeagueOK
  <2> QED
    BY <2>1
<1>2. week' # week
  BY <1>1
<1>3. ASSUME NEW r \in jobs, FinalStats(r) PROVE FALSE
  <2>1. PICK ms, rec, ws : AdvanceAfterWeek(r.week, ms, rec, ws)
    BY <1>3 DEF FinalStats
  <2>2. r.week = week
    BY <1>3 DEF FinalStats, StillCurrent
  <2>3. /\ RegularWeeks \in Nat /\ PlayoffWeeks[1] \in Nat /\ PlayoffWeeks[2] \in Nat
    BY SeasonFacts
  <2>4. RegularWeeks < PlayoffWeeks[1] /\ PlayoffWeeks[1] < PlayoffWeeks[2]
    BY SeasonFacts
  <2>5. \/ week' = week + 1
        \/ week' = week
        \/ week = RegularWeeks /\ week' = PlayoffWeeks[1]
        \/ week \in {PlayoffWeeks[1], PlayoffWeeks[2]} /\ week' = PlayoffWeeks[2]
    BY <2>1, <2>2 DEF AdvanceAfterWeek, SeedPlayoffs, AdvancePlayoffs
  <2> QED
    BY <1>1, <2>3, <2>4, <2>5
<1>4. CASE CompleteDraft
  BY <1>4 DEF CompleteDraft
<1>5. CASE Move
  BY <1>1, <1>5 DEF Move
<1> QED
  BY <1>2, <1>3, <1>4, <1>5 DEF Next, StatsStep, ResumeDraft, Tick, BeginStats, EndStats,
       GamesEnd, LockLeague, UnlockLeague, vars, league, rows

\* Seeding sets the week to the first of the playoffs and the status with it; the bracket
\* advances within the playoffs when a job advances it.
LEMMA PhaseOK ==
    ASSUME SeasonInv, [Next]_vars, InPhase, ~InPhase'
    PROVE  moves' # moves /\ (InPlayoffs <=> ~InPlayoffs')
<1> DEFINE Post == {PlayoffWeeks[1], PlayoffWeeks[2]}
<1>1. moves \in Nat /\ week \in Nat
  <2>1. week \in 0..LastWeek /\ moves \in Nat
    BY DEF SeasonInv, LeagueOK
  <2> QED
    BY <2>1
<1>2. RegularWeeks \in Nat /\ PlayoffWeeks[1] \in Nat /\ PlayoffWeeks[2] \in Nat
  BY SeasonFacts
<1>3. /\ RegularWeeks >= 1 /\ RegularWeeks < PlayoffWeeks[1] /\ PlayoffWeeks[1] < PlayoffWeeks[2]
  BY SeasonFacts
<1>4. \A w \in Nat : w <= RegularWeeks => w \notin Post
  BY <1>2, <1>3
<1>5. /\ ~locked' /\ champion' = None /\ draft' = "COMPLETED"
      /\ ~(status' = "PLAYOFFS" <=> week' \in Post)
  BY DEF InPhase, InPlayoffs
<1>6. ~locked /\ champion = None /\ draft = "COMPLETED" => (status = "PLAYOFFS" <=> week \in Post)
  BY DEF InPhase, InPlayoffs
<1> HIDE DEF Post
<1>7. ASSUME NEW ms, NEW rec, NEW ws, SeedPlayoffs(ms, rec, ws), ~locked, draft = "COMPLETED"
      PROVE  FALSE
  <2>1. \/ status' = status /\ week' = week /\ champion' = champion
        \/ status' = "PLAYOFFS" /\ week' = PlayoffWeeks[1]
    BY <1>7 DEF SeedPlayoffs
  <2> QED
    BY <1>5, <1>6, <1>7, <2>1 DEF Post
<1>8. ASSUME NEW ms, NEW ws, AdvancePlayoffs(ms, ws)
      PROVE  status' = status /\ champion' = champion /\ week' = PlayoffWeeks[2]
  <2>1. \/ champion' # None
        \/ week' = PlayoffWeeks[2] /\ status' = status /\ champion' = champion
    BY <1>8 DEF AdvancePlayoffs
  <2> QED
    BY <1>5, <2>1
<1>9. ASSUME NEW r \in jobs, FinalStats(r) PROVE FALSE
  <2>1. PICK ms, rec, ws : AdvanceAfterWeek(r.week, ms, rec, ws)
    BY <1>9 DEF FinalStats
  <2>2. r.week = week /\ ~locked /\ draft = "COMPLETED"
    BY <1>5, <1>9 DEF FinalStats, StillCurrent
  <2>3. CASE /\ week < RegularWeeks /\ week' = week + 1
             /\ status' = status /\ champion' = champion
    BY <1>1, <1>2, <1>4, <1>5, <1>6, <2>2, <2>3
  <2>4. CASE SeedPlayoffs(ms, rec, ws)
    BY <1>7, <2>2, <2>4
  <2>5. CASE week \in Post /\ AdvancePlayoffs(ms, ws)
    <3>1. status' = status /\ champion' = champion /\ week' \in Post
      BY <1>8, <2>5 DEF Post
    <3> QED
      BY <1>5, <1>6, <2>2, <2>5, <3>1
  <2> QED
    BY <2>1, <2>2, <2>3, <2>4, <2>5 DEF AdvanceAfterWeek, BeforeEnd, Post
<1>10. CASE CompleteDraft
  <2>1. status' = "REGULAR_SEASON" /\ week' = 1
    BY <1>10 DEF CompleteDraft
  <2> QED
    BY <1>2, <1>3, <1>4, <1>5, <2>1
<1>11. CASE ResumeDraft
  BY <1>5, <1>11 DEF ResumeDraft
<1>12. CASE Move
  <2>1. moves' # moves
    BY <1>1, <1>12 DEF Move
  <2>2. CASE \E w \in Weeks : CalculateWeek(w) \/ RecalculateWeek(w)
    BY <1>5, <1>6, <2>2 DEF CalculateWeek, RecalculateWeek, league
  <2>3. ASSUME NEW w \in 1..LastWeek + 1, AdvanceWeek(w) PROVE InPlayoffs <=> ~InPlayoffs'
    <3>1. /\ ~locked /\ week' = w /\ champion' = champion /\ draft' = draft
          /\ status' = IF w \in Post THEN "PLAYOFFS" ELSE status
      BY <2>3 DEF AdvanceWeek, Post
    <3> QED
      BY <1>5, <1>6, <3>1 DEF InPlayoffs, Post
  <2>4. CASE CreatePlayoffs
    <3>1. SeedPlayoffs(matchups, record, weeks) /\ ~locked /\ draft = "COMPLETED"
      BY <1>5, <2>4 DEF CreatePlayoffs
    <3>2. PICK ms, rec, ws : SeedPlayoffs(ms, rec, ws)
      BY <3>1
    <3> QED
      BY <1>7, <3>1, <3>2
  <2>5. CASE AdvanceBracket
    <3>1. ~locked /\ draft = "COMPLETED" /\ \E ms, ws : AdvancePlayoffs(ms, ws)
      BY <1>5, <2>5 DEF AdvanceBracket
    <3>2. status' = status /\ champion' = champion /\ week' \in Post
      BY <1>8, <3>1 DEF Post
    <3>3. status' # "PLAYOFFS" /\ champion = None
      BY <1>5, <3>2
    <3>4. week \notin Post
      BY <1>6, <3>1, <3>2, <3>3
    <3>5. ~InPlayoffs
      BY <3>4 DEF InPlayoffs, Post
    <3>6. InPlayoffs'
      BY <3>2 DEF InPlayoffs, Post
    <3> QED
      BY <2>1, <3>5, <3>6
  <2>6. CASE UndoLastPick
    BY <1>5, <2>6 DEF UndoLastPick
  <2> QED
    BY <1>12, <2>1, <2>2, <2>3, <2>4, <2>5, <2>6 DEF Move
<1>13. CASE LockLeague
  BY <1>5, <1>13 DEF LockLeague
<1>14. CASE UnlockLeague
  BY <1>5, <1>14 DEF UnlockLeague, StatusOnUnlock, Post
<1>15. CASE UNCHANGED <<status, locked, week, champion, draft>>
  BY <1>5, <1>6, <1>15
<1> QED
  BY <1>9, <1>10, <1>11, <1>12, <1>13, <1>14, <1>15 DEF Next, StatsStep, Tick, BeginStats,
       EndStats, GamesEnd, vars, league

\* Neither the seeding nor the bracket's step completes a game.
LEMMA NoneFinishes ==
    ASSUME NEW ms \in Matchups, NEW rec, NEW ws,
           SeedPlayoffs(ms, rec, ws) \/ AdvancePlayoffs(ms, ws)
    PROVE  Finished(matchups') \subseteq Finished(ms)
<1>1. CASE SeedPlayoffs(ms, rec, ws)
  <2>1. CASE matchups' = ms
    BY <2>1
  <2>2. CASE \E table \in Tables(ms, rec) :
           matchups' = [id \in DOMAIN ms \cup DOMAIN Bracket(table) |->
                           IF id \in DOMAIN ms THEN ms[id] ELSE Bracket(table)[id]]
    <3>1. PICK table : matchups' = [id \in DOMAIN ms \cup DOMAIN Bracket(table) |->
                                      IF id \in DOMAIN ms THEN ms[id] ELSE Bracket(table)[id]]
      BY <2>2
    <3>2. \A id \in DOMAIN Bracket(table) : ~Bracket(table)[id].done
      BY DEF Bracket, Scheduled, Semis
    <3> QED
      BY <3>1, <3>2 DEF Finished
  <2> QED
    BY <1>1, <2>1, <2>2 DEF SeedPlayoffs
<1>2. CASE AdvancePlayoffs(ms, ws)
  <2>1. CASE matchups' = ms
    BY <2>1
  <2>2. CASE matchups' = [ms EXCEPT ![Championship].home = ms[<<PlayoffWeeks[1], 1>>].winner,
                                    ![Championship].away = ms[<<PlayoffWeeks[1], 2>>].winner]
    <3>1. \A id \in DOMAIN ms : ms[id] \in Row
      BY MatchupsFacts
    <3> HIDE DEF Championship
    <3> QED
      BY <2>2, <3>1 DEF Finished, Row
  <2> QED
    BY <1>2, <2>1, <2>2 DEF AdvancePlayoffs
<1> QED
  BY <1>1, <1>2

\* Every matchup that there may be has a place for its scores.
ScoresThere == DOMAIN scores = Weeks \X (1..Len(Order))

\* Settling a week shows the scores that make the winners of the games it completes.
Shows(ms, shown) ==
    \A id \in Finished(ms) \ Finished(matchups) : ms[id].winner = WinnerBy(ms[id], shown[id])
LEMMA SettledShows ==
    ASSUME matchups \in Matchups, ScoresThere, NEW w, NEW score,
           Shown(w, score), NEW ms, ms = Settled(w, score), NEW shown, shown = scores'
    PROVE  /\ Shows(ms, shown)
           /\ \A id \in Finished(matchups) : shown[id] = scores[id]
<1>1. ASSUME NEW id \in DOMAIN matchups
      PROVE  /\ matchups[id] \in Row
             /\ shown[id] = IF id \in Open(w) THEN score[id] ELSE scores[id]
             /\ ms[id] = IF id \in Open(w)
                         THEN [matchups[id] EXCEPT !.done = TRUE,
                                                   !.winner = WinnerBy(matchups[id], score[id])]
                         ELSE matchups[id]
  BY MatchupsFacts DEF Shown, Settled, ScoresThere
<1>2. DOMAIN ms = DOMAIN matchups
  BY DEF Settled
<1>3. ASSUME NEW id \in Finished(matchups) PROVE shown[id] = scores[id]
  BY <1>1 DEF Open, Finished
<1>4. ASSUME NEW id \in Finished(ms) \ Finished(matchups)
      PROVE  ms[id].winner = WinnerBy(ms[id], shown[id])
  <2>1. id \in DOMAIN matchups /\ id \in Open(w)
    BY <1>1, <1>2 DEF Finished
  <2>2. /\ ms[id].home = matchups[id].home /\ ms[id].away = matchups[id].away
        /\ ms[id].winner = WinnerBy(matchups[id], score[id]) /\ shown[id] = score[id]
    BY <1>1, <2>1 DEF Row
  <2> QED
    BY <2>2 DEF WinnerBy
<1> QED
  BY <1>3, <1>4 DEF Shows

\* What is finished stays, and shows its result when it is.
LEMMA ScoreStep ==
    ASSUME SeasonInv, ScoresThere, [Next]_vars
    PROVE  /\ ScoresThere'
           /\ \A id \in Finished(matchups) :
                 /\ id \in Finished(matchups') /\ matchups'[id] = matchups[id]
                 /\ scores'[id] # scores[id] => moves' # moves /\ record' = record
           /\ Shows(matchups', scores')
<1>0. matchups \in Matchups /\ moves \in Nat
  BY DEF SeasonInv, RowsOK, MatchupsOK, LeagueOK
<1>1. \A id \in Finished(matchups) : id \in Finished(matchups') /\ matchups'[id] = matchups[id]
  BY StepSound DEF StepOK, Kept, Finished
<1>2. CASE UNCHANGED scores /\ Finished(matchups') \subseteq Finished(matchups)
  BY <1>1, <1>2 DEF Shows, ScoresThere
<1>3. ASSUME NEW r \in jobs, FinalStats(r)
      PROVE  /\ DOMAIN scores' = DOMAIN scores /\ Shows(matchups', scores')
             /\ \A id \in Finished(matchups) : scores'[id] = scores[id]
  <2>1. PICK w, score, ms, shown, rec, ws :
           /\ w = r.week /\ score = final[r.week] /\ ms = Settled(w, score) /\ shown = scores'
           /\ rec = record' /\ ws = Closed(r.week)
    OBVIOUS
  <2>2. /\ Shown(w, score) /\ AdvanceAfterWeek(w, ms, rec, ws) /\ Playable(w)
        /\ rec = Credited(w, score)
    BY <1>3, <2>1 DEF FinalStats
  <2>3. \A id \in IdsOf(w) : score[id] \in [home : Nat, away : Nat]
    <3>1. r \in Reads /\ (r.ended => final[r.week] # None) /\ r.ended
      BY <1>3 DEF SeasonInv, JobsOK, FinalStats
    <3> QED
      BY <2>1, <3>1 DEF SeasonInv, ScoresOK, IdsOf, Reads
  <2>4. RowsOK(ms, rec, champion)
    BY <2>1, <2>2, <2>3, SettledRows DEF SeasonInv
  <2>5. Finished(matchups') \subseteq Finished(ms)
    <3>1. ms \in Matchups
      BY <2>4 DEF RowsOK, MatchupsOK
    <3>2. \/ matchups' = ms
          \/ SeedPlayoffs(ms, rec, ws) \/ AdvancePlayoffs(ms, ws)
      BY <2>2 DEF AdvanceAfterWeek
    <3> QED
      BY <3>1, <3>2, NoneFinishes
  <2>6. \A id \in Finished(ms) : id \in Finished(matchups') => matchups'[id] = ms[id]
    <3>1. r.week \in Weeks /\ weeks \in [Weeks -> WeekStates] /\ LeagueOK
      BY DEF SeasonInv, JobsOK, Reads, LeagueOK
    <3>2. ws \in [Weeks -> WeekStates]
      BY <2>1, <3>1, ClosedType
    <3>3. Bracketed(ms, rec)
      BY <2>1, <2>2, <2>4, <3>1, <3>2, AdvanceAfterStep
    <3> QED
      BY <3>3 DEF Bracketed, Kept, Finished
  <2>7. Shows(ms, shown) /\ \A id \in Finished(matchups) : shown[id] = scores[id]
    BY <1>0, <2>1, <2>2, SettledShows
  <2> QED
    BY <2>1, <2>2, <2>5, <2>6, <2>7 DEF Shows, Shown
<1>4. ASSUME NEW w \in Weeks, CalculateWeek(w)
      PROVE  /\ DOMAIN scores' = DOMAIN scores /\ Shows(matchups', scores')
             /\ \A id \in Finished(matchups) : scores'[id] = scores[id]
  <2>1. PICK score : matchups' = Settled(w, score) /\ Shown(w, score)
    BY <1>4 DEF CalculateWeek
  <2>2. PICK ms, shown : ms = matchups' /\ shown = scores'
    OBVIOUS
  <2>3. Shows(ms, shown) /\ \A id \in Finished(matchups) : shown[id] = scores[id]
    BY <1>0, <2>1, <2>2, SettledShows
  <2> QED
    BY <2>1, <2>2, <2>3 DEF Shows, Shown
<1>5. ASSUME NEW w \in Weeks, RecalculateWeek(w), moves' = moves + 1
      PROVE  /\ DOMAIN scores' = DOMAIN scores /\ Shows(matchups', scores')
             /\ moves' # moves /\ record' = record
  BY <1>0, <1>5 DEF RecalculateWeek, Shows
<1>6. ASSUME SeedPlayoffs(matchups, record, weeks) \/ AdvancePlayoffs(matchups, weeks)
      PROVE  Finished(matchups') \subseteq Finished(matchups)
  <2>1. PICK ms, rec, ws : ms = matchups /\ rec = record /\ ws = weeks
    OBVIOUS
  <2>2. ms \in Matchups /\ (SeedPlayoffs(ms, rec, ws) \/ AdvancePlayoffs(ms, ws))
    BY <1>0, <1>6, <2>1
  <2> QED
    BY <2>1, <2>2, NoneFinishes
<1>7. CASE CreatePlayoffs \/ AdvanceBracket
  BY <1>2, <1>6, <1>7 DEF CreatePlayoffs, AdvanceBracket
<1>8. CASE UNCHANGED <<matchups, scores>>
  BY <1>2, <1>8
<1>9. ASSUME NEW w \in 1..LastWeek + 1, AdvanceWeek(w) PROVE UNCHANGED <<matchups, scores>>
  BY <1>9 DEF AdvanceWeek
<1>10. CASE Move
  BY <1>1, <1>4, <1>5, <1>7, <1>8, <1>9, <1>10
  DEF Move, UndoLastPick, rows, ScoresThere
<1> QED
  BY <1>1, <1>3, <1>8, <1>10
  DEF ScoresThere, Next, StatsStep, CompleteDraft, ResumeDraft, Tick, BeginStats, EndStats,
      GamesEnd, LockLeague, UnlockLeague, rows, vars

\* A completed game keeps its teams and its winner, and shows the scores that made it the
\* winner's until the commissioner calculates its week anew; the week goes back only by
\* the commissioner's hand or with a reopened draft; and only a commissioner's move that
\* carries the week into the playoffs or out of them parts the league's status from it.
THEOREM ResultsStandForGood == Spec => ResultsStand
<1>0. Spec => []ScoresThere
  <2>1. Init => ScoresThere
    BY DEF Init, ScoresThere
  <2>2. SeasonInv /\ ScoresThere /\ [Next]_vars => ScoresThere'
    BY ScoreStep
  <2> QED
    BY <2>1, <2>2, SeasonInvariant, PTL DEF Spec
<1>1. SeasonInv /\ ScoresThere /\ [Next]_vars =>
         [/\ \A id \in Finished(matchups) :
                /\ id \in Finished(matchups') /\ matchups'[id] = matchups[id]
                /\ scores'[id] # scores[id] => moves' # moves /\ record' = record
          /\ \A id \in Finished(matchups') \ Finished(matchups) :
                matchups'[id].winner = WinnerBy(matchups'[id], scores'[id])]_vars
  BY ScoreStep DEF Shows
<1>2. SeasonInv /\ [Next]_vars => [week' < week => moves' # moves \/ draft' # draft]_vars
  BY WeekForward
<1>3. SeasonInv /\ [Next]_vars =>
         [InPhase /\ ~InPhase' => moves' # moves /\ (InPlayoffs <=> ~InPlayoffs')]_vars
  BY PhaseOK
<1>4. Spec => SettledResultsStand
  BY SeasonInvariant, <1>0, <1>1, PTL DEF Spec, SettledResultsStand
<1>5. Spec => WeekGoesForward
  BY SeasonInvariant, <1>2, PTL DEF Spec, WeekGoesForward
<1>6. Spec => PhaseFollowsWeek
  BY SeasonInvariant, <1>3, PTL DEF Spec, PhaseFollowsWeek
<1> QED
  BY <1>4, <1>5, <1>6 DEF ResultsStand

\* The schedule of this league and of any league of up to twelve teams is fair, and so is
\* the scoring of its defences.
THEOREM TheRulesAreFair == Spec => []RulesAreFair /\ FairFor(Order)
<1>1. ASSUME NEW n \in {2, 4, 6, 8, 10, 12} PROVE FairFor([i \in 1..n |-> i])
  <2>1. PICK h \in Nat \ {0} : n = 2 * h
    <3>1. \A m \in {1, 2, 3, 4, 5, 6} : m \in Nat \ {0}
      OBVIOUS
    <3>2. \E m \in {1, 2, 3, 4, 5, 6} : n = 2 * m
      OBVIOUS
    <3> QED
      BY <3>1, <3>2
  <2>2. PICK s : s = [i \in 1..n |-> i]
    OBVIOUS
  <2>3. n \in Nat /\ s \in Seq(Nat) /\ Len(s) = 2 * h
    BY <2>1, <2>2
  <2>4. Distinct(s)
    BY <2>2 DEF Distinct
  <2> QED
    BY <2>2, <2>3, <2>4, CircleIsFair
<1>2. FairFor(Order)
  <2>1. PICK h \in Nat \ {0} : Len(Order) = 2 * h
    <3>1. Len(Order) \in Nat /\ Len(Order) >= 4 /\ Len(Order) % 2 = 0
      BY OrderFacts, SeasonAssumption DEF SeasonAssumption
    <3>2. Len(Order) \div 2 \in Nat \ {0} /\ Len(Order) = 2 * (Len(Order) \div 2)
      BY <3>1
    <3> QED
      BY <3>2
  <2>2. Order \in Seq(Teams)
    BY SeasonAssumption DEF SeasonAssumption
  <2>3. Distinct(Order)
    <3>1. Order \in Surjection(DOMAIN Order, Teams)
      <4>1. Order \in [DOMAIN Order -> Teams]
        BY <2>2
      <4> QED
        BY <4>1 DEF Surjection, Teams
    <3>2. Order \in Injection(DOMAIN Order, Teams)
      BY <3>1, OrderFacts, FS_SurjSameCardinalityImpliesInj
    <3> QED
      BY <3>2 DEF Injection, IsInjective, Distinct
  <2> QED
    BY <2>1, <2>2, <2>3, CircleIsFair
<1>3. FairBuckets(PointsAllowed, 80)
  BY NoneAssumption, BucketsAreFair
<1>4. RulesAreFair
  BY <1>1, <1>3 DEF RulesAreFair, FairSchedule, FairScoring
<1> QED
  BY <1>2, <1>4, PTL
=============================================================================
