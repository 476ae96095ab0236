------------------------------ MODULE Scoring ------------------------------
(***************************************************************************)
(* The scoring engine of services/scoring.py over the default              *)
(* configuration of core/defaults.py: a bucket's points come from the      *)
(* first bucket that holds the value.  Points are whole; a bucket without  *)
(* a maximum has the maximum None.                                         *)
(***************************************************************************)
EXTENDS Integers, Sequences, FiniteSetsExt

CONSTANT None

ASSUME NoneAssumption == None \notin Int

Bucket(least, most, points) == [min |-> least, max |-> most, points |-> points]

PointsAllowed ==
    <<Bucket(0, 0, 10), Bucket(1, 6, 7), Bucket(7, 13, 4), Bucket(14, 20, 1),
      Bucket(21, 27, 0), Bucket(28, 34, -1), Bucket(35, None, -4)>>

HoldsBelow(b, value) == value >= b.min /\ (b.max = None \/ value < b.max)  \* mutant of Holds
Holds(b, value) == value >= b.min /\ (b.max = None \/ value <= b.max)

Holding(buckets, value) == {i \in DOMAIN buckets : Holds(buckets[i], value)}

\* score_stats on one bucket family: no bucket, no points.
BucketPoints(buckets, value) ==
    IF Holding(buckets, value) = {} THEN 0 ELSE buckets[Min(Holding(buckets, value))].points

\* Every number of points allowed falls into exactly one bucket, and a defence that
\* allows more never scores more.
FairBuckets(buckets, most) ==
    \A value \in 0..most :
        /\ Cardinality(Holding(buckets, value)) = 1
        /\ BucketPoints(buckets, value + 1) <= BucketPoints(buckets, value)
=============================================================================
