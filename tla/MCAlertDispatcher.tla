-------------------------- MODULE MCAlertDispatcher --------------------------
(* Instances of AlertDispatcher for TLC. *)
EXTENDS AlertDispatcher, TLC

CONSTANTS w1, w2, a1, a2, ec2, east, west

\* Two ARNs of EC2 in two regions.  The second event starts in the correlation
\* window of the first, and may be revised to have started in the next one.
TwoServiceOf == a1 :> ec2 @@ a2 :> ec2
TwoRegionOf  == a1 :> east @@ a2 :> west
TwoStartsOf  == a1 :> {0} @@ a2 :> {1, 2}

\* One event.
OneServiceOf == a1 :> ec2
OneRegionOf  == a1 :> east
OneStartsOf  == a1 :> {0}

\* The rank of a row in a scan: earlier buckets first.
BucketRank   == [k \in {ec2} \X (0..MaxTime) |-> k[2]]

Workers == Permutations(Worker)
=============================================================================
