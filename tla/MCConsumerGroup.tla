-------------------------- MODULE MCConsumerGroup --------------------------
(***************************************************************************)
(* Instances of ConsumerGroup for TLC.                                     *)
(***************************************************************************)
EXTENDS ConsumerGroup, TLC

CONSTANTS m1, m2, p1, p2

\* Members may be exchanged, and so may partitions.
GroupSymmetry == Permutations({m1, m2}) \cup Permutations({p1, p2})
=============================================================================
