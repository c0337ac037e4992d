--------------------------- MODULE TopicDelivery ---------------------------
(***************************************************************************)
(* What a service that reads a topic through platform/pkg/kafka may count  *)
(* on, without members, sessions and rebalances.  A message of the topic   *)
(* may be handled at any time and any number of times; the group's offset  *)
(* only moves forward, over messages that were handled or whose handler    *)
(* failed, and comes to rest right behind one that was handled.            *)
(***************************************************************************)
EXTENDS Integers

CONSTANTS Partitions, MaxLen

VARIABLES
  log,                \* how many messages a partition holds
  committed,          \* the group's offset: the next one to be read
  succeeded, failed   \* offsets whose handler succeeded, and failed

vars == <<log, committed, succeeded, failed>>

Init ==
  /\ log = [p \in Partitions |-> 0]
  /\ committed = [p \in Partitions |-> 0]
  /\ succeeded = [p \in Partitions |-> {}]
  /\ failed = [p \in Partitions |-> {}]

Produce(p) ==
  /\ log[p] < MaxLen
  /\ log' = [log EXCEPT ![p] = @ + 1]
  /\ UNCHANGED <<committed, succeeded, failed>>

Succeed(p, o) ==
  /\ succeeded' = [succeeded EXCEPT ![p] = @ \cup {o}]
  /\ UNCHANGED <<log, committed, failed>>

Fail(p, o) ==
  /\ failed' = [failed EXCEPT ![p] = @ \cup {o}]
  /\ UNCHANGED <<log, committed, succeeded>>

\* The offset may move from `from' to `to'.
MayPass(p, from, to) ==
  /\ from < to /\ to <= log[p]
  /\ \A o \in 0..(to - 1) : o \in succeeded[p] \cup failed[p]
  /\ to - 1 \in succeeded[p]

\* A member commits the partitions it owns, some of them maybe unmoved.
Commit ==
  /\ committed' \in [Partitions -> 0..MaxLen]
  /\ \A p \in Partitions :
       committed'[p] # committed[p] => MayPass(p, committed[p], committed'[p])
  /\ UNCHANGED <<log, succeeded, failed>>

Next ==
  \/ \E p \in Partitions : Produce(p)
  \/ \E p \in Partitions : \E o \in 0..(log[p] - 1) : Succeed(p, o) \/ Fail(p, o)
  \/ Commit

Spec == Init /\ [][Next]_vars
=============================================================================
