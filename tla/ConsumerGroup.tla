--------------------------- MODULE ConsumerGroup ---------------------------
(***************************************************************************)
(* One topic read by one consumer group, as platform/pkg/kafka/consumer    *)
(* reads it for the order, assembly and notification services.             *)
(*                                                                         *)
(* The repository's part is small: Consume joins the group again and again,*)
(* and ConsumeClaim, a goroutine per partition, hands each message to the  *)
(* service's handler, marks it when the handler succeeds and goes on to the*)
(* next one when it fails.  What that means depends on the broker and the  *)
(* sarama library around it (sessions, generations, offsets, automatic     *)
(* commits), which are external and modelled by what the code uses of them.*)
(***************************************************************************)
EXTENDS Integers

CONSTANTS Partitions,
          Members,         \* instances of the service
          NoMember,
          MaxLen,          \* bound: messages in a partition
          MaxGeneration,   \* bound: rebalances, and what calls for one
          Faults           \* subset of FaultKinds

FaultKinds == {"handler",   \* a handler fails although its session is alive
               "crash",     \* an instance dies; it may be started again
               "stop"}      \* group.Consume fails: the instance reads no more

ASSUME GroupConstants ==
  /\ Faults \subseteq FaultKinds
  /\ MaxLen \in Nat /\ MaxGeneration \in Nat
  /\ NoMember \notin Members

VARIABLES
  log,         \* how many messages a partition holds: offsets 0, 1, ...
  committed,   \* the group's committed offset, the next one to be read
  generation,  \* the coordinator's; 0 before the first assignment
  preparing,   \* a rebalance has begun and waits for the members
  assigned,    \* who owns each partition in this generation
  up,          \* the members whose Consume loop runs
  session,     \* the generation of the member's session, 0 without one
  cancelled,   \* the session's context is done
  claims,      \* the partitions the member's session has claimed
  next,        \* [m][p]: the offset ConsumeClaim receives next
  marked,      \* [m][p]: where MarkMessage has moved the offset to
  handler,     \* [m][p]: "running" with next - 1, "doomed" if it was called
               \* with a context that was done, or "idle"
  succeeded, failed   \* history: offsets whose handler succeeded; failed
                      \* although its session was alive

coordinator == <<generation, preparing, assigned>>
members     == <<up, session, cancelled, claims>>
progress    == <<next, marked, handler>>
history     == <<succeeded, failed>>
vars == <<log, committed, generation, preparing, assigned, up, session,
          cancelled, claims, next, marked, handler, succeeded, failed>>

Offsets == 0..(MaxLen - 1)

Init ==
  /\ log = [p \in Partitions |-> 0]
  /\ committed = [p \in Partitions |-> 0]
  /\ generation = 0 /\ preparing = TRUE
  /\ assigned = [p \in Partitions |-> NoMember]
  /\ up = Members
  /\ session = [m \in Members |-> 0]
  /\ cancelled = [m \in Members |-> FALSE]
  /\ claims = [m \in Members |-> {}]
  /\ next = [m \in Members |-> [p \in Partitions |-> 0]]
  /\ marked = [m \in Members |-> [p \in Partitions |-> 0]]
  /\ handler = [m \in Members |-> [p \in Partitions |-> "idle"]]
  /\ succeeded = [p \in Partitions |-> {}]
  /\ failed = [p \in Partitions |-> {}]

\* The coordinator takes the offsets of a member of this generation only.
Fenced(m) == session[m] # generation

\* Something may still go wrong: bounds how often the group is disturbed.
Disturbable == generation < MaxGeneration

-----------------------------------------------------------------------------
(* The topic's producer.                                                   *)

Produce(p) ==
  /\ log[p] < MaxLen
  /\ log' = [log EXCEPT ![p] = @ + 1]
  /\ UNCHANGED <<committed, coordinator, members, progress, history>>

-----------------------------------------------------------------------------
(* ConsumeClaim.                                                           *)

DeliverDetached(m, p) ==
  /\ p \in claims[m] /\ handler[m][p] = "idle" /\ next[m][p] < log[p]
  /\ next' = [next EXCEPT ![m][p] = @ + 1]
  /\ handler' = [handler EXCEPT ![m][p] = "running"]
  /\ UNCHANGED <<log, committed, coordinator, members, marked, history>>

DeliverPastEnd(m, p) ==
  /\ p \in claims[m] /\ handler[m][p] = "idle" /\ next[m][p] <= log[p]
  /\ next' = [next EXCEPT ![m][p] = @ + 1]
  /\ handler' = [handler EXCEPT ![m][p] =
                   IF cancelled[m] THEN "doomed" ELSE "running"]
  /\ UNCHANGED <<log, committed, coordinator, members, marked, history>>

\* A message goes from claim.Messages() to the handler with the session's
\* context; the select may prefer it to a context that is already done.
Deliver(m, p) ==
  /\ p \in claims[m] /\ handler[m][p] = "idle" /\ next[m][p] < log[p]
  /\ next' = [next EXCEPT ![m][p] = @ + 1]
  /\ handler' = [handler EXCEPT ![m][p] =
                   IF cancelled[m] THEN "doomed" ELSE "running"]
  /\ UNCHANGED <<log, committed, coordinator, members, marked, history>>

\* The handler returns nil and the message is marked.  No handler of the
\* repository succeeds when it is called with a context that is done.
HandlerSucceeds(m, p) ==
  /\ handler[m][p] = "running"
  /\ handler' = [handler EXCEPT ![m][p] = "idle"]
  /\ marked' = [marked EXCEPT ![m][p] = next[m][p]]
  /\ succeeded' = [succeeded EXCEPT ![p] = @ \cup {next[m][p] - 1}]
  /\ UNCHANGED <<log, committed, coordinator, members, next, failed>>

FailMarks(m, p) ==
  /\ handler[m][p] # "idle"
  /\ handler[m][p] = "doomed" \/ cancelled[m] \/ "handler" \in Faults
  /\ handler' = [handler EXCEPT ![m][p] = "idle"]
  /\ marked' = [marked EXCEPT ![m][p] = next[m][p]]
  /\ failed' = IF cancelled[m] THEN failed
               ELSE [failed EXCEPT ![p] = @ \cup {next[m][p] - 1}]
  /\ UNCHANGED <<log, committed, coordinator, members, next, succeeded>>

FailEndsClaim(m, p) ==
  /\ handler[m][p] # "idle"
  /\ handler[m][p] = "doomed" \/ cancelled[m] \/ "handler" \in Faults
  /\ claims' = [claims EXCEPT ![m] = @ \ {p}]
  /\ handler' = [handler EXCEPT ![m][p] = "idle"]
  /\ failed' = IF cancelled[m] THEN failed
               ELSE [failed EXCEPT ![p] = @ \cup {next[m][p] - 1}]
  /\ UNCHANGED <<log, committed, coordinator, up, session, cancelled, next,
                 marked, succeeded>>

\* The handler returns an error: it is logged, nothing is marked, and the
\* loop continues with the next message.
HandlerFails(m, p) ==
  /\ handler[m][p] # "idle"
  /\ handler[m][p] = "doomed" \/ cancelled[m] \/ "handler" \in Faults
  /\ handler' = [handler EXCEPT ![m][p] = "idle"]
  /\ failed' = IF cancelled[m] THEN failed
               ELSE [failed EXCEPT ![p] = @ \cup {next[m][p] - 1}]
  /\ UNCHANGED <<log, committed, coordinator, members, next, marked, succeeded>>

-----------------------------------------------------------------------------
(* The library: commits, and the end of a session.                         *)

\* The marked offsets of m's claims become the group's, unless m is fenced.
Flush(m) ==
  committed' = [p \in Partitions |->
                  IF p \in claims[m] /\ ~Fenced(m) THEN marked[m][p]
                  ELSE committed[p]]

\* m's session is gone, and with it what was marked and not committed.
NoSession(m) ==
  /\ session' = [session EXCEPT ![m] = 0]
  /\ cancelled' = [cancelled EXCEPT ![m] = FALSE]
  /\ claims' = [claims EXCEPT ![m] = {}]
  /\ next' = [next EXCEPT ![m] = [p \in Partitions |-> 0]]
  /\ marked' = [marked EXCEPT ![m] = [p \in Partitions |-> 0]]
  /\ handler' = [handler EXCEPT ![m] = [p \in Partitions |-> "idle"]]

AutoCommit(m) ==
  /\ session[m] # 0
  /\ Flush(m)
  /\ UNCHANGED <<log, coordinator, members, progress, history>>

\* The member learns of a rebalance, that its generation is over, or loses
\* the coordinator: the session's context is done.
Cancel(m) ==
  /\ session[m] # 0 /\ ~cancelled[m]
  /\ preparing \/ Fenced(m) \/ Disturbable
  /\ cancelled' = [cancelled EXCEPT ![m] = TRUE]
  /\ UNCHANGED <<log, committed, coordinator, up, session, claims,
                 progress, history>>

\* The claims' goroutines have returned, the session commits what is marked,
\* if it can, and Consume's loop joins the group again.
EndSession(m) ==
  /\ cancelled[m]
  /\ \A p \in claims[m] : handler[m][p] = "idle"
  /\ Flush(m) \/ UNCHANGED committed
  /\ NoSession(m)
  /\ UNCHANGED <<log, coordinator, up, history>>

\* group.Consume returns an error, and Consume with it: the service's
\* consumer goroutine is over and nobody starts it again.
Stop(m) ==
  /\ "stop" \in Faults /\ Disturbable
  /\ m \in up /\ session[m] = 0
  /\ up' = up \ {m}
  /\ UNCHANGED <<log, committed, coordinator, session, cancelled, claims,
                 progress, history>>

-----------------------------------------------------------------------------
(* The coordinator, and instances that die.                                *)

\* A member that runs is not in the group, or an owner has left it.
NeedsRebalance ==
  \/ \E m \in up : session[m] = 0
  \/ \E p \in Partitions : assigned[p] = NoMember \/ Fenced(assigned[p])

StartRebalance ==
  /\ ~preparing /\ Disturbable /\ NeedsRebalance
  /\ preparing' = TRUE
  /\ UNCHANGED <<log, committed, generation, assigned, members,
                 progress, history>>

\* The members that have joined share the partitions and start at the
\* committed offsets.  One that is still in its session when the rebalance
\* times out stays there, fenced, until it notices.
CompleteRebalance ==
  LET joined == {m \in up : session[m] = 0} IN
  /\ preparing /\ joined # {}
  /\ preparing' = FALSE
  /\ generation' = generation + 1
  /\ \E owner \in [Partitions -> joined] :
       /\ assigned' = owner
       /\ claims' = [m \in Members |->
            IF m \in joined THEN {p \in Partitions : owner[p] = m} ELSE claims[m]]
       /\ session' = [m \in Members |->
            IF m \in joined THEN generation + 1 ELSE session[m]]
       /\ next' = [m \in Members |-> [p \in Partitions |->
            IF owner[p] = m THEN committed[p] ELSE next[m][p]]]
       /\ marked' = [m \in Members |-> [p \in Partitions |->
            IF owner[p] = m THEN committed[p] ELSE marked[m][p]]]
  /\ UNCHANGED <<log, committed, up, cancelled, handler, history>>

Crash(m) ==
  /\ "crash" \in Faults /\ Disturbable
  /\ m \in up
  /\ up' = up \ {m}
  /\ NoSession(m)
  /\ UNCHANGED <<log, committed, coordinator, history>>

Restart(m) ==
  /\ "crash" \in Faults
  /\ m \notin up
  /\ up' = up \cup {m}
  /\ UNCHANGED <<log, committed, coordinator, session, cancelled, claims,
                 progress, history>>

-----------------------------------------------------------------------------
Next ==
  \/ \E p \in Partitions : Produce(p)
  \/ \E m \in Members, p \in Partitions :
       Deliver(m, p) \/ HandlerSucceeds(m, p) \/ HandlerFails(m, p)
  \/ \E m \in Members :
       AutoCommit(m) \/ Cancel(m) \/ EndSession(m) \/ Stop(m)
       \/ Crash(m) \/ Restart(m)
  \/ StartRebalance
  \/ CompleteRebalance

Spec == Init /\ [][Next]_vars

\* ConsumeClaim's goroutine goes on and every handler returns (its calls take
\* the session's context or a timer of at most ten seconds); the library
\* notices that a session is over and rejoins; the coordinator does its part.
\* Nothing says that an instance is started again.
Fairness ==
  /\ \A m \in Members, p \in Partitions :
       /\ WF_vars(Deliver(m, p))
       /\ WF_vars(HandlerSucceeds(m, p) \/ HandlerFails(m, p))
  /\ \A m \in Members :
       /\ WF_vars((preparing \/ Fenced(m)) /\ Cancel(m))
       /\ WF_vars(EndSession(m))
  /\ WF_vars(StartRebalance)
  /\ WF_vars(CompleteRebalance)

FairSpec == Spec /\ Fairness

-----------------------------------------------------------------------------
(* Properties.                                                             *)

\* Every variable has its type.
TypeOK ==
  /\ log \in [Partitions -> 0..MaxLen]
  /\ committed \in [Partitions -> 0..MaxLen]
  /\ generation \in Nat /\ preparing \in BOOLEAN
  /\ assigned \in [Partitions -> Members \cup {NoMember}]
  /\ up \subseteq Members
  /\ session \in [Members -> Nat]
  /\ cancelled \in [Members -> BOOLEAN]
  /\ claims \in [Members -> SUBSET Partitions]
  /\ next \in [Members -> [Partitions -> 0..MaxLen]]
  /\ marked \in [Members -> [Partitions -> 0..MaxLen]]
  /\ handler \in [Members -> [Partitions -> {"idle", "running", "doomed"}]]
  /\ succeeded \in [Partitions -> SUBSET Offsets]
  /\ failed \in [Partitions -> SUBSET Offsets]

\* No rebalance, crash, fenced member or cancelled handler loses a message:
\* a committed one was handled, or its handler failed by itself.  (The second
\* happens: the next success commits past the failure.)
LostOnlyByFailure ==
  \A p \in Partitions : \A o \in 0..(committed[p] - 1) :
    o \in succeeded[p] \cup failed[p]

\* A failed message is given up only because a later one succeeded: the last
\* committed message of a partition always is a handled one.
CommittedEndsWithSuccess ==
  \A p \in Partitions :
    committed[p] > 0 => committed[p] - 1 \in succeeded[p]

Delivery == INSTANCE TopicDelivery

\* Members, sessions, rebalances and crashes are invisible to the service but
\* for repeated messages: the offset never goes back and never passes a
\* message that no handler has seen.
ImplementsDelivery == Delivery!Spec

\* As long as one instance runs, every message reaches a handler with a live
\* context, through rebalances, crashes of others and handlers that fail.
EveryMessageIsHandled ==
  \A p \in Partitions, o \in Offsets :
    o < log[p] ~> (o \in succeeded[p] \cup failed[p] \/ up = {})

\* events.proto: "event_uuid, unique identifier of the event (for
\* idempotency)".  No consumer looks at it: a message that took effect is
\* handled once more by the member that inherits its partition.
TakesEffectOnce ==
  \A m \in Members, p \in Partitions :
    handler[m][p] = "running" => next[m][p] - 1 \notin succeeded[p]
=============================================================================
