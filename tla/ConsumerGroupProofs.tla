------------------------ MODULE ConsumerGroupProofs ------------------------
(***************************************************************************)
(* Proofs about ConsumerGroup for every set of partitions and members and  *)
(* every set of faults: what a commit says about the messages below it.    *)
(***************************************************************************)
EXTENDS ConsumerGroup, TLAPS

\* Every message below k was handled, or failed by itself.
Covered(p, k) == \A o \in 0..(k - 1) : o \in succeeded[p] \cup failed[p]

\* An offset k that may be committed.
Sound(p, k) == Covered(p, k) /\ (k > 0 => k - 1 \in succeeded[p])

\* A claim's mark may be committed at any time.  While the session is alive
\* everything the claim has received is accounted for, but for the message in
\* the handler; once the context is done only that message may still succeed.
ClaimInv(m, p) ==
  /\ Sound(p, marked[m][p])
  /\ handler[m][p] # "idle" => next[m][p] > 0
  /\ handler[m][p] = "running" => Covered(p, next[m][p] - 1)
  /\ handler[m][p] = "idle" /\ ~cancelled[m] => Covered(p, next[m][p])
  /\ handler[m][p] = "doomed" => cancelled[m]

\* A member without a session has no handler running.
OutOfSession(m) ==
  session[m] = 0 => /\ ~cancelled[m]
                    /\ \A p \in Partitions : handler[m][p] = "idle"

\* Only a member with a session has claims.
ClaimedInSession(m) == claims[m] # {} => session[m] # 0

IInv == /\ TypeOK
        /\ \A p \in Partitions : Sound(p, committed[p])
        /\ \A m \in Members, p \in Partitions : ClaimInv(m, p)
        /\ \A m \in Members : OutOfSession(m)
        /\ \A m \in Members : ClaimedInSession(m)

-----------------------------------------------------------------------------
LEMMA InitIInv == ASSUME GroupConstants, Init PROVE IInv
<1>2. \A p \in Partitions : Covered(p, 0) /\ Sound(p, 0)
  <2>1. 0..(0 - 1) = {}
    OBVIOUS
  <2>2. QED
    BY <2>1 DEF Covered, Sound
<1> USE DEF Init
<1>1. TypeOK
  BY DEF GroupConstants, TypeOK, Offsets
<1>3. \A m \in Members, p \in Partitions : ClaimInv(m, p)
  <2> SUFFICES ASSUME NEW m \in Members, NEW p \in Partitions
               PROVE  ClaimInv(m, p)
    OBVIOUS
  <2>1. next[m][p] = 0 /\ marked[m][p] = 0 /\ handler[m][p] = "idle"
    OBVIOUS
  <2>2. QED
    BY <1>2, <2>1 DEF ClaimInv
<1>4. \A m \in Members : OutOfSession(m)
  BY DEF OutOfSession
<1>5. \A m \in Members : ClaimedInSession(m)
  BY DEF ClaimedInSession
<1>6. QED
  BY <1>1, <1>2, <1>3, <1>4, <1>5 DEF IInv

\* NoSession keeps the types.
LEMMA NoSessionType ==
  ASSUME TypeOK, GroupConstants, NEW m \in Members, NoSession(m)
  PROVE  /\ session' \in [Members -> Nat]
         /\ cancelled' \in [Members -> BOOLEAN]
         /\ claims' \in [Members -> SUBSET Partitions]
         /\ next' \in [Members -> [Partitions -> 0..MaxLen]]
         /\ marked' \in [Members -> [Partitions -> 0..MaxLen]]
         /\ handler' \in [Members -> [Partitions -> {"idle", "running", "doomed"}]]
BY DEF TypeOK, NoSession, GroupConstants

LEMMA FlushType ==
  ASSUME TypeOK, NEW m \in Members, Flush(m)
  PROVE  committed' \in [Partitions -> 0..MaxLen]
BY DEF TypeOK, Flush

LEMMA TypeStep ==
  ASSUME GroupConstants, IInv, [Next]_vars
  PROVE  TypeOK'
<1> USE DEF coordinator, members, progress, history
<1>0. TypeOK
  BY DEF IInv
<1>1. CASE UNCHANGED vars
  BY <1>0, <1>1 DEF vars, TypeOK
<1>2. ASSUME NEW p \in Partitions, Produce(p) PROVE TypeOK'
  BY <1>0, <1>2 DEF Produce, TypeOK, GroupConstants
<1>3. ASSUME NEW m \in Members, NEW p \in Partitions, Deliver(m, p)
      PROVE  TypeOK'
  BY <1>0, <1>3 DEF Deliver, TypeOK, GroupConstants
<1>4. ASSUME NEW m \in Members, NEW p \in Partitions,
             HandlerSucceeds(m, p) \/ HandlerFails(m, p)
      PROVE  TypeOK'
  <2>1. next[m][p] - 1 \in Offsets
    BY <1>0, <1>4 DEF HandlerSucceeds, HandlerFails, IInv, ClaimInv, TypeOK,
                Offsets, GroupConstants
  <2>2. CASE HandlerSucceeds(m, p)
    BY <1>0, <2>1, <2>2 DEF HandlerSucceeds, TypeOK
  <2>3. CASE HandlerFails(m, p)
    BY <1>0, <2>1, <2>3 DEF HandlerFails, TypeOK
  <2>4. QED
    BY <1>0, <1>4, <2>2, <2>3
<1>5. ASSUME NEW m \in Members,
             AutoCommit(m) \/ Cancel(m) \/ Stop(m) \/ Restart(m)
      PROVE  TypeOK'
  BY <1>0, <1>5, FlushType DEF AutoCommit, Cancel, Stop, Restart, TypeOK
<1>6. ASSUME NEW m \in Members, EndSession(m) \/ Crash(m) PROVE TypeOK'
  <2>1. NoSession(m) /\ committed' \in [Partitions -> 0..MaxLen]
    BY <1>0, <1>6, FlushType DEF EndSession, Crash, TypeOK
  <2>2. QED
    BY <1>0, <1>6, <2>1, NoSessionType DEF EndSession, Crash, TypeOK
<1>7. CASE StartRebalance
  BY <1>0, <1>7 DEF StartRebalance, TypeOK
<1>8. CASE CompleteRebalance
  <2> DEFINE joined == {m \in up : session[m] = 0}
  <2>1. PICK owner \in [Partitions -> joined] :
          /\ assigned' = owner
          /\ claims' = [m \in Members |->
               IF m \in joined THEN {p \in Partitions : owner[p] = m}
               ELSE claims[m]]
          /\ session' = [m \in Members |->
               IF m \in joined THEN generation + 1 ELSE session[m]]
          /\ next' = [m \in Members |-> [p \in Partitions |->
               IF owner[p] = m THEN committed[p] ELSE next[m][p]]]
          /\ marked' = [m \in Members |-> [p \in Partitions |->
               IF owner[p] = m THEN committed[p] ELSE marked[m][p]]]
    BY <1>0, <1>8 DEF CompleteRebalance
  <2>2. /\ UNCHANGED <<log, committed, up, cancelled, handler>>
        /\ UNCHANGED <<succeeded, failed>>
        /\ preparing' = FALSE /\ generation' = generation + 1
    BY <1>0, <1>8 DEF CompleteRebalance
  <2>3. joined \subseteq Members
    BY <1>0 DEF TypeOK
  <2>4. next' \in [Members -> [Partitions -> 0..MaxLen]]
    BY <1>0, <2>1 DEF TypeOK
  <2>5. marked' \in [Members -> [Partitions -> 0..MaxLen]]
    BY <1>0, <2>1 DEF TypeOK
  <2>6. /\ assigned' \in [Partitions -> Members \cup {NoMember}]
        /\ claims' \in [Members -> SUBSET Partitions]
        /\ session' \in [Members -> Nat]
    BY <1>0, <2>1, <2>3 DEF TypeOK
  <2>7. generation' \in Nat /\ preparing' \in BOOLEAN
    <3>1. generation \in Nat
      BY <1>0 DEF TypeOK
    <3>2. preparing' = FALSE /\ generation' = generation + 1
      BY <2>2
    <3>3. preparing' \in BOOLEAN
      BY <3>2
    <3>4. generation' \in Nat
      BY <3>1, <3>2
    <3>5. QED
      BY <3>3, <3>4
  <2>8. QED
    BY <1>0, <2>2, <2>4, <2>5, <2>6, <2>7 DEF TypeOK
<1>9. QED
  BY <1>0, <1>1, <1>2, <1>3, <1>4, <1>5, <1>6, <1>7, <1>8 DEF Next

-----------------------------------------------------------------------------
\* What is sound stays sound: the histories only grow.
LEMMA Grows ==
  ASSUME GroupConstants, IInv, [Next]_vars
  PROVE  \A p \in Partitions : /\ succeeded[p] \subseteq succeeded'[p]
                               /\ failed[p] \subseteq failed'[p]
<1>1. CASE UNCHANGED history
  BY <1>1 DEF history
<1>2. ASSUME NEW m \in Members, NEW p \in Partitions,
             HandlerSucceeds(m, p) \/ HandlerFails(m, p)
      PROVE  \A q \in Partitions : /\ succeeded[q] \subseteq succeeded'[q]
                                   /\ failed[q] \subseteq failed'[q]
  <2>1. /\ succeeded \in [Partitions -> SUBSET Offsets]
        /\ failed \in [Partitions -> SUBSET Offsets]
    BY DEF IInv, TypeOK
  <2>2. CASE HandlerSucceeds(m, p)
    BY <2>1, <2>2 DEF HandlerSucceeds
  <2>3. CASE HandlerFails(m, p)
    BY <2>1, <2>3 DEF HandlerFails
  <2>4. QED
    BY <1>2, <2>2, <2>3
<1>3. CASE UNCHANGED vars
  BY <1>3, <1>1 DEF vars, history
<1>4. ASSUME NEW m \in Members,
             \/ \E p \in Partitions : Produce(p) \/ Deliver(m, p)
             \/ AutoCommit(m) \/ Cancel(m) \/ EndSession(m) \/ Stop(m)
             \/ Crash(m) \/ Restart(m)
      PROVE  UNCHANGED history
  BY <1>4 DEF Produce, Deliver, AutoCommit, Cancel, EndSession, Stop, Crash,
              Restart
<1>5. CASE StartRebalance \/ CompleteRebalance \/ \E p \in Partitions : Produce(p)
  BY <1>1, <1>5 DEF StartRebalance, CompleteRebalance, Produce
<1>6. QED
  BY <1>1, <1>2, <1>3, <1>4, <1>5 DEF Next

LEMMA StaysSound ==
  ASSUME GroupConstants, IInv, [Next]_vars
  PROVE  \A p \in Partitions, k \in Int :
           /\ Covered(p, k) => Covered(p, k)'
           /\ Sound(p, k) => Sound(p, k)'
BY Grows DEF Covered, Sound

\* A commit takes a mark, and every mark is sound.
LEMMA CommitStep ==
  ASSUME GroupConstants, IInv, [Next]_vars
  PROVE  \A p \in Partitions : Sound(p, committed[p])'
<1>1. \A p \in Partitions :
        \/ committed'[p] = committed[p]
        \/ \E m \in Members : committed'[p] = marked[m][p]
  BY DEF IInv, TypeOK, Next, vars, Produce, Deliver, HandlerSucceeds,
         HandlerFails, AutoCommit, Cancel, EndSession, Stop, Crash, Restart,
         StartRebalance, CompleteRebalance, Flush
<1>2. \A p \in Partitions : Sound(p, committed'[p])
  BY <1>1 DEF IInv, ClaimInv
<1>3. TypeOK'
  BY TypeStep
<1>4. QED
  BY <1>2, <1>3, StaysSound DEF TypeOK

-----------------------------------------------------------------------------
\* A claim whose progress does not move keeps its invariant, also when its
\* context is cancelled.
LEMMA ClaimKeeps ==
  ASSUME GroupConstants, IInv, [Next]_vars, NEW m \in Members,
         NEW p \in Partitions,
         next'[m][p] = next[m][p], marked'[m][p] = marked[m][p],
         handler'[m][p] = handler[m][p], cancelled[m] => cancelled'[m]
  PROVE  ClaimInv(m, p)'
<1>1. PICK k \in Int, n \in Int : k = marked[m][p] /\ n = next[m][p]
  BY DEF IInv, TypeOK, GroupConstants
<1>2. /\ Sound(p, k)
      /\ handler[m][p] # "idle" => n > 0
      /\ handler[m][p] = "running" => Covered(p, n - 1)
      /\ handler[m][p] = "idle" /\ ~cancelled[m] => Covered(p, n)
      /\ handler[m][p] = "doomed" => cancelled[m]
  BY <1>1 DEF IInv, ClaimInv
<1>3. /\ Sound(p, k)'
      /\ handler[m][p] = "running" => Covered(p, n - 1)'
      /\ handler[m][p] = "idle" /\ ~cancelled[m] => Covered(p, n)'
  BY <1>2, StaysSound
<1>4. k = marked'[m][p] /\ n = next'[m][p]
  BY <1>1
<1>5. QED
  BY <1>2, <1>3, <1>4 DEF ClaimInv, Sound, Covered

\* A claim that is reset, or that starts, is accounted for.
LEMMA ClaimStarts ==
  ASSUME GroupConstants, IInv, [Next]_vars, NEW m \in Members,
         NEW p \in Partitions, handler'[m][p] = "idle",
         next'[m][p] = marked'[m][p],
         marked'[m][p] \in {0, committed[p]}
  PROVE  ClaimInv(m, p)'
<1>1. Sound(p, 0)
  <2>1. 0..(0 - 1) = {}
    OBVIOUS
  <2>2. QED
    BY <2>1 DEF Sound, Covered
<1>2. Sound(p, committed[p]) /\ committed[p] \in Int
  BY DEF IInv, TypeOK
<1>3. PICK k \in Int : k = marked'[m][p] /\ Sound(p, k)
  BY <1>1, <1>2
<1>4. Sound(p, k)'
  BY <1>3, StaysSound
<1>5. QED
  BY <1>3, <1>4 DEF ClaimInv, Sound

LEMMA ClaimStep ==
  ASSUME GroupConstants, IInv, [Next]_vars
  PROVE  \A m \in Members, p \in Partitions : ClaimInv(m, p)'
<1>0. /\ next \in [Members -> [Partitions -> 0..MaxLen]]
      /\ marked \in [Members -> [Partitions -> 0..MaxLen]]
      /\ handler \in [Members -> [Partitions -> {"idle", "running", "doomed"}]]
      /\ cancelled \in [Members -> BOOLEAN]
      /\ succeeded \in [Partitions -> SUBSET Offsets]
      /\ failed \in [Partitions -> SUBSET Offsets]
      /\ MaxLen \in Nat
  BY DEF IInv, TypeOK, GroupConstants
<1> SUFFICES ASSUME NEW n \in Members, NEW q \in Partitions
             PROVE  ClaimInv(n, q)'
  OBVIOUS
<1>1. CASE UNCHANGED <<progress, cancelled>>
  BY <1>1, ClaimKeeps DEF progress
<1>2. ASSUME NEW m \in Members, Cancel(m) PROVE ClaimInv(n, q)'
  BY <1>0, <1>2, ClaimKeeps DEF Cancel, progress
<1>3. ASSUME NEW m \in Members, NEW p \in Partitions, Deliver(m, p)
      PROVE  ClaimInv(n, q)'
  <2>1. CASE n # m \/ q # p
    <3>1. /\ next'[n][q] = next[n][q] /\ handler'[n][q] = handler[n][q]
          /\ marked' = marked /\ cancelled' = cancelled
      BY <1>0, <1>3, <2>1 DEF Deliver, members
    <3> QED BY <3>1, ClaimKeeps
  <2>2. CASE n = m /\ q = p
    <3>1. PICK k \in Nat, j \in Nat : k = next[m][p] /\ j = marked[m][p]
      BY <1>0
    <3>2. /\ next'[m][p] = k + 1 /\ marked'[m][p] = j
          /\ handler[m][p] = "idle" /\ cancelled' = cancelled
          /\ handler'[m][p] = IF cancelled[m] THEN "doomed" ELSE "running"
      BY <1>0, <1>3, <3>1 DEF Deliver, members
    <3>3. Sound(p, j) /\ (~cancelled[m] => Covered(p, k))
      BY <3>1, <3>2 DEF IInv, ClaimInv
    <3>4. Sound(p, j)' /\ (~cancelled[m] => Covered(p, k)')
      BY <3>3, StaysSound
    <3>5. k + 1 - 1 = k /\ k + 1 > 0
      OBVIOUS
    <3>6. QED
      BY <2>2, <3>2, <3>4, <3>5 DEF ClaimInv, Sound, Covered
  <2>3. QED
    BY <2>1, <2>2
<1>4. ASSUME NEW m \in Members, NEW p \in Partitions, HandlerSucceeds(m, p)
      PROVE  ClaimInv(n, q)'
  <2>1. CASE n # m \/ q # p
    BY <1>0, <1>4, <2>1, ClaimKeeps DEF HandlerSucceeds, members
  <2>2. CASE n = m /\ q = p
    <3>1. PICK k \in Nat : k = next[m][p]
      BY <1>0
    <3>2. /\ next'[m][p] = k /\ marked'[m][p] = k /\ handler'[m][p] = "idle"
          /\ k - 1 \in succeeded'[p] /\ k > 0
      BY <1>0, <1>4, <3>1 DEF HandlerSucceeds, IInv, ClaimInv
    <3>3. Covered(p, k - 1)'
      <4>1. Covered(p, k - 1)
        BY <1>4, <3>1 DEF HandlerSucceeds, IInv, ClaimInv
      <4>2. QED
        BY <4>1, StaysSound
    <3>4. \A o \in 0..(k - 1) : o = k - 1 \/ o \in 0..(k - 1 - 1)
      BY <3>2
    <3>5. Covered(p, k)'
      BY <3>2, <3>3, <3>4 DEF Covered
    <3>6. QED
      BY <2>2, <3>2, <3>5 DEF ClaimInv, Sound, Covered
  <2>3. QED
    BY <2>1, <2>2
<1>5. ASSUME NEW m \in Members, NEW p \in Partitions, HandlerFails(m, p)
      PROVE  ClaimInv(n, q)'
  <2>1. CASE n # m \/ q # p
    BY <1>0, <1>5, <2>1, ClaimKeeps DEF HandlerFails, members
  <2>2. CASE n = m /\ q = p
    <3>1. PICK k \in Nat, j \in Nat : k = next[m][p] /\ j = marked[m][p]
      BY <1>0
    <3>2. /\ next'[m][p] = k /\ marked'[m][p] = j
          /\ handler'[m][p] = "idle" /\ cancelled' = cancelled
      BY <1>0, <1>5, <3>1 DEF HandlerFails, members
    <3>3. Sound(p, j) /\ k > 0
      BY <1>5, <3>1 DEF HandlerFails, IInv, ClaimInv
    <3>4. Sound(p, j)'
      BY <3>3, StaysSound
    <3>5. ~cancelled[m] => Covered(p, k)'
      <4> SUFFICES ASSUME ~cancelled[m] PROVE Covered(p, k)'
        OBVIOUS
      <4>1. handler[m][p] = "running" /\ k - 1 \in failed'[p]
        BY <1>0, <1>5, <3>1 DEF HandlerFails, IInv, ClaimInv
      <4>2. Covered(p, k - 1)
        BY <3>1, <4>1 DEF IInv, ClaimInv
      <4>3. Covered(p, k - 1)'
        BY <4>2, StaysSound
      <4>4. \A o \in 0..(k - 1) : o = k - 1 \/ o \in 0..(k - 1 - 1)
        BY <3>3
      <4>5. QED
        BY <4>1, <4>3, <4>4 DEF Covered
    <3>6. QED
      BY <2>2, <3>2, <3>4, <3>5 DEF ClaimInv, Sound, Covered
  <2>3. QED
    BY <2>1, <2>2
<1>6. ASSUME NEW m \in Members, EndSession(m) \/ Crash(m)
      PROVE  ClaimInv(n, q)'
  <2>1. NoSession(m)
    BY <1>6 DEF EndSession, Crash
  <2>2. CASE n = m
    BY <1>0, <2>1, <2>2, ClaimStarts DEF NoSession
  <2>3. CASE n # m
    BY <1>0, <2>1, <2>3, ClaimKeeps DEF NoSession
  <2>4. QED
    BY <2>2, <2>3
<1>7. CASE CompleteRebalance
  <2>1. PICK owner \in [Partitions -> {m \in up : session[m] = 0}] :
          /\ next' = [m \in Members |-> [p \in Partitions |->
               IF owner[p] = m THEN committed[p] ELSE next[m][p]]]
          /\ marked' = [m \in Members |-> [p \in Partitions |->
               IF owner[p] = m THEN committed[p] ELSE marked[m][p]]]
    BY <1>7 DEF CompleteRebalance
  <2>2. handler' = handler /\ cancelled' = cancelled
    BY <1>7 DEF CompleteRebalance
  <2>3. CASE owner[q] = n
    <3>1. handler[n][q] = "idle"
      BY <2>1, <2>3 DEF IInv, OutOfSession
    <3>2. next'[n][q] = committed[q] /\ marked'[n][q] = committed[q]
      BY <2>1, <2>3
    <3>3. QED
      BY <2>2, <3>1, <3>2, ClaimStarts
  <2>4. CASE owner[q] # n
    <3>1. next'[n][q] = next[n][q] /\ marked'[n][q] = marked[n][q]
      BY <2>1, <2>4
    <3>2. QED
      BY <2>2, <3>1, ClaimKeeps
  <2>5. QED
    BY <2>3, <2>4
<1>8. ASSUME NEW m \in Members, AutoCommit(m) \/ Stop(m) \/ Restart(m)
      PROVE  ClaimInv(n, q)'
  BY <1>1, <1>8 DEF AutoCommit, Stop, Restart, members
<1>9. CASE StartRebalance \/ \E p \in Partitions : Produce(p)
  BY <1>1, <1>9 DEF StartRebalance, Produce, members
<1>10. CASE UNCHANGED vars
  BY <1>1, <1>10 DEF vars, progress
<1>11. QED
  BY <1>2, <1>3, <1>4, <1>5, <1>6, <1>7, <1>8, <1>9, <1>10 DEF Next

LEMMA OutOfSessionStep ==
  ASSUME GroupConstants, IInv, [Next]_vars
  PROVE  \A m \in Members : OutOfSession(m)'
<1>0. /\ handler \in [Members -> [Partitions -> {"idle", "running", "doomed"}]]
      /\ cancelled \in [Members -> BOOLEAN]
      /\ session \in [Members -> Nat]
      /\ generation \in Nat
  BY DEF IInv, TypeOK
<1> SUFFICES ASSUME NEW n \in Members PROVE OutOfSession(n)'
  OBVIOUS
<1>a. OutOfSession(n)
  BY DEF IInv
<1>1. CASE UNCHANGED <<session, cancelled, handler>>
  BY <1>1, <1>a DEF OutOfSession
<1>2. ASSUME NEW m \in Members, Cancel(m) PROVE OutOfSession(n)'
  BY <1>0, <1>2, <1>a DEF Cancel, progress, OutOfSession
<1>3. ASSUME NEW m \in Members, NEW p \in Partitions,
             HandlerSucceeds(m, p) \/ HandlerFails(m, p)
      PROVE  OutOfSession(n)'
  BY <1>0, <1>3, <1>a DEF HandlerSucceeds, HandlerFails, members, OutOfSession
<1>4. ASSUME NEW m \in Members, NEW p \in Partitions, Deliver(m, p)
      PROVE  OutOfSession(n)'
  <2>1. session[m] # 0
    BY <1>4 DEF Deliver, IInv, ClaimedInSession
  <2>2. session' = session /\ cancelled' = cancelled
    BY <1>4 DEF Deliver, members
  <2>3. n # m => \A q \in Partitions : handler'[n][q] = handler[n][q]
    BY <1>0, <1>4 DEF Deliver
  <2>4. QED
    BY <1>a, <2>1, <2>2, <2>3 DEF OutOfSession
<1>5. ASSUME NEW m \in Members, EndSession(m) \/ Crash(m)
      PROVE  OutOfSession(n)'
  <2>1. NoSession(m)
    BY <1>5 DEF EndSession, Crash
  <2>2. QED
    BY <1>0, <1>a, <2>1 DEF NoSession, OutOfSession
<1>6. CASE CompleteRebalance
  <2>1. /\ cancelled' = cancelled /\ handler' = handler
        /\ session'[n] = 0 => session[n] = 0
    BY <1>0, <1>6 DEF CompleteRebalance
  <2>2. QED
    BY <1>a, <2>1 DEF OutOfSession
<1>7. ASSUME NEW m \in Members, AutoCommit(m) \/ Stop(m) \/ Restart(m)
      PROVE  OutOfSession(n)'
  BY <1>1, <1>7 DEF AutoCommit, Stop, Restart, members, progress
<1>8. CASE StartRebalance \/ \E p \in Partitions : Produce(p)
  BY <1>1, <1>8 DEF StartRebalance, Produce, members, progress
<1>9. CASE UNCHANGED vars
  BY <1>1, <1>9 DEF vars
<1>10. QED
  BY <1>2, <1>3, <1>4, <1>5, <1>6, <1>7, <1>8, <1>9 DEF Next

LEMMA ClaimedStep ==
  ASSUME GroupConstants, IInv, [Next]_vars
  PROVE  \A m \in Members : ClaimedInSession(m)'
<1>0. /\ claims \in [Members -> SUBSET Partitions]
      /\ session \in [Members -> Nat]
      /\ generation \in Nat
  BY DEF IInv, TypeOK
<1> SUFFICES ASSUME NEW n \in Members PROVE ClaimedInSession(n)'
  OBVIOUS
<1>a. ClaimedInSession(n)
  BY DEF IInv
<1>1. CASE UNCHANGED <<session, claims>>
  BY <1>1, <1>a DEF ClaimedInSession
<1>2. ASSUME NEW m \in Members, EndSession(m) \/ Crash(m)
      PROVE  ClaimedInSession(n)'
  <2>1. NoSession(m)
    BY <1>2 DEF EndSession, Crash
  <2>2. QED
    BY <1>0, <1>a, <2>1 DEF NoSession, ClaimedInSession
<1>3. CASE CompleteRebalance
  <2> DEFINE joined == {m \in up : session[m] = 0}
  <2>1. PICK owner \in [Partitions -> joined] :
          /\ claims' = [m \in Members |->
               IF m \in joined THEN {p \in Partitions : owner[p] = m}
               ELSE claims[m]]
          /\ session' = [m \in Members |->
               IF m \in joined THEN generation + 1 ELSE session[m]]
    BY <1>3 DEF CompleteRebalance
  <2>2. CASE n \in joined
    BY <1>0, <2>1, <2>2 DEF ClaimedInSession
  <2>3. CASE n \notin joined
    BY <1>a, <2>1, <2>3 DEF ClaimedInSession
  <2>4. QED
    BY <2>2, <2>3
<1>4. ASSUME NEW m \in Members,
             \/ \E p \in Partitions :
                  Deliver(m, p) \/ HandlerSucceeds(m, p) \/ HandlerFails(m, p)
             \/ AutoCommit(m) \/ Cancel(m) \/ Stop(m) \/ Restart(m)
      PROVE  ClaimedInSession(n)'
  BY <1>1, <1>4 DEF Deliver, HandlerSucceeds, HandlerFails, AutoCommit, Cancel,
                    Stop, Restart, members
<1>5. CASE StartRebalance \/ \E p \in Partitions : Produce(p)
  BY <1>1, <1>5 DEF StartRebalance, Produce, members
<1>6. CASE UNCHANGED vars
  BY <1>1, <1>6 DEF vars
<1>7. QED
  BY <1>2, <1>3, <1>4, <1>5, <1>6 DEF Next

-----------------------------------------------------------------------------
(* The theorems.                                                           *)

LEMMA NextIInv == ASSUME GroupConstants, IInv, [Next]_vars PROVE IInv'
BY TypeStep, CommitStep, ClaimStep, OutOfSessionStep, ClaimedStep DEF IInv

\* The inductive invariant holds in every reachable state.
THEOREM Invariance == Spec => []IInv
BY InitIInv, NextIInv, GroupConstants, PTL DEF Spec

\* Offsets, marks and histories keep their types in every group.
THEOREM TypeCorrect == Spec => []TypeOK
BY Invariance, PTL DEF IInv

\* No rebalance, crash, fenced member or cancelled handler loses a message.
THEOREM NothingIsLost == Spec => []LostOnlyByFailure
<1>1. IInv => LostOnlyByFailure
  BY DEF IInv, LostOnlyByFailure, Sound, Covered
<1>2. QED
  BY <1>1, Invariance, PTL

\* The last committed message of a partition always is a handled one.
THEOREM CommitsSuccess == Spec => []CommittedEndsWithSuccess
<1>1. IInv => CommittedEndsWithSuccess
  BY DEF IInv, CommittedEndsWithSuccess, Sound
<1>2. QED
  BY <1>1, Invariance, PTL

-----------------------------------------------------------------------------
(* Owners: one member at a time commits a partition, and only forward.     *)

\* What was handled is in the log, and so is what the offset has passed.
InLog(p) == /\ committed[p] <= log[p]
            /\ \A o \in succeeded[p] \cup failed[p] : o < log[p]

\* A claim marks what it has received; a handler runs on its behalf.
InOrder(m, p) ==
  /\ next[m][p] <= log[p] /\ marked[m][p] <= next[m][p]
  /\ handler[m][p] # "idle" => marked[m][p] < next[m][p] /\ p \in claims[m]

\* A member whose offsets the coordinator takes owns what it claims, and has
\* marked at least what is committed.
OwnerOnly(m) ==
  /\ session[m] <= generation
  /\ \A p \in claims[m] :
       ~Fenced(m) => assigned[p] = m /\ committed[p] <= marked[m][p]

\* Before the first assignment nothing has happened; in the first generation
\* a claim is past everything that took effect.
Reached(m, p) == IF handler[m][p] = "idle" THEN next[m][p] ELSE next[m][p] - 1

FirstGeneration ==
  /\ generation = 0 => \A p \in Partitions : succeeded[p] = {}
  /\ generation <= 1 => \A m \in Members : \A p \in claims[m] :
       \A o \in succeeded[p] : o < Reached(m, p)

RInv == /\ \A p \in Partitions : InLog(p)
        /\ \A m \in Members, p \in Partitions : InOrder(m, p)
        /\ \A m \in Members : OwnerOnly(m)
        /\ FirstGeneration

LEMMA InitRInv == ASSUME GroupConstants, Init PROVE RInv
BY DEF Init, GroupConstants, RInv, InLog, InOrder, OwnerOnly, FirstGeneration

\* The offset and the mark it is taken from.
LEMMA FlushMoves ==
  ASSUME IInv, RInv, NEW m \in Members, Flush(m)
  PROVE  /\ committed' \in [Partitions -> 0..MaxLen]
         /\ \A p \in Partitions :
              \/ committed'[p] = committed[p]
              \/ /\ committed'[p] = marked[m][p] /\ p \in claims[m]
                 /\ assigned[p] = m /\ ~Fenced(m)
                 /\ committed[p] <= marked[m][p]
<1>1. TypeOK /\ OwnerOnly(m)
  BY DEF IInv, RInv
<1> QED BY <1>1, FlushType DEF Flush, OwnerOnly

\* Nobody else takes part in the commits of an owner.
LEMMA OwnerIsAlone ==
  ASSUME RInv, NEW m \in Members, NEW n \in Members, NEW p \in Partitions,
         p \in claims[m], p \in claims[n], ~Fenced(m), ~Fenced(n)
  PROVE  m = n
BY DEF RInv, OwnerOnly

LEMMA InLogStep ==
  ASSUME GroupConstants, IInv, RInv, [Next]_vars
  PROVE  \A p \in Partitions : InLog(p)'
<1>0. TypeOK
  BY DEF IInv
<1> SUFFICES ASSUME NEW q \in Partitions PROVE InLog(q)'
  OBVIOUS
<1>a. InLog(q)
  BY DEF RInv
<1>1. CASE UNCHANGED <<log, committed, succeeded, failed>>
  BY <1>a, <1>1 DEF InLog
<1>2. ASSUME NEW p \in Partitions, Produce(p) PROVE InLog(q)'
  BY <1>0, <1>a, <1>2 DEF Produce, history, InLog, TypeOK, GroupConstants,
                          Offsets
<1>3. ASSUME NEW m \in Members, NEW p \in Partitions,
             HandlerSucceeds(m, p) \/ HandlerFails(m, p)
      PROVE  InLog(q)'
  <2>1. next[m][p] \in Nat /\ log[p] \in Nat /\ next[m][p] <= log[p]
    BY <1>0 DEF RInv, InOrder, TypeOK, GroupConstants
  <2>2. next[m][p] - 1 < log[p]
    BY <2>1
  <2>3. log' = log /\ committed' = committed
    BY <1>3 DEF HandlerSucceeds, HandlerFails
  <2>4. \A o \in succeeded'[q] \cup failed'[q] :
          \/ o \in succeeded[q] \cup failed[q]
          \/ q = p /\ o = next[m][p] - 1
    BY <1>0, <1>3 DEF HandlerSucceeds, HandlerFails, TypeOK
  <2> QED BY <1>a, <2>2, <2>3, <2>4 DEF InLog
<1>4. ASSUME NEW m \in Members, Flush(m), UNCHANGED <<log, history>>
      PROVE  InLog(q)'
  <2>1. marked[m][q] <= log[q]
    BY <1>0 DEF RInv, InOrder, TypeOK, GroupConstants
  <2> QED BY <1>a, <1>4, <2>1, FlushMoves DEF InLog, history
<1>5. ASSUME NEW m \in Members, AutoCommit(m) \/ EndSession(m)
      PROVE  InLog(q)'
  BY <1>1, <1>4, <1>5 DEF AutoCommit, EndSession, history
<1>6. ASSUME NEW m \in Members,
             \/ \E p \in Partitions : Deliver(m, p)
             \/ Cancel(m) \/ Stop(m) \/ Crash(m) \/ Restart(m)
      PROVE  InLog(q)'
  BY <1>1, <1>6 DEF Deliver, Cancel, Stop, Crash, Restart, history
<1>7. CASE StartRebalance \/ CompleteRebalance \/ UNCHANGED vars
  BY <1>1, <1>7 DEF StartRebalance, CompleteRebalance, vars, history
<1> QED BY <1>2, <1>3, <1>5, <1>6, <1>7 DEF Next

LEMMA InOrderStep ==
  ASSUME GroupConstants, IInv, RInv, [Next]_vars
  PROVE  \A m \in Members, p \in Partitions : InOrder(m, p)'
<1>0. TypeOK
  BY DEF IInv
<1> SUFFICES ASSUME NEW n \in Members, NEW q \in Partitions
             PROVE  InOrder(n, q)'
  OBVIOUS
<1>a. /\ InOrder(n, q) /\ InLog(q) /\ OutOfSession(n)
      /\ next[n][q] \in Nat /\ marked[n][q] \in Nat
      /\ log[q] \in Nat /\ committed[q] \in Nat
  BY <1>0 DEF IInv, RInv, TypeOK, GroupConstants
<1>1. CASE UNCHANGED <<log, progress, claims>>
  BY <1>a, <1>1 DEF InOrder, progress
<1>2. ASSUME NEW p \in Partitions, Produce(p) PROVE InOrder(n, q)'
  <2>1. log[q] <= log'[q] /\ log'[q] \in Nat
    BY <1>0, <1>2 DEF Produce, TypeOK, GroupConstants
  <2> QED BY <1>a, <1>2, <2>1 DEF Produce, InOrder, progress, members
<1>3. ASSUME NEW m \in Members, NEW p \in Partitions,
             Deliver(m, p) \/ HandlerSucceeds(m, p) \/ HandlerFails(m, p)
      PROVE  InOrder(n, q)'
  <2>1. log' = log /\ claims' = claims
    BY <1>3 DEF Deliver, HandlerSucceeds, HandlerFails, members
  <2>2. CASE n # m \/ q # p
    <3>1. /\ next'[n][q] = next[n][q] /\ marked'[n][q] = marked[n][q]
          /\ handler'[n][q] = handler[n][q]
      BY <1>0, <1>3, <2>2 DEF Deliver, HandlerSucceeds, HandlerFails, TypeOK
    <3> QED BY <1>a, <2>1, <3>1 DEF InOrder
  <2>3. CASE n = m /\ q = p /\ Deliver(m, p)
    <3>1. /\ next'[n][q] = next[n][q] + 1 /\ marked'[n][q] = marked[n][q]
          /\ q \in claims[n] /\ next[n][q] < log[q]
      BY <1>0, <2>3 DEF Deliver, TypeOK
    <3> QED BY <1>a, <2>1, <3>1 DEF InOrder
  <2>4. CASE n = m /\ q = p /\ ~Deliver(m, p)
    <3>1. /\ next'[n][q] = next[n][q] /\ handler'[n][q] = "idle"
          /\ marked'[n][q] \in {marked[n][q], next[n][q]}
      BY <1>0, <1>3, <2>4 DEF HandlerSucceeds, HandlerFails, TypeOK
    <3> QED BY <1>a, <2>1, <3>1 DEF InOrder
  <2> QED BY <2>2, <2>3, <2>4
<1>4. ASSUME NEW m \in Members, EndSession(m) \/ Crash(m)
      PROVE  InOrder(n, q)'
  <2>1. NoSession(m) /\ log' = log
    BY <1>4 DEF EndSession, Crash
  <2>2. CASE n = m
    BY <1>0, <1>a, <2>1, <2>2 DEF NoSession, TypeOK, InOrder
  <2>3. CASE n # m
    <3>1. /\ next'[n] = next[n] /\ marked'[n] = marked[n]
          /\ handler'[n] = handler[n] /\ claims'[n] = claims[n]
      BY <1>0, <2>1, <2>3 DEF NoSession, TypeOK
    <3> QED BY <1>a, <2>1, <3>1 DEF InOrder
  <2> QED BY <2>2, <2>3
<1>5. CASE CompleteRebalance
  <2> DEFINE joined == {m \in up : session[m] = 0}
  <2>1. PICK owner \in [Partitions -> joined] :
          /\ claims' = [m \in Members |->
               IF m \in joined THEN {p \in Partitions : owner[p] = m}
               ELSE claims[m]]
          /\ next' = [m \in Members |-> [p \in Partitions |->
               IF owner[p] = m THEN committed[p] ELSE next[m][p]]]
          /\ marked' = [m \in Members |-> [p \in Partitions |->
               IF owner[p] = m THEN committed[p] ELSE marked[m][p]]]
    BY <1>5 DEF CompleteRebalance
  <2>2. log' = log /\ handler' = handler
    BY <1>5 DEF CompleteRebalance
  <2>3. handler[n][q] # "idle" => n \notin joined
    BY <1>a DEF OutOfSession
  <2>4. owner[q] \in joined
    BY <2>1
  <2>5. CASE owner[q] = n
    <3>1. next'[n][q] = committed[q] /\ marked'[n][q] = committed[q]
          /\ handler'[n][q] = "idle"
      BY <2>1, <2>2, <2>3, <2>4, <2>5
    <3> QED BY <1>a, <2>2, <3>1 DEF InOrder, InLog
  <2>6. CASE owner[q] # n
    <3>1. next'[n][q] = next[n][q] /\ marked'[n][q] = marked[n][q]
      BY <2>1, <2>6
    <3>2. handler'[n][q] # "idle" => claims'[n] = claims[n]
      BY <2>1, <2>2, <2>3
    <3> QED BY <1>a, <2>2, <3>1, <3>2 DEF InOrder
  <2> QED BY <2>5, <2>6
<1>6. ASSUME NEW m \in Members,
             AutoCommit(m) \/ Cancel(m) \/ Stop(m) \/ Restart(m)
      PROVE  InOrder(n, q)'
  BY <1>1, <1>6 DEF AutoCommit, Cancel, Stop, Restart, members, progress
<1>7. CASE StartRebalance \/ UNCHANGED vars
  BY <1>1, <1>7 DEF StartRebalance, vars, members, progress
<1> QED BY <1>2, <1>3, <1>4, <1>5, <1>6, <1>7 DEF Next

LEMMA OwnerOnlyStep ==
  ASSUME GroupConstants, IInv, RInv, [Next]_vars
  PROVE  \A m \in Members : OwnerOnly(m)'
<1>0. TypeOK
  BY DEF IInv
<1> SUFFICES ASSUME NEW n \in Members PROVE OwnerOnly(n)'
  OBVIOUS
<1>a. /\ OwnerOnly(n) /\ claims[n] \subseteq Partitions
      /\ session[n] \in Nat /\ generation \in Nat
      /\ \A p \in Partitions : /\ next[n][p] \in Nat /\ marked[n][p] \in Nat
                               /\ committed[p] \in Nat
                               /\ marked[n][p] <= next[n][p]
  BY <1>0 DEF RInv, InOrder, TypeOK, GroupConstants
<1>1. CASE UNCHANGED <<committed, generation, assigned, session, claims, marked>>
  BY <1>a, <1>1 DEF OwnerOnly, Fenced
<1>2. ASSUME NEW m \in Members, NEW p \in Partitions, HandlerSucceeds(m, p)
      PROVE  OwnerOnly(n)'
  <2>1. /\ committed' = committed /\ generation' = generation
        /\ assigned' = assigned /\ session' = session /\ claims' = claims
    BY <1>2 DEF HandlerSucceeds, coordinator, members
  <2>2. \A q \in Partitions : marked'[n][q] \in {marked[n][q], next[n][q]}
    BY <1>0, <1>2 DEF HandlerSucceeds, TypeOK
  <2>3. \A q \in Partitions :
          committed[q] <= marked[n][q] => committed[q] <= marked'[n][q]
    BY <1>a, <2>2
  <2> QED BY <1>a, <2>1, <2>3 DEF OwnerOnly, Fenced
\* A commit by m takes from n's claims only what m owns, and then m is n.
<1>3. ASSUME NEW m \in Members, Flush(m), NEW q \in claims[n], ~Fenced(n)
      PROVE  committed'[q] <= marked[n][q]
  <2>1. committed[q] <= marked[n][q] /\ q \in Partitions
    BY <1>a, <1>3 DEF OwnerOnly
  <2>2. CASE committed'[q] = committed[q]
    BY <2>1, <2>2
  <2>3. CASE committed'[q] # committed[q]
    <3>1. committed'[q] = marked[m][q] /\ q \in claims[m] /\ ~Fenced(m)
      BY <1>3, <2>1, <2>3, FlushMoves
    <3>2. m = n
      BY <1>3, <2>1, <3>1, OwnerIsAlone
    <3> QED BY <1>a, <2>1, <3>1, <3>2
  <2> QED BY <2>2, <2>3
<1>4. ASSUME NEW m \in Members, AutoCommit(m) PROVE OwnerOnly(n)'
  <2>1. /\ Flush(m) /\ generation' = generation
        /\ assigned' = assigned /\ session' = session /\ claims' = claims
        /\ marked' = marked
    BY <1>4 DEF AutoCommit, coordinator, members, progress
  <2> QED BY <1>3, <1>a, <2>1 DEF OwnerOnly, Fenced
<1>5. ASSUME NEW m \in Members, EndSession(m) \/ Crash(m)
      PROVE  OwnerOnly(n)'
  <2>1. /\ NoSession(m) /\ generation' = generation /\ assigned' = assigned
        /\ Flush(m) \/ UNCHANGED committed
    BY <1>5 DEF EndSession, Crash, coordinator
  <2>2. CASE n = m
    BY <1>0, <1>a, <2>1, <2>2 DEF NoSession, TypeOK, OwnerOnly
  <2>3. CASE n # m
    <3>1. /\ session'[n] = session[n] /\ claims'[n] = claims[n]
          /\ marked'[n] = marked[n]
      BY <1>0, <2>1, <2>3 DEF NoSession, TypeOK
    <3>2. \A q \in claims[n] : ~Fenced(n) => committed'[q] <= marked[n][q]
      BY <1>3, <1>a, <2>1 DEF OwnerOnly
    <3> QED BY <1>a, <2>1, <3>1, <3>2 DEF OwnerOnly, Fenced
  <2> QED BY <2>2, <2>3
<1>6. CASE CompleteRebalance
  <2> DEFINE joined == {m \in up : session[m] = 0}
  <2>1. PICK owner \in [Partitions -> joined] :
          /\ assigned' = owner
          /\ claims' = [m \in Members |->
               IF m \in joined THEN {p \in Partitions : owner[p] = m}
               ELSE claims[m]]
          /\ session' = [m \in Members |->
               IF m \in joined THEN generation + 1 ELSE session[m]]
          /\ marked' = [m \in Members |-> [p \in Partitions |->
               IF owner[p] = m THEN committed[p] ELSE marked[m][p]]]
    BY <1>6 DEF CompleteRebalance
  <2>2. generation' = generation + 1 /\ committed' = committed
    BY <1>6 DEF CompleteRebalance
  <2>3. CASE n \in joined
    <3>1. session'[n] = generation + 1
      BY <2>1, <2>3
    <3>2. \A q \in claims'[n] : q \in Partitions /\ owner[q] = n
      BY <2>1, <2>3
    <3>3. \A q \in claims'[n] : marked'[n][q] = committed[q]
      BY <2>1, <3>2
    <3> QED BY <1>a, <2>1, <2>2, <3>1, <3>2, <3>3 DEF OwnerOnly
  <2>4. CASE n \notin joined
    <3>1. session'[n] = session[n] /\ session[n] <= generation
      BY <1>a, <2>1, <2>4 DEF OwnerOnly
    <3>2. Fenced(n)' /\ session'[n] <= generation'
      BY <1>a, <2>2, <3>1 DEF Fenced
    <3> QED BY <3>2 DEF OwnerOnly
  <2> QED BY <2>3, <2>4
<1>7. ASSUME NEW m \in Members,
             \/ \E p \in Partitions : Deliver(m, p) \/ HandlerFails(m, p)
             \/ Cancel(m) \/ Stop(m) \/ Restart(m)
      PROVE  OwnerOnly(n)'
  BY <1>1, <1>7 DEF Deliver, HandlerFails, Cancel, Stop, Restart, coordinator,
                    members, progress
<1>8. CASE StartRebalance \/ UNCHANGED vars \/ \E p \in Partitions : Produce(p)
  BY <1>1, <1>8 DEF StartRebalance, Produce, vars, coordinator, members,
                    progress
<1> QED BY <1>2, <1>4, <1>5, <1>6, <1>7, <1>8 DEF Next

LEMMA FirstGenerationStep ==
  ASSUME GroupConstants, IInv, RInv, [Next]_vars
  PROVE  FirstGeneration'
<1>0. TypeOK /\ FirstGeneration
  BY DEF IInv, RInv
<1>a. \A m \in Members, p \in Partitions : next[m][p] \in Nat
  BY <1>0 DEF TypeOK, GroupConstants
<1>b. generation \in Nat
  BY <1>0 DEF TypeOK
\* In the first generation every claim is the owner's.
<1>c. ASSUME NEW m \in Members, NEW p \in claims[m], generation <= 1
      PROVE  p \in Partitions /\ generation = 1 /\ ~Fenced(m)
  <2>1. session[m] # 0 /\ session[m] <= generation /\ session[m] \in Nat
        /\ p \in Partitions
    BY <1>0, <1>c DEF IInv, ClaimedInSession, RInv, OwnerOnly, TypeOK
  <2> QED BY <1>b, <1>c, <2>1 DEF Fenced
<1>1. CASE UNCHANGED <<generation, claims, next, handler, succeeded>>
  BY <1>0, <1>1 DEF FirstGeneration, Reached
<1>2. ASSUME NEW m \in Members, NEW p \in Partitions,
             Deliver(m, p) \/ HandlerFails(m, p)
      PROVE  FirstGeneration'
  <2>1. generation' = generation /\ claims' = claims /\ succeeded' = succeeded
    BY <1>2 DEF Deliver, HandlerFails, coordinator, members, history
  <2>2. ASSUME NEW n \in Members, NEW q \in Partitions
        PROVE  Reached(n, q)' \in {Reached(n, q), Reached(n, q) + 1}
    <3>1. CASE n = m /\ q = p /\ Deliver(m, p)
      <4>1. /\ handler[n][q] = "idle" /\ handler'[n][q] # "idle"
            /\ next'[n][q] = next[n][q] + 1
        BY <1>0, <3>1 DEF Deliver, TypeOK
      <4> QED BY <1>a, <4>1 DEF Reached
    <3>2. CASE n = m /\ q = p /\ HandlerFails(m, p)
      <4>1. /\ handler[n][q] # "idle" /\ handler'[n][q] = "idle"
            /\ next'[n][q] = next[n][q]
        BY <1>0, <3>2 DEF HandlerFails, TypeOK
      <4> QED BY <1>a, <4>1 DEF Reached
    <3>3. CASE n # m \/ q # p
      <4>1. /\ handler'[n][q] = handler[n][q]
            /\ next'[n][q] = next[n][q]
        BY <1>0, <1>2, <3>3 DEF Deliver, HandlerFails, TypeOK
      <4> QED BY <4>1 DEF Reached
    <3> QED BY <1>2, <3>1, <3>2, <3>3
  <2>3. ASSUME NEW n \in Members, NEW q \in claims[n], generation <= 1,
               NEW o \in succeeded[q]
        PROVE  o < Reached(n, q)'
    <3>1. q \in Partitions /\ o < Reached(n, q)
      BY <1>0, <1>c, <2>3 DEF FirstGeneration
    <3>2. o \in Int /\ Reached(n, q) \in Int
      BY <1>0, <1>a, <3>1 DEF TypeOK, Offsets, Reached
    <3> QED BY <2>2, <3>1, <3>2
  <2> QED BY <1>0, <2>1, <2>3 DEF FirstGeneration
<1>3. ASSUME NEW m \in Members, NEW p \in Partitions, HandlerSucceeds(m, p)
      PROVE  FirstGeneration'
  <2>1. generation' = generation /\ claims' = claims /\ next' = next
    BY <1>3 DEF HandlerSucceeds, coordinator, members
  <2>2. p \in claims[m]
    BY <1>3 DEF HandlerSucceeds, RInv, InOrder
  <2>3. generation # 0
    BY <1>b, <1>c, <2>2
  <2>4. ASSUME NEW n \in Members, NEW q \in claims[n], generation <= 1,
               NEW o \in succeeded'[q]
        PROVE  o < Reached(n, q)'
    <3>1. q \in Partitions /\ ~Fenced(n)
      BY <1>c, <2>4
    <3>2. CASE q # p
      <4>1. /\ succeeded'[q] = succeeded[q]
            /\ handler'[n][q] = handler[n][q]
        BY <1>0, <1>3, <3>1, <3>2 DEF HandlerSucceeds, TypeOK
      <4> QED BY <1>0, <2>1, <2>4, <4>1 DEF FirstGeneration, Reached
    <3>3. CASE q = p
      <4>1. ~Fenced(m) /\ n = m
        BY <1>c, <2>2, <2>4, <3>1, <3>3, OwnerIsAlone
      <4>2. Reached(n, q)' = next[m][p] /\ Reached(n, q) = next[m][p] - 1
        BY <1>0, <1>3, <2>1, <3>3, <4>1 DEF HandlerSucceeds, Reached, TypeOK
      <4>3. o \in succeeded[p] \/ o = next[m][p] - 1
        BY <1>0, <1>3, <2>4, <3>3 DEF HandlerSucceeds, TypeOK
      <4>4. o \in succeeded[p] => o < next[m][p] - 1 /\ o \in Int
        BY <1>0, <2>4, <3>3, <4>1, <4>2 DEF FirstGeneration, TypeOK, Offsets
      <4> QED BY <1>a, <4>2, <4>3, <4>4
    <3> QED BY <3>2, <3>3
  <2> QED BY <1>b, <2>1, <2>3, <2>4 DEF FirstGeneration
<1>4. ASSUME NEW m \in Members, EndSession(m) \/ Crash(m)
      PROVE  FirstGeneration'
  <2>1. /\ NoSession(m) /\ generation' = generation
        /\ succeeded' = succeeded
    BY <1>4 DEF EndSession, Crash, coordinator, history
  <2>2. ASSUME NEW n \in Members, NEW q \in claims'[n]
        PROVE  q \in claims[n] /\ Reached(n, q)' = Reached(n, q)
    <3>1. n # m
      BY <1>0, <2>1, <2>2 DEF NoSession, TypeOK
    <3>2. /\ claims'[n] = claims[n] /\ next'[n] = next[n]
          /\ handler'[n] = handler[n]
      BY <1>0, <2>1, <3>1 DEF NoSession, TypeOK
    <3> QED BY <2>2, <3>2 DEF Reached
  <2> QED BY <1>0, <2>1, <2>2 DEF FirstGeneration
<1>5. CASE CompleteRebalance
  <2>1. generation' = generation + 1 /\ succeeded' = succeeded
    BY <1>5 DEF CompleteRebalance, history
  <2>2. generation' # 0 /\ (generation' <= 1 => generation = 0)
    BY <1>b, <2>1
  <2>3. ASSUME generation = 0, NEW n \in Members, NEW q \in claims'[n]
        PROVE  succeeded'[q] = {}
    <3>1. claims[n] = {}
      BY <1>b, <1>c, <2>3
    <3>2. q \in Partitions
      BY <1>5, <2>3, <3>1 DEF CompleteRebalance
    <3> QED BY <1>0, <2>1, <2>3, <3>2 DEF FirstGeneration
  <2> QED BY <2>2, <2>3 DEF FirstGeneration
<1>6. ASSUME NEW m \in Members,
             AutoCommit(m) \/ Cancel(m) \/ Stop(m) \/ Restart(m)
      PROVE  FirstGeneration'
  BY <1>1, <1>6 DEF AutoCommit, Cancel, Stop, Restart, coordinator, members,
                    progress, history
<1>7. CASE StartRebalance \/ UNCHANGED vars \/ \E p \in Partitions : Produce(p)
  BY <1>1, <1>7 DEF StartRebalance, Produce, vars, coordinator, members,
                    progress, history
<1> QED BY <1>2, <1>3, <1>4, <1>5, <1>6, <1>7 DEF Next

\* Owners are exclusive and ahead of the offset in every reachable state.
THEOREM OwnersInvariance == Spec => [](IInv /\ RInv)
<1>1. Init => IInv /\ RInv
  BY InitIInv, InitRInv, GroupConstants
<1>2. IInv /\ RInv /\ [Next]_vars => IInv' /\ RInv'
  BY NextIInv, InLogStep, InOrderStep, OwnerOnlyStep, FirstGenerationStep,
     GroupConstants DEF RInv
<1> QED BY <1>1, <1>2, PTL DEF Spec

\* The group's offset never goes back: a member that was slow to notice the
\* end of its generation cannot undo what its successor has committed.
THEOREM OffsetNeverGoesBack ==
  Spec => [][\A p \in Partitions : committed[p] <= committed'[p]]_vars
<1>1. ASSUME IInv, RInv, [Next]_vars
      PROVE  [\A p \in Partitions : committed[p] <= committed'[p]]_vars
  <2>1. \A p \in Partitions : committed[p] <= committed[p]
    BY <1>1 DEF IInv, TypeOK
  <2>2. CASE UNCHANGED committed
    BY <2>1, <2>2
  <2>3. ASSUME NEW m \in Members, Flush(m)
        PROVE  \A p \in Partitions : committed[p] <= committed'[p]
    BY <1>1, <2>1, <2>3, FlushMoves
  <2> QED BY <1>1, <2>2, <2>3
          DEF Next, Produce, Deliver, HandlerSucceeds, HandlerFails, AutoCommit,
              Cancel, EndSession, Stop, Crash, Restart, StartRebalance,
              CompleteRebalance, vars
<1> QED BY <1>1, OwnersInvariance, PTL DEF Spec

\* What a member of this generation handles is at or above the offset.
AheadOfOffset ==
  \A m \in Members, p \in Partitions :
    handler[m][p] # "idle" /\ ~Fenced(m) => committed[p] <= next[m][p] - 1

\* A committed message is handed out again only to a member whose generation
\* is over, and who will not be able to commit it.
THEOREM CommittedIsBehind == Spec => []AheadOfOffset
<1>1. ASSUME IInv, RInv, NEW m \in Members, NEW p \in Partitions,
             handler[m][p] # "idle", ~Fenced(m)
      PROVE  committed[p] <= next[m][p] - 1
  <2>1. committed[p] \in Nat /\ marked[m][p] \in Nat /\ next[m][p] \in Nat
    BY <1>1 DEF IInv, TypeOK, GroupConstants
  <2>2. committed[p] <= marked[m][p] /\ marked[m][p] < next[m][p]
    BY <1>1 DEF RInv, InOrder, OwnerOnly
  <2> QED BY <2>1, <2>2
<1>2. IInv /\ RInv => AheadOfOffset
  BY <1>1 DEF AheadOfOffset
<1> QED BY <1>2, OwnersInvariance, PTL

\* What events.proto's event_uuid is for: as long as the first assignment
\* stands, no message takes effect twice.  It takes a rebalance.
THEOREM OnceUntilRebalanced == Spec => [](generation <= 1 => TakesEffectOnce)
<1>1. ASSUME IInv, RInv, generation <= 1,
             NEW m \in Members, NEW p \in Partitions, handler[m][p] = "running"
      PROVE  next[m][p] - 1 \notin succeeded[p]
  <2>1. p \in claims[m] /\ next[m][p] \in Nat
    BY <1>1 DEF RInv, InOrder, IInv, TypeOK
  <2>2. \A o \in succeeded[p] : o < next[m][p] - 1
    BY <1>1, <2>1 DEF RInv, FirstGeneration, Reached
  <2> QED BY <2>1, <2>2
<1>2. IInv /\ RInv => (generation <= 1 => TakesEffectOnce)
  BY <1>1 DEF TakesEffectOnce
<1> QED BY <1>2, OwnersInvariance, PTL

\* The group implements what a service may count on, in every group, with
\* any messages, members and faults.
THEOREM Implements == Spec => ImplementsDelivery
<1>1. Init => Delivery!Init
  BY DEF Init, Delivery!Init
<1>2. ASSUME IInv, RInv, [Next]_vars
      PROVE  [Delivery!Next]_(Delivery!vars)
  <2>0. TypeOK
    BY <1>2 DEF IInv
  <2>1. CASE UNCHANGED <<log, committed, succeeded, failed>>
    BY <2>1 DEF Delivery!vars
  <2>2. ASSUME NEW p \in Partitions, Produce(p) PROVE Delivery!Next
    BY <2>2 DEF Produce, history, Delivery!Produce, Delivery!Next
  <2>3. ASSUME NEW m \in Members, NEW p \in Partitions,
               handler[m][p] # "idle"
        PROVE  next[m][p] - 1 \in 0..(log[p] - 1)
    <3>1. next[m][p] \in Nat /\ log[p] \in Nat /\ next[m][p] <= log[p]
          /\ next[m][p] > 0
      BY <1>2, <2>0, <2>3
         DEF IInv, ClaimInv, RInv, InOrder, TypeOK, GroupConstants
    <3> QED BY <3>1
  <2>4. ASSUME NEW m \in Members, NEW p \in Partitions, HandlerSucceeds(m, p)
        PROVE  Delivery!Next
    <3>1. Delivery!Succeed(p, next[m][p] - 1) /\ handler[m][p] # "idle"
      BY <2>4 DEF HandlerSucceeds, Delivery!Succeed
    <3> QED BY <2>3, <3>1 DEF Delivery!Next
  <2>5. ASSUME NEW m \in Members, NEW p \in Partitions, HandlerFails(m, p),
               failed' # failed
        PROVE  Delivery!Next
    <3>1. Delivery!Fail(p, next[m][p] - 1) /\ handler[m][p] # "idle"
      BY <2>5 DEF HandlerFails, Delivery!Fail
    <3> QED BY <2>3, <3>1 DEF Delivery!Next
  <2>6. ASSUME NEW m \in Members, Flush(m), UNCHANGED <<log, history>>
        PROVE  Delivery!Next
    <3>1. ASSUME NEW p \in Partitions, committed'[p] # committed[p]
          PROVE  Delivery!MayPass(p, committed[p], committed'[p])
      <4>1. /\ committed'[p] = marked[m][p] /\ committed[p] <= marked[m][p]
            /\ committed[p] \in Nat /\ marked[m][p] \in Nat
            /\ log[p] \in Nat /\ next[m][p] \in Nat
        BY <1>2, <2>0, <2>6, <3>1, FlushMoves DEF TypeOK, GroupConstants
      <4>2. committed[p] < marked[m][p] /\ marked[m][p] <= log[p]
        BY <1>2, <3>1, <4>1 DEF RInv, InOrder
      <4>3. Sound(p, marked[m][p]) /\ marked[m][p] > 0
        BY <1>2, <4>1, <4>2 DEF IInv, ClaimInv
      <4> QED BY <4>1, <4>2, <4>3 DEF Sound, Covered, Delivery!MayPass
    <3>2. committed' \in [Partitions -> 0..MaxLen]
      BY <1>2, <2>6, FlushMoves
    <3>3. Delivery!Commit
      BY <2>6, <3>1, <3>2 DEF Delivery!Commit, history
    <3> QED BY <3>3 DEF Delivery!Next
  <2>7. ASSUME NEW m \in Members, AutoCommit(m) \/ EndSession(m)
        PROVE  [Delivery!Next]_(Delivery!vars)
    BY <2>1, <2>6, <2>7 DEF AutoCommit, EndSession, history
  <2>8. ASSUME NEW m \in Members, NEW p \in Partitions,
               HandlerFails(m, p) \/ Deliver(m, p)
        PROVE  [Delivery!Next]_(Delivery!vars)
    BY <2>1, <2>5, <2>8 DEF HandlerFails, Deliver, history
  <2>9. ASSUME NEW m \in Members,
               Cancel(m) \/ Stop(m) \/ Crash(m) \/ Restart(m)
        PROVE  [Delivery!Next]_(Delivery!vars)
    BY <2>1, <2>9 DEF Cancel, Stop, Crash, Restart, history
  <2>10. CASE StartRebalance \/ CompleteRebalance \/ UNCHANGED vars
    BY <2>1, <2>10 DEF StartRebalance, CompleteRebalance, vars, history
  <2> QED BY <1>2, <2>2, <2>4, <2>7, <2>8, <2>9, <2>10 DEF Next
<1> QED BY <1>1, <1>2, OwnersInvariance, PTL
        DEF Spec, ImplementsDelivery, Delivery!Spec
=============================================================================
