---------------------------- MODULE CloserProofs ----------------------------
(***************************************************************************)
(* What holds of a shutdown with any functions and any callers, and that   *)
(* Closer implements GracefulShutdown.                                     *)
(***************************************************************************)
EXTENDS Closer, SequenceTheorems, FiniteSetTheorems, TLAPS

NoRepeats(s) == \A i, j \in DOMAIN s : s[i] = s[j] => i = j

\* The functions that wait in funcs are registered, each once, and are none
\* of those that were taken.
RegisteredOnce ==
  /\ NoRepeats(funcs) /\ NoRepeats(batch)
  /\ \A i \in DOMAIN funcs : run[funcs[i]] = "added"
  /\ \A i \in DOMAIN funcs, j \in DOMAIN batch : funcs[i] # batch[j]

\* Until somebody closes, nothing is taken, and funcs holds all there is.
OpenUntilOwned ==
  owner = Nobody =>
    /\ batch = <<>> /\ started = 0 /\ ~done /\ ~closed /\ failures = <<>>
    /\ \A f \in Funcs : run[f] \in {"unknown", "added"}
    /\ \A f \in Funcs : run[f] = "added" => f \in ToSet(funcs)

\* The loop goes through the batch from its end.
StartedFromTheEnd ==
  /\ \A i \in DOMAIN batch :
       run[batch[i]] = "added" <=> i <= Len(batch) - started
  /\ \A i \in DOMAIN batch : run[batch[i]] # "unknown"
  /\ \A f \in Funcs : run[f] \in {"running", "sending", "ended"} =>
                        f \in ToSet(batch)

\* Who is where in CloseAll: its owner in the loops, or through with it.
OneOwner ==
  /\ \A c \in Callers : pc[c] \in {"start", "collect"} => c = owner
  /\ \A c \in Callers : pc[c] = "returned" => done
  /\ owner # Nobody => /\ pc[owner] \in {"start", "collect", "returned"}
                       /\ done <=> pc[owner] = "returned"
                       /\ pc[owner] = "start" => started < Len(batch)
                       /\ pc[owner] # "start" => started = Len(batch)

Ended == \A f \in ToSet(batch) : run[f] = "ended"

\* errCh is closed behind the last goroutine.
ClosedWhenEnded == closed => Ended

\* An error is in the result, in errCh or on its way there.
ErrorsAreSeen ==
  owner # Nobody /\ result[owner] = Nil =>
    /\ failures # <<>> => \/ errCh # <<>>
                          \/ \E f \in Funcs : run[f] = "sending"
    /\ done => failures = <<>> /\ Ended

ClosesOnce ==
  /\ TypeOK /\ RegisteredOnce /\ OpenUntilOwned /\ StartedFromTheEnd
  /\ OneOwner /\ ClosedWhenEnded /\ WaitMeansClosed /\ ErrorsAreSeen

-----------------------------------------------------------------------------
(* What each step preserves.                                               *)

(* Registering a function that was unknown so far.                         *)
LEMMA AddRegisters ==
  ASSUME ClosesOnce, NEW f \in Funcs, Add(f)
  PROVE  RegisteredOnce' /\ OpenUntilOwned'
<1>1. /\ Len(funcs') = Len(funcs) + 1
      /\ \A i \in 1..Len(funcs) : funcs'[i] = funcs[i]
      /\ funcs'[Len(funcs) + 1] = f
      /\ DOMAIN funcs = 1..Len(funcs) /\ DOMAIN funcs' = 1..Len(funcs')
      /\ Len(funcs) \in Nat
  BY DEF ClosesOnce, TypeOK, Add
<1>2. \A i \in DOMAIN funcs : funcs[i] # f
  BY DEF ClosesOnce, RegisteredOnce, Add
<1>3. \A j \in DOMAIN batch : batch[j] # f
  BY DEF ClosesOnce, StartedFromTheEnd, Add
<1>4. NoRepeats(funcs')
  BY <1>1, <1>2 DEF ClosesOnce, RegisteredOnce, NoRepeats
<1>5. NoRepeats(batch')
  BY DEF ClosesOnce, RegisteredOnce, Add, closing
<1>6. \A i \in DOMAIN funcs' : run'[funcs'[i]] = "added"
  BY <1>1, <1>2 DEF ClosesOnce, TypeOK, RegisteredOnce, Add
<1>7. \A i \in DOMAIN funcs', j \in DOMAIN batch' : funcs'[i] # batch'[j]
  BY <1>1, <1>3 DEF ClosesOnce, RegisteredOnce, Add, closing
<1>8. ToSet(funcs') = ToSet(funcs) \cup {f}
  BY <1>1 DEF ToSet
<1>9. OpenUntilOwned'
  BY <1>8 DEF ClosesOnce, TypeOK, OpenUntilOwned, Add, closing, history
<1> QED BY <1>4, <1>5, <1>6, <1>7, <1>9 DEF RegisteredOnce

(* All the rest stays as it was.                                           *)
LEMMA AddPreserves ==
  ASSUME ClosesOnce, NEW f \in Funcs, Add(f)
  PROVE  ClosesOnce'
<1> USE DEF ClosesOnce, TypeOK, Add, closing, callers, history
<1>1. TypeOK'
  OBVIOUS
<1>2. StartedFromTheEnd'
  BY DEF StartedFromTheEnd
<1>3. OneOwner'
  BY DEF OneOwner
<1>4. ClosedWhenEnded'
  BY DEF ClosedWhenEnded, Ended
<1>5. WaitMeansClosed'
  BY DEF WaitMeansClosed
<1>6. ErrorsAreSeen'
  BY DEF ErrorsAreSeen, Ended
<1> QED BY <1>1, <1>2, <1>3, <1>4, <1>5, <1>6, AddRegisters

(* A caller that has not entered CloseAll yet has nothing to do with it.   *)
LEMMA CallPreserves ==
  ASSUME ClosesOnce, NEW c \in Callers, Call(c)
  PROVE  ClosesOnce'
<1> USE DEF ClosesOnce, TypeOK, Call, Goto, closing, callers, history
<1>1. TypeOK'
  OBVIOUS
<1>2. RegisteredOnce'
  BY DEF RegisteredOnce
<1>3. OpenUntilOwned'
  BY DEF OpenUntilOwned
<1>4. StartedFromTheEnd'
  BY DEF StartedFromTheEnd
<1>5. OneOwner'
  BY DEF OneOwner
<1>6. ClosedWhenEnded'
  BY DEF ClosedWhenEnded, Ended
<1>7. WaitMeansClosed'
  BY DEF WaitMeansClosed
<1>8. ErrorsAreSeen'
  BY DEF ErrorsAreSeen, Ended
<1> QED BY <1>1, <1>2, <1>3, <1>4, <1>5, <1>6, <1>7, <1>8

(* handleSignals leaves only when done is closed.                          *)
LEMMA NoSignalPreserves ==
  ASSUME ClosesOnce, NEW h \in Handlers, NoSignal(h)
  PROVE  ClosesOnce'
<1> USE DEF ClosesOnce, TypeOK, NoSignal, Goto, closing, callers, history
<1>1. TypeOK'
  OBVIOUS
<1>2. RegisteredOnce'
  BY DEF RegisteredOnce
<1>3. OpenUntilOwned'
  BY DEF OpenUntilOwned
<1>4. StartedFromTheEnd'
  BY DEF StartedFromTheEnd
<1>5. OneOwner'
  BY DEF OneOwner
<1>6. ClosedWhenEnded'
  BY DEF ClosedWhenEnded, Ended
<1>7. WaitMeansClosed'
  BY DEF WaitMeansClosed
<1>8. ErrorsAreSeen'
  BY DEF ErrorsAreSeen, Ended
<1> QED BY <1>1, <1>2, <1>3, <1>4, <1>5, <1>6, <1>7, <1>8

(* A context that is done only adds to what is allowed.                    *)
LEMMA ExpirePreserves ==
  ASSUME ClosesOnce, NEW h \in Handlers, Expire(h)
  PROVE  ClosesOnce'
<1> USE DEF ClosesOnce, TypeOK, Expire, closing, callers, history
<1>1. TypeOK'
  OBVIOUS
<1>2. RegisteredOnce'
  BY DEF RegisteredOnce
<1>3. OpenUntilOwned'
  BY DEF OpenUntilOwned
<1>4. StartedFromTheEnd'
  BY DEF StartedFromTheEnd
<1>5. OneOwner'
  BY DEF OneOwner
<1>6. ClosedWhenEnded'
  BY DEF ClosedWhenEnded, Ended
<1>7. WaitMeansClosed'
  BY DEF WaitMeansClosed
<1>8. ErrorsAreSeen'
  BY DEF ErrorsAreSeen, Ended
<1> QED BY <1>1, <1>2, <1>3, <1>4, <1>5, <1>6, <1>7, <1>8

(* The first caller takes all there is; with nothing to close it is through.*)
LEMMA EnterTakesAll ==
  ASSUME ClosesOnce, NEW c \in Callers, Enter(c)
  PROVE  TypeOK' /\ WaitMeansClosed'
<1> USE DEF ClosesOnce, Enter, Finish, Goto, history
<1>1. CASE owner = Nobody
  <2>1. /\ batch' = funcs /\ funcs' = <<>> /\ owner' = c
        /\ started' = 0 /\ Len(batch') \in Nat
    BY <1>1 DEF TypeOK, OpenUntilOwned
  <2>2. TypeOK'
    <3>1. /\ funcs' \in Seq(Funcs) /\ batch' \in Seq(Funcs)
          /\ errCh' \in Seq(Funcs) /\ failures' \in Seq(Funcs)
          /\ sent' \in Seq(Funcs)
      BY <2>1 DEF TypeOK
    <3>2. owner' \in Callers \cup {Nobody} /\ started' \in 0..Len(batch')
      BY <2>1
    <3>3. done' \in BOOLEAN /\ closed' \in BOOLEAN
      BY <1>1 DEF TypeOK
    <3>4. pc' \in [Callers ->
                    {"waiting", "once", "start", "collect", "returned"}]
      BY <1>1 DEF TypeOK
    <3>5. UNCHANGED <<run, result, expired>>
      OBVIOUS
    <3> QED BY <3>1, <3>2, <3>3, <3>4, <3>5 DEF TypeOK
  <2>3. done' => batch' = <<>>
    BY <1>1, <2>1, CloserConstants DEF Callers, OpenUntilOwned
  <2> QED BY <2>2, <2>3 DEF WaitMeansClosed, ToSet
<1>2. CASE owner # Nobody
  <2>1. TypeOK'
    BY <1>2 DEF TypeOK
  <2> QED BY <1>2, <2>1 DEF WaitMeansClosed
<1> QED BY <1>1, <1>2

(* All the rest stays as it was.                                           *)
LEMMA EnterPreserves ==
  ASSUME ClosesOnce, NEW c \in Callers, Enter(c)
  PROVE  ClosesOnce'
<1> USE DEF ClosesOnce, TypeOK, Enter, Finish, Goto, closing, callers, history
<1>1. RegisteredOnce'
  BY DEF RegisteredOnce, NoRepeats
<1>2. OpenUntilOwned'
  BY CloserConstants DEF OpenUntilOwned, Callers
<1>3. StartedFromTheEnd'
  BY DEF StartedFromTheEnd, RegisteredOnce, OpenUntilOwned
<1>4. OneOwner'
  BY CloserConstants DEF OneOwner, OpenUntilOwned, Callers
<1>5. ClosedWhenEnded'
  BY DEF ClosedWhenEnded, OpenUntilOwned, Ended
<1>6. ErrorsAreSeen'
  BY DEF ErrorsAreSeen, OpenUntilOwned, Ended, ToSet
<1> QED BY <1>1, <1>2, <1>3, <1>4, <1>5, <1>6, EnterTakesAll

(* The loop starts the last function it has not started yet, which was added*)
(* and which it will not meet again.                                       *)
LEMMA StartPreserves ==
  ASSUME ClosesOnce, NEW c \in Callers, Start(c)
  PROVE  ClosesOnce'
<1> USE DEF ClosesOnce, TypeOK, Start, Goto, closing, callers, history
<1>1. TypeOK'
  BY CloserConstants DEF RegisteredOnce, OneOwner, Callers
<1>2. RegisteredOnce'
  BY CloserConstants DEF RegisteredOnce, OneOwner, Callers
<1>3. OpenUntilOwned'
  BY CloserConstants DEF OpenUntilOwned, OneOwner, Callers
<1>4. StartedFromTheEnd'
  BY CloserConstants DEF StartedFromTheEnd, RegisteredOnce, OneOwner,
       NoRepeats, ToSet, Callers
<1>5. OneOwner'
  BY DEF OneOwner
<1>6. ClosedWhenEnded'
  BY CloserConstants DEF ClosedWhenEnded, StartedFromTheEnd, OneOwner, Ended,
       Callers
<1>7. WaitMeansClosed'
  BY CloserConstants DEF WaitMeansClosed, OneOwner, Callers
<1>8. ErrorsAreSeen'
  BY DEF ErrorsAreSeen, StartedFromTheEnd, OneOwner
<1> QED BY <1>1, <1>2, <1>3, <1>4, <1>5, <1>6, <1>7, <1>8

(* A goroutine ends.                                                       *)
LEMMA SucceedPreserves ==
  ASSUME ClosesOnce, NEW f \in Funcs, Succeed(f)
  PROVE  ClosesOnce'
<1> USE DEF ClosesOnce, TypeOK, Succeed, closing, callers, history
<1>1. TypeOK'
  OBVIOUS
<1>2. RegisteredOnce'
  BY DEF RegisteredOnce
<1>3. OpenUntilOwned'
  BY DEF OpenUntilOwned
<1>4. StartedFromTheEnd'
  BY DEF StartedFromTheEnd
<1>5. OneOwner'
  BY DEF OneOwner
<1>6. ClosedWhenEnded'
  BY DEF ClosedWhenEnded, Ended
<1>7. WaitMeansClosed'
  BY DEF WaitMeansClosed
<1>8. ErrorsAreSeen'
  BY DEF ErrorsAreSeen, Ended
<1> QED BY <1>1, <1>2, <1>3, <1>4, <1>5, <1>6, <1>7, <1>8

(* A function fails: it was taken, and its error is on its way.            *)
LEMMA FailPreserves ==
  ASSUME ClosesOnce, NEW f \in Funcs, Fail(f)
  PROVE  ClosesOnce'
<1> USE DEF ClosesOnce, TypeOK, Fail, closing, callers, history
<1>1. TypeOK'
  OBVIOUS
<1>2. RegisteredOnce'
  BY DEF RegisteredOnce
<1>3. OpenUntilOwned'
  BY DEF OpenUntilOwned
<1>4. StartedFromTheEnd'
  BY DEF StartedFromTheEnd
<1>5. OneOwner'
  BY DEF OneOwner
<1>6. ClosedWhenEnded'
  BY DEF ClosedWhenEnded, Ended
<1>7. WaitMeansClosed'
  BY DEF WaitMeansClosed
<1>8. ErrorsAreSeen'
  BY DEF ErrorsAreSeen, StartedFromTheEnd, Ended
<1> QED BY <1>1, <1>2, <1>3, <1>4, <1>5, <1>6, <1>7, <1>8

(* The error is in the channel.                                            *)
LEMMA SendDelivers ==
  ASSUME ClosesOnce, NEW f \in Funcs, Send(f)
  PROVE  ErrorsAreSeen'
<1>1. errCh' # <<>>
  <2>1. errCh \in Seq(Funcs) /\ errCh' = Append(errCh, f)
    BY DEF ClosesOnce, TypeOK, Send
  <2> QED BY <2>1
<1>2. ASSUME Ended PROVE Ended'
  BY <1>2 DEF ClosesOnce, TypeOK, Ended, ToSet, Send, closing
<1> QED BY <1>1, <1>2 DEF ClosesOnce, ErrorsAreSeen, Send, closing, callers

(* All the rest stays as it was.                                           *)
LEMMA SendPreserves ==
  ASSUME ClosesOnce, NEW f \in Funcs, Send(f)
  PROVE  ClosesOnce'
<1>1. TypeOK'
  <2>1. /\ errCh' \in Seq(Funcs) /\ sent' \in Seq(Funcs)
        /\ run' \in [Funcs -> {"unknown", "added", "running", "sending",
                               "ended"}]
    BY DEF ClosesOnce, TypeOK, Send
  <2>2. /\ UNCHANGED <<funcs, batch, failures, owner, done, closed, started>>
        /\ UNCHANGED <<pc, result, expired>>
    BY DEF Send, closing, callers
  <2>3. TypeOK
    BY DEF ClosesOnce
  <2> QED BY <2>1, <2>2, <2>3 DEF TypeOK
<1> USE DEF ClosesOnce, TypeOK, Send, closing, callers
<1>2. RegisteredOnce'
  BY DEF RegisteredOnce
<1>3. OpenUntilOwned'
  BY DEF OpenUntilOwned
<1>4. StartedFromTheEnd'
  BY DEF StartedFromTheEnd
<1>5. OneOwner'
  BY DEF OneOwner
<1>6. ClosedWhenEnded'
  BY DEF ClosedWhenEnded, Ended
<1>7. WaitMeansClosed'
  BY DEF WaitMeansClosed
<1> QED BY <1>1, <1>2, <1>3, <1>4, <1>5, <1>6, <1>7, SendDelivers

(* The channel is closed behind the last goroutine.                        *)
LEMMA CloseErrChPreserves ==
  ASSUME ClosesOnce, CloseErrCh
  PROVE  ClosesOnce'
<1> USE DEF ClosesOnce, TypeOK, CloseErrCh, closing, callers, history
<1>1. TypeOK'
  OBVIOUS
<1>2. RegisteredOnce'
  BY DEF RegisteredOnce
<1>3. OpenUntilOwned'
  BY DEF OpenUntilOwned
<1>4. StartedFromTheEnd'
  BY DEF StartedFromTheEnd
<1>5. OneOwner'
  BY DEF OneOwner
<1>6. ClosedWhenEnded'
  BY DEF ClosedWhenEnded, Ended
<1>7. WaitMeansClosed'
  BY DEF WaitMeansClosed
<1>8. ErrorsAreSeen'
  BY DEF ErrorsAreSeen, Ended
<1> QED BY <1>1, <1>2, <1>3, <1>4, <1>5, <1>6, <1>7, <1>8

(* The owner leaves late, takes an error, or leaves when all have ended.   *)
LEMMA CollectKeepsErrors ==
  ASSUME ClosesOnce, NEW c \in Callers, Collect(c)
  PROVE  TypeOK' /\ WaitMeansClosed' /\ ErrorsAreSeen'
<1> USE DEF ClosesOnce, Collect, Finish, Goto, history
<1>0. c = owner /\ owner # Nobody /\ ~done
  BY CloserConstants DEF OneOwner, Callers
<1>1. CASE /\ errCh # <<>> /\ errCh' = Tail(errCh)
           /\ KeepFirst(c, Head(errCh)) /\ UNCHANGED <<pc, done>>
  <2>1. Head(errCh) \in Funcs /\ Tail(errCh) \in Seq(Funcs)
    BY <1>1, HeadTailProperties DEF TypeOK
  <2>2. TypeOK'
    BY <1>1, <2>1 DEF TypeOK, KeepFirst
  <2>3. WaitMeansClosed'
    BY <1>0, <1>1 DEF WaitMeansClosed
  <2>4. result'[owner] # Nil
    BY <1>0, <1>1, <2>1, CloserConstants DEF TypeOK, KeepFirst
  <2> QED BY <2>2, <2>3, <2>4 DEF ErrorsAreSeen
<1>2. CASE expired[c] /\ KeepFirst(c, CtxError) /\ Finish(c) /\ UNCHANGED errCh
  <2>2. TypeOK'
    BY <1>2 DEF TypeOK, KeepFirst
  <2>3. WaitMeansClosed'
    BY <1>0, <1>2 DEF WaitMeansClosed
  <2>4. result'[owner] # Nil
    BY <1>0, <1>2, CloserConstants DEF TypeOK, KeepFirst
  <2> QED BY <2>2, <2>3, <2>4 DEF ErrorsAreSeen
<1>3. CASE errCh = <<>> /\ closed /\ Finish(c) /\ UNCHANGED <<errCh, result>>
  <2>1. Ended /\ Ended'
    BY <1>3 DEF ClosedWhenEnded, Ended
  <2>2. TypeOK'
    BY <1>3 DEF TypeOK
  <2>3. WaitMeansClosed'
    BY <2>1 DEF WaitMeansClosed, Ended
  <2>4. \A f \in Funcs : run[f] # "sending"
    BY <2>1 DEF Ended, StartedFromTheEnd
  <2> QED BY <1>0, <1>3, <2>1, <2>2, <2>3, <2>4 DEF ErrorsAreSeen
<1> QED BY <1>1, <1>2, <1>3

(* All the rest stays as it was.                                           *)
LEMMA CollectPreserves ==
  ASSUME ClosesOnce, NEW c \in Callers, Collect(c)
  PROVE  ClosesOnce'
<1> USE DEF ClosesOnce, TypeOK, Collect, Finish, KeepFirst, Goto, closing,
            callers, history
<1>1. RegisteredOnce'
  BY DEF RegisteredOnce
<1>2. OpenUntilOwned'
  BY CloserConstants DEF OpenUntilOwned, OneOwner, Callers
<1>3. StartedFromTheEnd'
  BY DEF StartedFromTheEnd
<1>4. OneOwner'
  BY DEF OneOwner
<1>5. ClosedWhenEnded'
  BY DEF ClosedWhenEnded, Ended
<1> QED BY <1>1, <1>2, <1>3, <1>4, <1>5, CollectKeepsErrors

-----------------------------------------------------------------------------
(* ClosesOnce holds in every reachable state.                              *)
THEOREM Invariance == Spec => []ClosesOnce
<1>1. Init => ClosesOnce
  <2> SUFFICES ASSUME Init PROVE ClosesOnce
    OBVIOUS
  <2>1. TypeOK
    <3>1. /\ funcs \in Seq(Funcs) /\ batch \in Seq(Funcs)
          /\ errCh \in Seq(Funcs) /\ failures \in Seq(Funcs)
          /\ sent \in Seq(Funcs)
          /\ started \in 0..Len(batch)
      BY DEF Init
    <3>2. /\ owner \in Callers \cup {Nobody}
          /\ done \in BOOLEAN /\ closed \in BOOLEAN
      BY DEF Init
    <3>3. /\ run \in [Funcs -> {"unknown", "added", "running", "sending",
                               "ended"}]
          /\ pc \in [Callers -> {"waiting", "once", "start", "collect",
                                 "returned"}]
          /\ result \in [Callers -> Funcs \cup {Nil, CtxError}]
          /\ expired \in [Callers -> BOOLEAN]
      BY DEF Init
    <3> QED BY <3>1, <3>2, <3>3 DEF TypeOK
  <2>2. RegisteredOnce /\ StartedFromTheEnd /\ ErrorsAreSeen /\ ClosedWhenEnded
    BY DEF Init, RegisteredOnce, NoRepeats, StartedFromTheEnd, ErrorsAreSeen,
           ClosedWhenEnded
  <2>3. OpenUntilOwned /\ OneOwner /\ WaitMeansClosed
    BY DEF Init, OpenUntilOwned, OneOwner, WaitMeansClosed
  <2> QED BY <2>1, <2>2, <2>3 DEF ClosesOnce
<1>2. ClosesOnce /\ [Next]_vars => ClosesOnce'
  <2> SUFFICES ASSUME ClosesOnce, [Next]_vars
               PROVE  ClosesOnce'
    OBVIOUS
  <2>1. ASSUME NEW c \in Callers, Call(c) \/ Step(c)
        PROVE  ClosesOnce'
    BY <2>1, CallPreserves, EnterPreserves, StartPreserves, CollectPreserves
       DEF Step
  <2>2. ASSUME NEW h \in Handlers, NoSignal(h) \/ Expire(h)
        PROVE  ClosesOnce'
    BY <2>2, NoSignalPreserves, ExpirePreserves
  <2>3. ASSUME NEW f \in Funcs, Add(f) \/ Succeed(f) \/ Fail(f) \/ Send(f)
        PROVE  ClosesOnce'
    BY <2>3, AddPreserves, SucceedPreserves, FailPreserves, SendPreserves
  <2>4. CASE UNCHANGED vars
    BY <2>4 DEF ClosesOnce, TypeOK, RegisteredOnce, NoRepeats, OpenUntilOwned,
       StartedFromTheEnd, OneOwner, ClosedWhenEnded, Ended, WaitMeansClosed,
       ErrorsAreSeen, ToSet, vars, closing, callers, history
  <2> QED BY <2>1, <2>2, <2>3, <2>4, CloseErrChPreserves DEF Next
<1> QED BY <1>1, <1>2, PTL DEF Spec

(* Every variable always has its type.                                     *)
THEOREM TypeCorrect == Spec => []TypeOK
<1>1. ClosesOnce => TypeOK
  BY DEF ClosesOnce
<1> QED BY <1>1, Invariance, PTL

(* closer.Wait returns only when every function CloseAll took has ended or *)
(* its caller's time was up.                                               *)
THEOREM WaitIsLast == Spec => []WaitMeansClosed
<1>1. ClosesOnce => WaitMeansClosed
  BY DEF ClosesOnce
<1> QED BY <1>1, Invariance, PTL

(* A CloseAll that returns nil says that the shutdown is over, and to its  *)
(* owner that no function failed.                                          *)
THEOREM NilIsDone == Spec => []NilMeansDone
<1>1. ClosesOnce => NilMeansDone
  BY CloserConstants
     DEF ClosesOnce, OneOwner, ErrorsAreSeen, NilMeansDone, Callers
<1> QED BY <1>1, Invariance, PTL

-----------------------------------------------------------------------------
(* Which error is returned.                                                *)

\* As long as there is no result, errCh holds all that was ever sent; then the
\* result is the first of that, or the deadline.  Who does not close has none.
FirstIsKept ==
  /\ \A c \in Callers : c # owner => result[c] = Nil
  /\ owner = Nobody => errCh = <<>> /\ sent = <<>>
  /\ owner # Nobody =>
       /\ result[owner] = Nil => errCh = sent /\ (done => sent = <<>>)
       /\ result[owner] \in Funcs => sent # <<>> /\ result[owner] = Head(sent)
       /\ result[owner] = CtxError => expired[owner]

(* Nothing is sent before somebody closes, nor when all have ended; and    *)
(* what is sent is sent behind what was.                                   *)
LEMMA SendKeepsFirst ==
  ASSUME ClosesOnce, FirstIsKept, NEW f \in Funcs, Send(f)
  PROVE  FirstIsKept'
<1>1. /\ UNCHANGED <<owner, done, result, expired>>
      /\ errCh' = Append(errCh, f) /\ sent' = Append(sent, f)
      /\ run[f] = "sending"
  BY DEF Send, closing, callers
<1>2. sent \in Seq(Funcs)
  BY DEF ClosesOnce, TypeOK
<1>3. owner # Nobody
  BY <1>1 DEF ClosesOnce, OpenUntilOwned
<1>4. f \in ToSet(batch)
  BY <1>1 DEF ClosesOnce, StartedFromTheEnd
<1>5. ~(done /\ result[owner] = Nil)
  BY <1>1, <1>3, <1>4 DEF ClosesOnce, ErrorsAreSeen, Ended
<1>6. sent' # <<>> /\ (sent # <<>> => Head(sent') = Head(sent))
  BY <1>1, <1>2
<1> QED BY <1>1, <1>3, <1>5, <1>6 DEF FirstIsKept

(* The first caller finds the channel empty and no result.                 *)
LEMMA EnterKeepsFirst ==
  ASSUME ClosesOnce, FirstIsKept, NEW c \in Callers, Enter(c)
  PROVE  FirstIsKept'
<1>1. UNCHANGED <<errCh, sent, result, expired>>
  BY DEF Enter, history
<1>2. CASE owner = Nobody
  <2>1. /\ errCh = <<>> /\ sent = <<>> /\ owner' = c
        /\ \A d \in Callers : result[d] = Nil
    BY <1>2, CloserConstants DEF Enter, FirstIsKept, Callers
  <2> QED BY <1>1, <2>1, CloserConstants DEF FirstIsKept
<1>3. CASE owner # Nobody
  <2>1. UNCHANGED <<owner, done>>
    BY <1>3 DEF Enter
  <2> QED BY <1>1, <2>1 DEF FirstIsKept
<1> QED BY <1>2, <1>3

(* The owner takes the first error in the channel, and what it takes when  *)
(* it has none yet is the first that was sent.                             *)
LEMMA CollectKeepsFirst ==
  ASSUME ClosesOnce, FirstIsKept, NEW c \in Callers, Collect(c)
  PROVE  FirstIsKept'
<1>1. /\ c = owner /\ owner # Nobody /\ ~done
      /\ UNCHANGED <<owner, expired, sent>>
      /\ result \in [Callers -> Funcs \cup {Nil, CtxError}]
  BY CloserConstants
     DEF Collect, history, ClosesOnce, TypeOK, OneOwner, Callers
<1>2. \A d \in Callers : d # owner => result'[d] = result[d]
  BY <1>1 DEF Collect, KeepFirst
<1>3. CASE /\ errCh # <<>> /\ errCh' = Tail(errCh)
           /\ KeepFirst(c, Head(errCh)) /\ UNCHANGED <<pc, done>>
  <2>1. Head(errCh) \in Funcs
    BY <1>3 DEF ClosesOnce, TypeOK
  <2>2. CASE result[owner] = Nil
    <3>1. errCh = sent /\ result'[owner] = Head(errCh)
      BY <1>1, <1>3, <2>2 DEF FirstIsKept, KeepFirst
    <3>2. result'[owner] \notin {Nil, CtxError}
      BY <2>1, <3>1, CloserConstants
    <3> QED BY <1>1, <1>2, <1>3, <3>1, <3>2 DEF FirstIsKept
  <2>3. CASE result[owner] # Nil
    <3>1. result' = result
      BY <1>1, <1>3, <2>3 DEF KeepFirst
    <3> QED BY <1>1, <1>3, <2>3, <3>1 DEF FirstIsKept
  <2> QED BY <2>2, <2>3
<1>4. CASE expired[c] /\ KeepFirst(c, CtxError) /\ Finish(c) /\ UNCHANGED errCh
  <2>1. CASE result[owner] = Nil
    <3>1. result'[owner] = CtxError
      BY <1>1, <1>4, <2>1 DEF KeepFirst
    <3> QED BY <1>1, <1>2, <1>4, <3>1, CloserConstants DEF FirstIsKept
  <2>2. CASE result[owner] # Nil
    <3>1. result' = result
      BY <1>1, <1>4, <2>2 DEF KeepFirst
    <3> QED BY <1>1, <1>4, <2>2, <3>1 DEF FirstIsKept
  <2> QED BY <2>1, <2>2
<1>5. CASE errCh = <<>> /\ closed /\ Finish(c) /\ UNCHANGED <<errCh, result>>
  BY <1>1, <1>5 DEF FirstIsKept
<1> QED BY <1>3, <1>4, <1>5 DEF Collect

(* CloseAll returns to its owner the first of all the errors that were     *)
(* sent to the channel, unless its time was up before it had read one.     *)
THEOREM FirstErrorReturned == Spec => []FirstErrorIsReturned
<1>1. Init => FirstIsKept
  BY DEF Init, FirstIsKept
<1>2. ClosesOnce /\ FirstIsKept /\ [Next]_vars => FirstIsKept'
  <2> SUFFICES ASSUME ClosesOnce, FirstIsKept, [Next]_vars
               PROVE  FirstIsKept'
    OBVIOUS
  <2>1. ASSUME UNCHANGED <<owner, done, errCh, sent, result>>,
               \A c \in Callers : expired[c] => expired'[c]
        PROVE  FirstIsKept'
    <3>1. owner \in Callers \cup {Nobody}
      BY DEF ClosesOnce, TypeOK
    <3> QED BY <2>1, <3>1 DEF FirstIsKept
  <2>2. ASSUME NEW c \in Callers, Call(c) \/ Start(c)
        PROVE  FirstIsKept'
    BY <2>1, <2>2 DEF Call, Start, closing, history
  <2>3. ASSUME NEW h \in Handlers, NoSignal(h) \/ Expire(h)
        PROVE  FirstIsKept'
    <3>1. \A c \in Callers : expired[c] => expired'[c]
      BY <2>3 DEF NoSignal, Expire, ClosesOnce, TypeOK, Callers
    <3> QED BY <2>1, <2>3, <3>1 DEF NoSignal, Expire, closing, history
  <2>4. ASSUME NEW f \in Funcs, Add(f) \/ Succeed(f) \/ Fail(f)
        PROVE  FirstIsKept'
    BY <2>1, <2>4 DEF Add, Succeed, Fail, closing, callers, history
  <2>5. CASE CloseErrCh \/ UNCHANGED vars
    BY <2>1, <2>5 DEF CloseErrCh, vars, callers, history
  <2> QED BY <2>2, <2>3, <2>4, <2>5, SendKeepsFirst, EnterKeepsFirst,
             CollectKeepsFirst DEF Next, Step
<1>3. ClosesOnce /\ FirstIsKept => FirstErrorIsReturned
  <2> SUFFICES ASSUME ClosesOnce, FirstIsKept, done
               PROVE  \/ result[owner] = Nil /\ sent = <<>>
                      \/ sent # <<>> /\ result[owner] = Head(sent)
                      \/ result[owner] = CtxError /\ expired[owner]
    BY DEF FirstErrorIsReturned
  <2>1. owner # Nobody /\ owner \in Callers
    BY DEF ClosesOnce, TypeOK, OpenUntilOwned
  <2>2. result[owner] \in Funcs \cup {Nil, CtxError}
    BY <2>1 DEF ClosesOnce, TypeOK
  <2> QED BY <2>1, <2>2 DEF FirstIsKept
<1> QED BY <1>1, <1>2, <1>3, Invariance, PTL DEF Spec

-----------------------------------------------------------------------------
(* The channel: its capacity, and who sends to it when.                    *)

\* errCh holds each error once, of a function that has returned.
SentOnce == /\ NoRepeats(errCh)
            /\ \A i \in DOMAIN errCh : run[errCh[i]] = "ended"

\* A goroutine with an error to send finds a free place in errCh, whether
\* anybody reads or not, and never a closed channel, on which it would panic.
SendSucceeds ==
  \A f \in Funcs : run[f] = "sending" => Len(errCh) < Capacity /\ ~closed

(* Only a function whose error is on its way puts it into the channel.     *)
LEMMA SentOnceStep ==
  ASSUME ClosesOnce, SentOnce, [Next]_vars
  PROVE  SentOnce'
<1>0. /\ errCh \in Seq(Funcs)
      /\ run \in [Funcs -> {"unknown", "added", "running", "sending", "ended"}]
  BY DEF ClosesOnce, TypeOK
<1>a. /\ DOMAIN errCh = 1..Len(errCh) /\ Len(errCh) \in Nat
      /\ \A i \in DOMAIN errCh : errCh[i] \in Funcs
  BY <1>0
<1>1. CASE errCh' = errCh /\ \A f \in Funcs : run[f] = "ended" => run'[f] = run[f]
  BY <1>1, <1>a DEF SentOnce, NoRepeats
<1>2. ASSUME NEW f \in Funcs, Add(f) \/ Succeed(f) \/ Fail(f)
      PROVE  SentOnce'
  BY <1>0, <1>1, <1>2 DEF Add, Succeed, Fail
<1>3. ASSUME NEW f \in Funcs, Send(f) PROVE SentOnce'
  <2>1. /\ Len(errCh') = Len(errCh) + 1
        /\ DOMAIN errCh' = 1..Len(errCh')
        /\ \A i \in 1..Len(errCh) : errCh'[i] = errCh[i]
        /\ errCh'[Len(errCh) + 1] = f
    BY <1>0, <1>3 DEF Send
  <2>2. \A i \in DOMAIN errCh : errCh[i] # f
    BY <1>3 DEF Send, SentOnce
  <2>3. NoRepeats(errCh')
    BY <1>a, <2>1, <2>2 DEF SentOnce, NoRepeats
  <2>4. \A g \in Funcs : run[g] = "ended" \/ g = f => run'[g] = "ended"
    BY <1>0, <1>3 DEF Send
  <2>5. \A i \in DOMAIN errCh' : run'[errCh'[i]] = "ended"
    BY <1>a, <2>1, <2>4 DEF SentOnce
  <2> QED BY <2>3, <2>5 DEF SentOnce
<1>4. ASSUME NEW c \in Callers, Start(c) PROVE SentOnce'
  <2> DEFINE f == batch[Len(batch) - started]
  <2>1. f \in Funcs /\ run[f] = "added"
    BY <1>4, CloserConstants
       DEF Start, ClosesOnce, TypeOK, StartedFromTheEnd, OneOwner, Callers
  <2>2. errCh' = errCh /\ run' = [run EXCEPT ![f] = "running"]
    BY <1>4 DEF Start
  <2> HIDE DEF f
  <2> QED BY <1>0, <1>1, <2>1, <2>2
<1>5. ASSUME NEW c \in Callers, Collect(c) PROVE SentOnce'
  <2>1. /\ run' = run
        /\ \/ errCh' = errCh
           \/ errCh # <<>> /\ errCh' = Tail(errCh)
    BY <1>5 DEF Collect
  <2>2. CASE errCh' = errCh
    BY <1>1, <2>1, <2>2
  <2>3. CASE errCh # <<>> /\ errCh' = Tail(errCh)
    <3>1. /\ DOMAIN errCh' = 1..(Len(errCh) - 1)
          /\ \A i \in DOMAIN errCh' : errCh'[i] = errCh[i + 1]
          /\ \A i \in DOMAIN errCh' : i + 1 \in DOMAIN errCh /\ i \in Int
      BY <1>0, <1>a, <2>3
    <3>2. NoRepeats(errCh')
      BY <3>1 DEF SentOnce, NoRepeats
    <3>3. \A i \in DOMAIN errCh' : run'[errCh'[i]] = "ended"
      BY <2>1, <3>1 DEF SentOnce
    <3> QED BY <3>2, <3>3 DEF SentOnce
  <2> QED BY <2>1, <2>2, <2>3
<1>6. ASSUME NEW c \in Callers, Call(c) \/ Enter(c) PROVE SentOnce'
  BY <1>1, <1>6 DEF Call, Enter
<1>7. ASSUME NEW h \in Handlers, NoSignal(h) \/ Expire(h) PROVE SentOnce'
  BY <1>1, <1>7 DEF NoSignal, Expire
<1>8. CASE CloseErrCh \/ UNCHANGED vars
  BY <1>1, <1>8 DEF CloseErrCh, vars
<1> QED BY <1>2, <1>3, <1>4, <1>5, <1>6, <1>7, <1>8 DEF Next, Step

(* A sequence whose members all occur in another one, which has no repeated*)
(* member and a further one, is shorter than that one.                     *)
LEMMA ShorterThan ==
  ASSUME NEW A, NEW s \in Seq(A), NEW t \in Seq(A), NEW k \in 1..Len(t),
         NoRepeats(s),
         \A i \in 1..Len(s) : \E j \in 1..Len(t) : j # k /\ t[j] = s[i]
  PROVE  Len(s) < Len(t)
<1> DEFINE S == 1..Len(s)
           T == (1..Len(t)) \ {k}
           place == [i \in S |-> CHOOSE j \in T : t[j] = s[i]]
<1>1. Len(s) \in Nat /\ Len(t) \in Nat /\ DOMAIN s = S
  OBVIOUS
<1>n. ASSUME NEW n \in Nat
      PROVE  IsFiniteSet(1..n) /\ Cardinality(1..n) = n
  <2>1. /\ IsFiniteSet(1..n)
        /\ Cardinality(1..n) = IF 1 > n THEN 0 ELSE n - 1 + 1
    BY FS_Interval
  <2> QED BY <2>1
<1>2. IsFiniteSet(S) /\ Cardinality(S) = Len(s)
  BY <1>1, <1>n
<1>3. IsFiniteSet(1..Len(t)) /\ Cardinality(1..Len(t)) = Len(t)
  BY <1>1, <1>n
<1>4. IsFiniteSet(T) /\ Cardinality(T) = Len(t) - 1
  BY <1>3, FS_RemoveElement
<1>5. \A i \in S : place[i] \in T /\ t[place[i]] = s[i]
  <2> SUFFICES ASSUME NEW i \in S
               PROVE  place[i] \in T /\ t[place[i]] = s[i]
    OBVIOUS
  <2>1. \E j \in T : t[j] = s[i]
    OBVIOUS
  <2> QED BY <2>1
<1>6. place \in [S -> T]
  BY <1>5
<1>7. \A x, y \in S : place[x] = place[y] => x = y
  <2> SUFFICES ASSUME NEW x \in S, NEW y \in S, place[x] = place[y]
               PROVE  x = y
    OBVIOUS
  <2> HIDE DEF place
  <2>1. s[x] = s[y]
    BY <1>5
  <2> QED BY <1>1, <2>1 DEF NoRepeats
<1> HIDE DEF S, T, place
<1>8. ~(Cardinality(T) < Cardinality(S))
  BY <1>2, <1>4, <1>6, <1>7, FS_PigeonHole
<1> QED BY <1>1, <1>2, <1>4, <1>8

(* No goroutine that CloseAll starts is left behind on errCh: the channel  *)
(* has room for one error of each function and is closed behind the last.  *)
THEOREM SendsAreFree == Spec => []SendSucceeds
<1>1. Init => SentOnce
  BY DEF Init, SentOnce, NoRepeats
<1>2. ClosesOnce /\ SentOnce /\ [Next]_vars => SentOnce'
  BY SentOnceStep
<1>3. ClosesOnce /\ SentOnce => SendSucceeds
  <2> SUFFICES ASSUME ClosesOnce, SentOnce, NEW f \in Funcs,
                      run[f] = "sending"
               PROVE  Len(errCh) < Capacity /\ ~closed
    BY DEF SendSucceeds
  <2>1. batch \in Seq(Funcs) /\ errCh \in Seq(Funcs)
    BY DEF ClosesOnce, TypeOK
  <2>2. \A g \in Funcs : run[g] \in {"sending", "ended"} =>
          \E j \in 1..Len(batch) : batch[j] = g
    BY <2>1 DEF ClosesOnce, StartedFromTheEnd, ToSet
  <2>3. PICK k \in 1..Len(batch) : batch[k] = f
    BY <2>2
  <2>4. ASSUME NEW i \in 1..Len(errCh)
        PROVE  \E j \in 1..Len(batch) : j # k /\ batch[j] = errCh[i]
    <3>1. errCh[i] \in Funcs /\ run[errCh[i]] = "ended"
      BY <2>1 DEF SentOnce
    <3>2. PICK j \in 1..Len(batch) : batch[j] = errCh[i]
      BY <2>2, <3>1
    <3> QED BY <2>3, <3>1, <3>2
  <2>5. NoRepeats(errCh)
    BY DEF SentOnce
  <2>6. Len(errCh) < Len(batch)
    BY <2>1, <2>3, <2>4, <2>5, ShorterThan
  <2>7. ~closed
    BY <2>1, <2>3 DEF ClosesOnce, ClosedWhenEnded, Ended, ToSet
  <2> QED BY <2>6, <2>7 DEF Capacity
<1> QED BY <1>1, <1>2, <1>3, Invariance, PTL DEF Spec

-----------------------------------------------------------------------------
(* The refinement.                                                         *)

phaseOf == IF done THEN "over" ELSE IF owner = Nobody THEN "open" ELSE "closing"
runOf   == [f \in Funcs |-> IF run[f] = "sending" THEN "running" ELSE run[f]]
lateOf  == owner # Nobody /\ expired[owner]

(* With nobody closing, the functions that are registered are those that   *)
(* wait in funcs.                                                          *)
LEMMA TakesAll ==
  ASSUME ClosesOnce, owner = Nobody
  PROVE  ToSet(funcs) = {f \in Funcs : runOf[f] = "added"}
BY DEF ClosesOnce, TypeOK, RegisteredOnce, OpenUntilOwned, ToSet, runOf

(* Each step of the package is one of the abstract shutdown, or leaves     *)
(* everything a service can see of it as it was.                           *)
LEMMA StepOfPromise ==
  ASSUME ClosesOnce, ClosesOnce', [Next]_vars
  PROVE  [Promise!Next]_(Promise!shutdown)
<1> DEFINE seen == <<phaseOf, ToSet(batch), runOf, lateOf>>
<1>s. ASSUME seen' = seen
      PROVE  UNCHANGED Promise!shutdown
  BY <1>s DEF Promise!shutdown, phaseOf, runOf, lateOf
<1>1. ASSUME NEW f \in Funcs, Add(f)
      PROVE  Promise!Register(f)
  BY <1>1 DEF ClosesOnce, TypeOK, Add, closing, callers, history, Promise!Register
<1>2. ASSUME NEW f \in Funcs, Succeed(f) \/ Send(f)
      PROVE  Promise!Return(f)
  BY <1>2 DEF ClosesOnce, TypeOK, Succeed, Send, closing, callers, history,
              Promise!Return
<1>3. ASSUME NEW f \in Funcs, Fail(f)
      PROVE  seen' = seen
  BY <1>3 DEF ClosesOnce, TypeOK, Fail, closing, callers, history, phaseOf, runOf,
              lateOf
<1>4. ASSUME NEW c \in Callers, Call(c)
      PROVE  seen' = seen
  BY <1>4 DEF Call, closing, phaseOf, runOf, lateOf
<1>5. ASSUME NEW h \in Handlers, NoSignal(h)
      PROVE  seen' = seen
  BY <1>5 DEF NoSignal, closing, phaseOf, runOf, lateOf
<1>6. ASSUME NEW h \in Handlers, Expire(h)
      PROVE  Promise!Expire \/ seen' = seen
  <2>1. CASE h = owner
    <3>1. owner # Nobody /\ ~done /\ ~expired[owner]
      BY <1>6, <2>1, CloserConstants
         DEF Expire, ClosesOnce, OneOwner, OpenUntilOwned, Callers
    <3>2. expired'[owner] /\ owner' = owner
      BY <1>6, <2>1 DEF Expire, ClosesOnce, TypeOK, closing, Callers
    <3> QED BY <1>6, <3>1, <3>2 DEF Expire, closing, Promise!Expire
  <2>2. CASE h # owner
    BY <1>6, <2>2 DEF Expire, ClosesOnce, TypeOK, closing, phaseOf, runOf,
       lateOf, Callers
  <2> QED BY <2>1, <2>2
<1>7. ASSUME NEW c \in Callers, Enter(c)
      PROVE  Promise!Begin \/ seen' = seen
  <2>1. CASE owner = Nobody
    <3>1. ToSet(batch') = {f \in Funcs : runOf[f] = "added"}
      BY <1>7, <2>1, TakesAll DEF Enter
    <3>2. ~done /\ owner' = c /\ c # Nobody /\ UNCHANGED <<run, expired>>
      BY <1>7, <2>1, CloserConstants
         DEF Enter, ClosesOnce, OpenUntilOwned, Callers
    <3>3. batch' = funcs /\ funcs \in Seq(Funcs)
      BY <1>7, <2>1 DEF Enter, ClosesOnce, TypeOK
    <3>4. ToSet(batch') = {} <=> funcs = <<>>
      BY <3>3 DEF ToSet
    <3>6. done' <=> funcs = <<>>
      BY <1>7, <2>1, <3>2 DEF Enter, Finish
    <3>5. (owner' # Nobody /\ expired'[owner']) \in BOOLEAN
      OBVIOUS
    <3> QED BY <2>1, <3>1, <3>2, <3>4, <3>5, <3>6 DEF Promise!Begin, runOf
  <2>2. CASE owner # Nobody
    BY <1>7, <2>2 DEF Enter, phaseOf, runOf, lateOf
  <2> QED BY <2>1, <2>2
<1>8. ASSUME NEW c \in Callers, Start(c)
      PROVE  \E f \in Funcs : Promise!Start(f)
  <2>1. /\ c = owner /\ owner # Nobody /\ ~done
        /\ Len(batch) - started \in DOMAIN batch
    BY <1>8, CloserConstants DEF Start, ClosesOnce, TypeOK, OneOwner, Callers
  <2>2. PICK f \in Funcs : f = batch[Len(batch) - started]
    BY <2>1 DEF ClosesOnce, TypeOK
  <2>3. /\ f \in ToSet(batch) /\ run[f] = "added"
        /\ run' = [run EXCEPT ![f] = "running"]
        /\ UNCHANGED <<owner, done, batch, expired>>
    BY <1>8, <2>1, <2>2 DEF Start, ClosesOnce, StartedFromTheEnd, ToSet
  <2>4. Promise!Start(f)
    BY <2>1, <2>3 DEF ClosesOnce, TypeOK, Promise!Start
  <2> QED BY <2>4
<1>9. CASE CloseErrCh
  BY <1>9, <1>s DEF CloseErrCh, callers, history, phaseOf, runOf, lateOf
<1>10. ASSUME NEW c \in Callers, Collect(c)
       PROVE  Promise!End \/ seen' = seen
  <2>1. c = owner /\ owner # Nobody /\ ~done /\ started = Len(batch)
    BY <1>10, CloserConstants DEF Collect, ClosesOnce, OneOwner, Callers
  <2>2. UNCHANGED <<owner, batch, run, expired>>
    BY <1>10 DEF Collect
  <2>3. \A f \in ToSet(batch) : run[f] # "added" /\ f \in Funcs
    BY <2>1 DEF ClosesOnce, TypeOK, StartedFromTheEnd, ToSet
  <2>4. CASE ~done'
    BY <2>2, <2>1, <2>4, <1>10
       DEF Collect, Finish, phaseOf, runOf, lateOf
  <2>5. CASE done' = TRUE
    <3>1. expired[c] \/ \A f \in ToSet(batch) : run[f] = "ended"
      BY <1>10, <2>1, <2>5
         DEF Collect, ClosesOnce, ClosedWhenEnded, Ended
    <3> QED BY <2>1, <2>2, <2>3, <2>5, <3>1 DEF Promise!End
  <2>6. done' \in BOOLEAN
    BY DEF ClosesOnce, TypeOK
  <2> QED BY <2>4, <2>5, <2>6
<1>11. CASE UNCHANGED vars
  BY <1>11, <1>s DEF vars, closing, callers, history, phaseOf, runOf, lateOf
<1> QED
  BY <1>s, <1>1, <1>2, <1>3, <1>4, <1>5, <1>6, <1>7, <1>8, <1>9, <1>10, <1>11
     DEF Next, Step, Promise!Next

(* The package implements the shutdown the services are composed with,     *)
(* whatever is registered when, hangs, fails or comes too late.            *)
THEOREM Implements == Spec => ImplementsShutdown
<1>1. Init => Promise!Init
  BY DEF Init, Promise!Init, ToSet
<1>2. ClosesOnce /\ ClosesOnce' /\ [Next]_vars
        => [Promise!Next]_(Promise!shutdown)
  BY StepOfPromise
<1> QED BY <1>1, <1>2, Invariance, PTL
        DEF Spec, ImplementsShutdown, Promise!Spec
=============================================================================
