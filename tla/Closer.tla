------------------------------- MODULE Closer -------------------------------
(***************************************************************************)
(* Graceful shutdown: platform/pkg/closer.                                 *)
(*                                                                         *)
(* Every service registers its closing functions with the Closer of its    *)
(* process, and somebody calls CloseAll: handleSignals, with a context that*)
(* times out (order, payment, inventory), or App.Run when it ends          *)
(* (assembly, notification) or a signal goroutine (iam), with one that is  *)
(* never done.  The package allows both in one process: sync.Once lets one *)
(* caller close, and handleSignals watches for it.  The functions run in   *)
(* goroutines and send their errors to a buffered channel.                 *)
(***************************************************************************)
EXTENDS Integers, Sequences, SequencesExt

CONSTANTS Funcs,      \* closing functions
          Hangs,      \* those that may never return, whatever their context
          Handlers,   \* callers with a timeout: handleSignals
          Plain,      \* callers whose context is never done
          Nobody, Nil, CtxError

ASSUME CloserConstants ==
  /\ Hangs \subseteq Funcs
  /\ Handlers \cap Plain = {}
  /\ Nobody \notin Handlers \cup Plain
  /\ Nil # CtxError /\ {Nil, CtxError} \cap Funcs = {}

VARIABLES
  funcs,     \* c.funcs: registered and not yet taken, in order of addition
  owner,     \* c.once: the caller whose function Do runs or has run
  done,      \* the channel c.done is closed
  batch,     \* CloseAll's `funcs'
  started,   \* how many of them the loop has started, from the last one on
  run,       \* each function's goroutine
  errCh,     \* the buffered errors, each named by its function
  closed,    \* errCh is closed
  pc,        \* where each caller is
  result,    \* what CloseAll is to return
  expired,   \* the caller's context is done
  failures,  \* history: the functions that failed, in the order they did
  sent       \* history: all the errors sent to errCh, in their order

closing == <<owner, done, batch, started, closed>>
callers == <<pc, result, expired>>
history == <<failures, sent>>
vars == <<funcs, owner, done, batch, started, run, errCh, closed, pc, result,
          expired, failures, sent>>

Callers == Handlers \cup Plain

Init ==
  /\ funcs = <<>>
  /\ owner = Nobody /\ done = FALSE
  /\ batch = <<>> /\ started = 0
  /\ run = [f \in Funcs |-> "unknown"]
  /\ errCh = <<>> /\ closed = FALSE
  /\ pc = [c \in Callers |-> "waiting"]
  /\ result = [c \in Callers |-> Nil]
  /\ expired = [c \in Callers |-> FALSE]
  /\ failures = <<>> /\ sent = <<>>

Goto(c, l) == pc' = [pc EXCEPT ![c] = l]

-----------------------------------------------------------------------------
\* Add and AddNamed; the dependency containers call them while the service
\* runs, so possibly during and after CloseAll.
Add(f) ==
  /\ run[f] = "unknown"
  /\ run' = [run EXCEPT ![f] = "added"]
  /\ funcs' = Append(funcs, f)
  /\ UNCHANGED <<closing, errCh, callers, history>>

\* A signal comes, or App.Run ends: the caller enters CloseAll.
Call(c) ==
  /\ pc[c] = "waiting"
  /\ Goto(c, "once")
  /\ UNCHANGED <<funcs, closing, run, errCh, result, expired, history>>

\* handleSignals sees c.done before any signal.
NoSignal(h) ==
  /\ pc[h] = "waiting" /\ done
  /\ Goto(h, "returned")
  /\ UNCHANGED <<funcs, closing, run, errCh, result, expired, history>>

\* The deadline of handleSignals' context.
Expire(h) ==
  /\ pc[h] \in {"once", "start", "collect"} /\ ~expired[h]
  /\ expired' = [expired EXCEPT ![h] = TRUE]
  /\ UNCHANGED <<funcs, closing, run, errCh, pc, result, history>>

-----------------------------------------------------------------------------
(* CloseAll.                                                               *)

\* The caller's part of Do is over: done is closed and CloseAll returns.
Finish(c) ==
  /\ done' = TRUE
  /\ Goto(c, "returned")

EnterTwice(c) ==
  /\ pc[c] = "once"
  /\ \/ /\ owner = Nobody
        /\ owner' = c /\ batch' = funcs /\ funcs' = <<>>
        /\ \/ funcs # <<>> /\ Goto(c, "start") /\ UNCHANGED done
           \/ funcs = <<>> /\ Finish(c)
     \/ /\ owner # Nobody
        /\ Goto(c, "returned")
        /\ UNCHANGED <<funcs, owner, batch, done>>
  /\ UNCHANGED <<started, run, errCh, closed, result, expired, history>>

\* once.Do: the first caller takes the functions; any other one waits until
\* the first is through and returns nil.
Enter(c) ==
  /\ pc[c] = "once"
  /\ \/ /\ owner = Nobody
        /\ owner' = c /\ batch' = funcs /\ funcs' = <<>>
        /\ \/ funcs # <<>> /\ Goto(c, "start") /\ UNCHANGED done
           \/ funcs = <<>> /\ Finish(c)
     \/ /\ owner # Nobody /\ done
        /\ Goto(c, "returned")
        /\ UNCHANGED <<funcs, owner, batch, done>>
  /\ UNCHANGED <<started, run, errCh, closed, result, expired, history>>

StartEverySecond(c) ==
  LET f == batch[Len(batch) - started] IN
  /\ pc[c] = "start"
  /\ run' = [run EXCEPT ![f] = "running"]
  /\ started' = started + 2
  /\ IF started' = Len(batch) THEN Goto(c, "collect") ELSE UNCHANGED pc
  /\ UNCHANGED <<funcs, owner, done, batch, closed, errCh, result, expired,
                 history>>

\* The loop, from the last function to the first: a goroutine for each.
Start(c) ==
  LET f == batch[Len(batch) - started] IN
  /\ pc[c] = "start"
  /\ run' = [run EXCEPT ![f] = "running"]
  /\ started' = started + 1
  /\ IF started' = Len(batch) THEN Goto(c, "collect") ELSE UNCHANGED pc
  /\ UNCHANGED <<funcs, owner, done, batch, closed, errCh, result, expired,
                 history>>

\* The goroutine of f: f returns nil; or it returns an error or panics, and
\* the error goes to errCh, which is buffered.
Succeed(f) ==
  /\ run[f] = "running"
  /\ run' = [run EXCEPT ![f] = "ended"]
  /\ UNCHANGED <<funcs, closing, errCh, callers, history>>

Fail(f) ==
  /\ run[f] = "running"
  /\ run' = [run EXCEPT ![f] = "sending"]
  /\ failures' = Append(failures, f)
  /\ UNCHANGED <<funcs, closing, errCh, callers, sent>>

CapacityOne == 1

\* make(chan error, len(funcs)).
Capacity == Len(batch)

Send(f) ==
  /\ run[f] = "sending" /\ Len(errCh) < Capacity
  /\ errCh' = Append(errCh, f)
  /\ sent' = Append(sent, f)
  /\ run' = [run EXCEPT ![f] = "ended"]
  /\ UNCHANGED <<funcs, closing, callers, failures>>

CloseWithoutWaiting ==
  /\ started > 0 /\ started = Len(batch)
  /\ \E f \in ToSet(batch) : run[f] = "ended"
  /\ ~closed
  /\ closed' = TRUE
  /\ UNCHANGED <<funcs, owner, done, batch, started, run, errCh, callers,
                 history>>

\* wg.Wait and close(errCh).
CloseErrCh ==
  /\ started > 0 /\ started = Len(batch)
  /\ \A f \in ToSet(batch) : run[f] = "ended"
  /\ ~closed
  /\ closed' = TRUE
  /\ UNCHANGED <<funcs, owner, done, batch, started, run, errCh, callers,
                 history>>

KeepLast(c, err) == result' = [result EXCEPT ![c] = err]

\* if result == nil { result = err }
KeepFirst(c, err) ==
  result' = IF result[c] = Nil THEN [result EXCEPT ![c] = err] ELSE result

CollectIgnoresContext(c) ==
  /\ pc[c] = "collect"
  /\ \/ /\ errCh # <<>>
        /\ errCh' = Tail(errCh)
        /\ KeepFirst(c, Head(errCh))
        /\ UNCHANGED <<pc, done>>
     \/ /\ errCh = <<>> /\ closed
        /\ Finish(c)
        /\ UNCHANGED <<errCh, result>>
  /\ UNCHANGED <<funcs, owner, batch, started, run, closed, expired, history>>

\* The final loop: its select takes any case that is ready.
Collect(c) ==
  /\ pc[c] = "collect"
  /\ \/ /\ expired[c]
        /\ KeepFirst(c, CtxError)
        /\ Finish(c)
        /\ UNCHANGED errCh
     \/ /\ errCh # <<>>
        /\ errCh' = Tail(errCh)
        /\ KeepFirst(c, Head(errCh))
        /\ UNCHANGED <<pc, done>>
     \/ /\ errCh = <<>> /\ closed
        /\ Finish(c)
        /\ UNCHANGED <<errCh, result>>
  /\ UNCHANGED <<funcs, owner, batch, started, run, closed, expired, history>>

-----------------------------------------------------------------------------
Step(c) == Enter(c) \/ Start(c) \/ Collect(c)

Next ==
  \/ \E c \in Callers : Call(c) \/ Step(c)
  \/ \E h \in Handlers : NoSignal(h) \/ Expire(h)
  \/ \E f \in Funcs : Add(f) \/ Succeed(f) \/ Fail(f) \/ Send(f)
  \/ CloseErrCh

Spec == Init /\ [][Next]_vars

\* Goroutines go on, timers fire, and functions return unless they hang.
\* Nothing makes a signal come.
Fairness ==
  /\ \A c \in Callers : WF_vars(Step(c))
  /\ \A h \in Handlers : WF_vars(Expire(h)) /\ WF_vars(NoSignal(h))
  /\ \A f \in Funcs : WF_vars(Send(f))
  /\ \A f \in Funcs \ Hangs : WF_vars(Succeed(f) \/ Fail(f))
  /\ WF_vars(CloseErrCh)

FairSpec == Spec /\ Fairness

-----------------------------------------------------------------------------
(* Properties.                                                             *)

\* Every variable has its type.
TypeOK ==
  /\ funcs \in Seq(Funcs) /\ batch \in Seq(Funcs) /\ errCh \in Seq(Funcs)
  /\ failures \in Seq(Funcs) /\ sent \in Seq(Funcs)
  /\ owner \in Callers \cup {Nobody}
  /\ done \in BOOLEAN /\ closed \in BOOLEAN
  /\ started \in 0..Len(batch)
  /\ run \in [Funcs -> {"unknown", "added", "running", "sending", "ended"}]
  /\ pc \in [Callers -> {"waiting", "once", "start", "collect", "returned"}]
  /\ result \in [Callers -> Funcs \cup {Nil, CtxError}]
  /\ expired \in [Callers -> BOOLEAN]

\* Wait returns, and main with it, only when every function CloseAll took
\* has ended, or the time of the caller that took them was up.
WaitMeansClosed ==
  done => \/ expired[owner]
          \/ \A f \in ToSet(batch) : run[f] = "ended"

\* A CloseAll that returns nil, to whoever called it, returns after the
\* shutdown is over; to the one that closes it says that nothing failed.
NilMeansDone ==
  \A c \in Callers :
    pc[c] = "returned" /\ result[c] = Nil =>
      done /\ (c = owner => failures = <<>>)

\* What CloseAll returns to the one that closes is the first of all the errors
\* that were sent, however many came later, before or after it stopped reading;
\* nil only if there was none; and its context's error only if its time was up.
\* (The first that was sent is not always the first that arose, as the comment
\* on CloseAll has it: of two functions that fail the later one may be quicker
\* to send, and when the deadline comes the select may prefer it to an error
\* that is in the channel already.)
FirstErrorIsReturned ==
  done => \/ result[owner] = Nil /\ sent = <<>>
          \/ sent # <<>> /\ result[owner] = Head(sent)
          \/ result[owner] = CtxError /\ expired[owner]

\* A function that failed does not wait for a reader that has gone.
NobodyStaysBlocked ==
  \A f \in Funcs : run[f] = "sending" ~> run[f] = "ended"

\* Once somebody closes, Wait returns: after the timeout at the latest, and
\* without one unless a function hangs.
ShutdownEnds ==
  owner # Nobody ~> \/ done
                    \/ /\ owner \in Plain
                       /\ \E f \in Hangs : run[f] = "running"

Promise ==
  INSTANCE GracefulShutdown
    WITH phase <- IF done THEN "over" ELSE IF owner = Nobody THEN "open"
                  ELSE "closing",
         taken <- ToSet(batch),
         run <- [f \in Funcs |-> IF run[f] = "sending" THEN "running"
                                 ELSE run[f]],
         late <- owner # Nobody /\ expired[owner]

\* CloseAll, whoever calls it and however its goroutines interleave, is the
\* shutdown its callers count on: one, of all the functions there are, over
\* when they have returned or its own deadline has passed.
ImplementsShutdown == Promise!Spec
=============================================================================
