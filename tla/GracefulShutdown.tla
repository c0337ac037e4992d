-------------------------- MODULE GracefulShutdown --------------------------
(***************************************************************************)
(* What platform/pkg/closer promises a service: functions are registered   *)
(* at any time; the first shutdown takes those registered by then and runs *)
(* them, all at once; it is over when all have returned, or at its         *)
(* deadline, if its caller gave it one.                                    *)
(***************************************************************************)
CONSTANT Funcs

VARIABLES phase,  \* "open", "closing", "over"
          taken,  \* the functions the shutdown took
          run,    \* each function: "unknown", "added", "running", "ended"
          late    \* the deadline has passed

shutdown == <<phase, taken, run, late>>

Init ==
  /\ phase = "open" /\ taken = {} /\ late = FALSE
  /\ run = [f \in Funcs |-> "unknown"]

Register(f) ==
  /\ run[f] = "unknown"
  /\ run' = [run EXCEPT ![f] = "added"]
  /\ UNCHANGED <<phase, taken, late>>

\* The caller may have waited for its turn until past its deadline.
Begin ==
  /\ phase = "open"
  /\ taken' = {f \in Funcs : run[f] = "added"}
  /\ phase' = IF taken' = {} THEN "over" ELSE "closing"
  /\ late' \in BOOLEAN
  /\ UNCHANGED run

Start(f) ==
  /\ phase = "closing" /\ f \in taken /\ run[f] = "added"
  /\ run' = [run EXCEPT ![f] = "running"]
  /\ UNCHANGED <<phase, taken, late>>

\* A function may return long after the shutdown was over.
Return(f) ==
  /\ run[f] = "running"
  /\ run' = [run EXCEPT ![f] = "ended"]
  /\ UNCHANGED <<phase, taken, late>>

Expire ==
  /\ phase = "closing" /\ ~late
  /\ late' = TRUE
  /\ UNCHANGED <<phase, taken, run>>

End ==
  /\ phase = "closing"
  /\ \A f \in taken : run[f] # "added"
  /\ late \/ \A f \in taken : run[f] = "ended"
  /\ phase' = "over"
  /\ UNCHANGED <<taken, run, late>>

Next ==
  \/ \E f \in Funcs : Register(f) \/ Start(f) \/ Return(f)
  \/ Begin \/ Expire \/ End

Spec == Init /\ [][Next]_shutdown
=============================================================================
