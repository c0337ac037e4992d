-------------------------- MODULE SessionAuthority --------------------------
(***************************************************************************)
(* What those who ask IAM about a session may count on, without accounts,  *)
(* stores and concurrent commands.  A session lives once.  Whether it does *)
(* is decided in one moment between question and answer: it is vouched for *)
(* only if it is alive in that moment, and refused only if it has ended,   *)
(* or was none.  Any question may also end in an error.                    *)
(***************************************************************************)
CONSTANTS Sessions, NoSession,
          Askers    \* those who ask, one question at a time each

VARIABLES
  alive, ended,  \* the sessions that may be used, and that never will be again
  phase,         \* of each asker: "idle", "asked", "vouched", "refused"
  about          \* the session an asker asks about or was vouched for

vars == <<alive, ended, phase, about>>

\* Sessions may have been granted before.
Init ==
  /\ alive \subseteq Sessions /\ ended = {}
  /\ phase = [a \in Askers |-> "idle"]
  /\ about = [a \in Askers |-> NoSession]

Grant(s) ==
  /\ s \notin alive \cup ended
  /\ alive' = alive \cup {s}
  /\ UNCHANGED <<ended, phase, about>>

End(s) ==
  /\ s \in alive
  /\ alive' = alive \ {s} /\ ended' = ended \cup {s}
  /\ UNCHANGED <<phase, about>>

\* Only what was granted can be shown, or nothing that ever will be.
Ask(a, s) ==
  /\ phase[a] # "asked"
  /\ s \in alive \cup ended \cup {NoSession}
  /\ phase' = [phase EXCEPT ![a] = "asked"]
  /\ about' = [about EXCEPT ![a] = s]
  /\ UNCHANGED <<alive, ended>>

Vouch(a) ==
  /\ phase[a] = "asked" /\ about[a] \in alive
  /\ phase' = [phase EXCEPT ![a] = "vouched"]
  /\ UNCHANGED <<alive, ended, about>>

Refuse(a) ==
  /\ phase[a] = "asked" /\ about[a] \in ended \cup {NoSession}
  /\ phase' = [phase EXCEPT ![a] = "refused"]
  /\ about' = [about EXCEPT ![a] = NoSession]
  /\ UNCHANGED <<alive, ended>>

\* An error, before or after the decision, or the asker goes on to other work.
Forget(a) ==
  /\ phase[a] # "idle"
  /\ phase' = [phase EXCEPT ![a] = "idle"]
  /\ about' = [about EXCEPT ![a] = NoSession]
  /\ UNCHANGED <<alive, ended>>

ForgetAll ==
  /\ phase' = [a \in Askers |-> "idle"]
  /\ about' = [a \in Askers |-> NoSession]
  /\ UNCHANGED <<alive, ended>>

Next ==
  \/ \E s \in Sessions : Grant(s) \/ End(s)
  \/ \E a \in Askers : \/ \E s \in Sessions \cup {NoSession} : Ask(a, s)
                       \/ Vouch(a) \/ Refuse(a) \/ Forget(a)
  \/ ForgetAll

Spec == Init /\ [][Next]_vars
=============================================================================
