------------------------------- MODULE MCIAM -------------------------------
(***************************************************************************)
(* Instances of IAM for TLC.                                               *)
(***************************************************************************)
EXTENDS IAM, TLC

\* Everything the requests are made of may be exchanged.
Symmetry == Permutations(Logins) \cup Permutations(Users) \cup
            Permutations(Sessions) \cup Permutations(Procs)
=============================================================================
