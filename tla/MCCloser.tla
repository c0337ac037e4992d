------------------------------ MODULE MCCloser ------------------------------
(***************************************************************************)
(* Instances of Closer for TLC.                                            *)
(***************************************************************************)
EXTENDS Closer, TLC
CONSTANTS f1, f2, f3, signals, appRun
=============================================================================
