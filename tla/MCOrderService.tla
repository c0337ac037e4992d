--------------------------- MODULE MCOrderService ---------------------------
(***************************************************************************)
(* The instances of OrderService that TLC explores.  Orders, transactions  *)
(* and clients are interchangeable, which the invariant runs use.          *)
(***************************************************************************)
EXTENDS OrderService, TLC

Symmetry == Permutations(Orders) \cup Permutations(Txs) \cup
            Permutations(Clients)
=============================================================================
