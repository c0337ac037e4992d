--------------------------- MODULE MCServiceLife ---------------------------
(* ServiceLife with every service of the marketplace.                       *)
EXTENDS ServiceLife

MCServices ==
  {"order", "inventory", "payment", "iam", "assembly", "notification"}
=============================================================================
