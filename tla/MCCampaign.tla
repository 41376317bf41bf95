----------------------------- MODULE MCCampaign -----------------------------
(* Small instances of Campaign. *)
EXTENDS Campaign, TLC

Symmetric ==
  UNION {Permutations(set) : set \in {Msg, Session, Batch, Request}}

=============================================================================
