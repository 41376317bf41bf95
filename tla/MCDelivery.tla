----------------------------- MODULE MCDelivery -----------------------------
(* Small instances of Delivery. *)
EXTENDS Delivery, TLC

Symmetric == Permutations(Msg) \cup Permutations(Dlr) \cup Permutations(Retry)

=============================================================================
