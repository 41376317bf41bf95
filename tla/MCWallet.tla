------------------------------ MODULE MCWallet ------------------------------
(* Small instances of Wallet: two plans of the catalogue with a dearer PAYG *)
(* rate, and fewer subscription credits than a message costs, so that       *)
(* charges mix the two buckets and a plan can be granted more than once     *)
(* within the bound, over a bucket that is full, used up or half used.      *)
EXTENDS Wallet

MCPlan == {"payg", "starter"}
MCSmsRate == [p \in MCPlan |-> IF p = "payg" THEN 4 ELSE 3]
MCMonthlyPrice == [p \in MCPlan |-> IF p = "payg" THEN 0 ELSE 2]
MCMonthlyCredits == [p \in MCPlan |-> IF p = "payg" THEN 0 ELSE 2]
MCParts == [m \in Msg |-> 1]

=============================================================================
