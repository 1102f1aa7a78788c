--------------------------- MODULE MCSampleWallet ---------------------------
(* Small instances of SampleWallet for TLC.                                *)
EXTENDS SampleWalletOutcomes

CONSTANTS w1, w2, i1, i2

OneWorkflow  == {w1}
TwoWorkflows == {w1, w2}
TwoInvestors == {i1, i2}
OwnInvestor  == [w \in Workflows |-> IF w = w1 THEN i1 ELSE i2]


=============================================================================
