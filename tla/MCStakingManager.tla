-------------------------- MODULE MCStakingManager --------------------------
(***************************************************************************)
(* StakingManager with a stake that is just enough, one that is not, and a *)
(* delegation that takes stake away.                                       *)
(***************************************************************************)
EXTENDS StakingManager

MCAmounts == {-60, 40, 100}

=============================================================================
