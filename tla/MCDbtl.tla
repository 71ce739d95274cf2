------------------------------- MODULE MCDbtl -------------------------------
(***************************************************************************)
(* Instances of Dbtl for TLC.                                              *)
(***************************************************************************)
EXTENDS Dbtl

MCTxid == {1, 2}
MCInitLsn == {-1}
=============================================================================
