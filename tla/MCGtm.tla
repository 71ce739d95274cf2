------------------------------- MODULE MCGtm -------------------------------
(***************************************************************************)
(* Instances of Gtm for TLC: one transaction type of two services, one of  *)
(* three, one of a single service and one whose name is not in             *)
(* transactions.ini.                                                       *)
(***************************************************************************)
EXTENDS Gtm

CONSTANTS s1, s2, s3

MCServer == {s1, s2, s3}
MCTransType == {"buy", "move", "view", "unknown"}
MCtransInfo ==
  [type \in MCTransType |->
     CASE type = "buy"     -> {s1, s2}
       [] type = "move"    -> {s1, s2, s3}
       [] type = "view"    -> {s1}
       [] type = "unknown" -> {}]
============================================================================
