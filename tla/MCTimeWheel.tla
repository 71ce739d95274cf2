---------------------------- MODULE MCTimeWheel ----------------------------
(***************************************************************************)
(* TimeWheel for TLC: three slots, and timeouts of less than, exactly and  *)
(* more than one turn.  An int has eight values and overflows during the   *)
(* run, whether the clock starts at 0 or shortly before the overflow.      *)
(***************************************************************************)
EXTENDS TimeWheel, TLC

CONSTANTS t1, t2

MCTimer == {t1, t2}
MCBoot == {0, 3}
MCSymmetry == Permutations(MCTimer)
============================================================================
