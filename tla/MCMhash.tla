------------------------------ MODULE MCMhash ------------------------------
(***************************************************************************)
(* Mhash for TLC, with the sizes of the code.  Key "b" shares the position *)
(* of "a" in the first table and no other; the rest have positions of      *)
(* their own.                                                              *)
(***************************************************************************)
EXTENDS Mhash

MCKey == {"a", "b", "c", "d", "e", "f", "g"}
MChash ==
  [k \in MCKey |-> CASE k = "a" -> 0 [] k = "b" -> 23 [] k = "c" -> 1
                     [] k = "d" -> 2 [] k = "e" -> 3 [] k = "f" -> 4 [] k = "g" -> 5]
MCprimeNum ==
  <<23, 29, 31, 37, 41, 43, 47, 53, 59, 61, 67, 71, 73, 79, 83, 89, 97>>
MCMaxCopies == [k \in MCKey |-> IF k = "a" THEN 4 ELSE 1]
============================================================================
