---------------------------- MODULE MCThreadPool ----------------------------
(***************************************************************************)
(* ThreadPool for TLC: two producers, two workers, three tasks, so that a  *)
(* notification can race with a busy and with a sleeping worker.           *)
(***************************************************************************)
EXTENDS ThreadPool

CONSTANTS p1, p2, w1, w2

MCProducer == {p1, p2}
MCWorker == {w1, w2}
=============================================================================
