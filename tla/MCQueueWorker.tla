---------------------------- MODULE MCQueueWorker ----------------------------
(***************************************************************************)
(* Instances of QueueWorker for TLC.                                       *)
(***************************************************************************)
EXTENDS QueueWorker

CONSTANTS s1, s2, e1, e2, bad, w1, w2

(* Record e2 belongs to site s2, the others to site s1. *)
TwoSites == [id \in Ids |-> IF id = e2 THEN s2 ELSE s1]
=============================================================================
