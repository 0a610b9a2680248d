------------------------------ MODULE MCPipeline ------------------------------
(***************************************************************************)
(* Instances of Pipeline for TLC.                                          *)
(***************************************************************************)
EXTENDS Pipeline

CONSTANTS s1, e1, e2, w1

(* All records belong to one site. *)
OneSite == [id \in Ids |-> s1]
=============================================================================
