------------------------------ MODULE MCUfsAdj ------------------------------
(***************************************************************************)
(* UfsAdj on six elements: 203 partitions, every argument set.             *)
(***************************************************************************)
EXTENDS UfsAdj
=============================================================================
