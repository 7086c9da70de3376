---------------------------- MODULE MCGeneration ----------------------------
(* Generation for TLC: two requests are enough to contend for a thread and a *)
(* permit, three candidates for a majority that the first one is not part of. *)
EXTENDS Generation
=============================================================================
