---------------------------- MODULE MC_SchemaInit ----------------------------
(* The frontend, the optimizer and the load daemon. *)
EXTENDS SchemaInit
==============================================================================
