-------------------------- MODULE MC_EstimatedLoad --------------------------
(* Two devices, and one service for each of two flavours. *)
EXTENDS EstimatedLoad, TLC

CONSTANTS d1, d2, f1, f2, s1, s2

MCFlavourOf == s1 :> f1 @@ s2 :> f2
=============================================================================
