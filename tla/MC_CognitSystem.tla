--------------------------- MODULE MC_CognitSystem ---------------------------
(* One device with one flavour, or two, on two clusters; d's second want is
   admitted by one cluster only. *)
EXTENDS CognitClaims, TLC

CONSTANTS c1, c2, w1, w2

MCAdmits == [w \in Wants |-> IF w = w1 THEN {c1, c2} ELSE {c2}]
MCDist == [w \in Wants |-> (c1 :> 1) @@ (c2 :> 2)]
MCFlavoursOf == [c \in Clusters |-> Flavours]
MCFirstFlavour == [c \in Clusters |-> CHOOSE f \in Flavours : TRUE]
MCMaxCapacity == [c \in Clusters |-> 2]
==============================================================================
