--------------------------- MODULE MCDeliveryLoad ---------------------------
(* Values for the constants of DeliveryLoad, for TLC. *)
EXTENDS DeliveryLoad, TLC

CONSTANTS MaxLen, Weights, Values

\* Every list of at most MaxLen orders with these weights and values.
MCInput == UNION {[1 .. len -> [weight : Weights, value : Values]] :
                    len \in 0 .. MaxLen}
=============================================================================
