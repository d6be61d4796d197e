---------------------------- MODULE MCOrderStore ----------------------------
(* Values for the constants of OrderStore, for TLC. *)
EXTENDS OrderStore, TLC

CONSTANTS light, heavy

MCProduct == {light, heavy}
MCWeight  == light :> 1 @@ heavy :> 2

Line(p, n) == [product |-> p, quantity |-> n]

\* A single order; one of each product; a product listed twice (the later line
\* counts) beside a line without quantity; nothing to buy.
SingleCart == <<Line(light, 1)>>
MixedCart  == <<Line(light, 1), Line(heavy, 1)>>
RepeatCart == <<Line(light, 2), Line(heavy, 0), Line(light, 1)>>
EmptyCart  == <<Line(light, 0)>>

OnlySingle  == {SingleCart}
FilledCarts == {MixedCart, RepeatCart}
LightCarts  == {RepeatCart, EmptyCart}

RequestSymmetry == Permutations(CreateReq) \cup Permutations(PlanReq)
                     \cup Permutations(PatchReq)
=============================================================================
