--------------------------- MODULE MCProviderSync ---------------------------
(* Two requests for one connection, on one worker or on two.               *)
EXTENDS ProviderSync, TLC

CONSTANTS r1, r2, w1, w2

OneOrTwoWorkers == {r1 :> w1 @@ r2 :> w1, r1 :> w1 @@ r2 :> w2}
=============================================================================
