-------------------------------- MODULE MCGc --------------------------------
(* Gc with two images that share a blob, on one backend or on two.         *)
EXTENDS Gc, TLC

CONSTANTS r1, r2, m1, m2, b1, b2, x1, x2, c1

SharedLayer == (m1 :> {b1}) @@ (m2 :> {b1, b2})
Single == [r \in Repo |-> x1]
Routed == [r \in Repo |-> IF r = r1 THEN x1 ELSE x2]

=============================================================================
