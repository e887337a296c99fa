------------------------------ MODULE MCMigrate ------------------------------
(* Migrate with one repository in the class and at most one beside it.     *)
EXTENDS Migrate, TLC

CONSTANTS r1, r2, t1, m1, m2, b1, b2, v1, v2, c1, c2

SharedLayer == (m1 :> {b1}) @@ (m2 :> {b1, b2})

=============================================================================
