------------------------------ MODULE MCQuota ------------------------------
(* Quota with two handlers, and more blobs of one byte than can be stored. *)
EXTENDS Quota, TLC

CONSTANTS p1, p2, r1, b1, b2, b3, b4, b5, v1, a1, a2

UnitSize == [b \in Blob |-> 1]
OneByte == [r \in Repo |-> 1]

Perms == Permutations(Proc) \cup Permutations(Blob)

=============================================================================
