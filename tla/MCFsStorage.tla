---------------------------- MODULE MCFsStorage ----------------------------
(* FsStorage on small sets: two or three handlers, one or two contents.    *)
EXTENDS FsStorage, TLC

CONSTANTS p1, p2, p3, c1, c2, m1, m2, t1, t2, s1, s2, u1, u2

NoPayload == {}
MCPayload == {<<c1>>}
LongPayload == {<<c1, c2>>}
TwoPayloads == {<<c1>>, <<c1, c2>>}

(* v1.0 and v1.1 share the temporary file v1.tmp; v1 and v2 do not.        *)
NoStem == [t \in {} |-> s1]
OwnStem == (t1 :> s1) @@ (t2 :> s2)
SharedStem == (t1 :> s1) @@ (t2 :> s1)

Perms == Permutations(Proc) \cup Permutations(Uuid) \cup Permutations(Manifest)

=============================================================================
