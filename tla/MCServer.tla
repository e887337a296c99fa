------------------------------ MODULE MCServer ------------------------------
(* Server with a populated disk, two roots and two namespaces.             *)
EXTENDS Server, TLC

CONSTANTS h1, h2, k1, t1, t2, t3, m1, m2, b1, c1, u1, d1, d2

X == <<"a", "x">>
Y == <<"b", "y", "blobs">>
Z == <<"b", "tags", "z">>
B == <<"b">>

MCRepo == {X, Y, Z, B}
MCUser == k1 :> "u"
MCSubject == (m1 :> None) @@ (m2 :> m1)
MCContent == b1 :> <<c1>>
(* t3 sorts first and is read back as a name behind the others, as %7E is. *)
MCRank == (X :> 1) @@ (B :> 2) @@ (Z :> 3) @@ (Y :> 4)
          @@ (t3 :> 1) @@ (t1 :> 2) @@ (t2 :> 3) @@ (m1 :> 1) @@ (m2 :> 2)
MCDecoded == (t3 :> 4) @@ MCRank
MCMatches == ("*" :> MCRepo) @@ ("b/*" :> {Y, Z})
MCLength == ("*" :> 1) @@ ("b/*" :> 3)
MCRules == <<[pattern |-> "*", root |-> d1]>>

Disk == [blobs |-> (d1 :> {b1}) @@ (d2 :> {}),
         docs |-> (d1 :> {<<X, m1, m1>>, <<X, m2, m2>>}) @@ (d2 :> {}),
         tags |-> (d1 :> {<<X, t1, m1>>, <<X, t2, m1>>}) @@ (d2 :> {}),
         known |-> (d1 :> {X}) @@ (d2 :> {Y, Z})]
MCDisks == {Disk}

R(method, path, q, body) ==
    [method |-> method, path |-> path, q |-> q, body |-> body, token |-> k1, loopback |-> FALSE]
Of(repo, rest) == <<"v2">> \o repo \o rest
NoQ == [none |-> None]

Manifests == {
    R("PUT", Of(X, <<"manifests", t3>>), NoQ, m2),
    R("PUT", Of(Y, <<"manifests", m2>>), NoQ, m1),
    R("DELETE", Of(X, <<"manifests", t2>>), NoQ, <<>>),
    R("DELETE", Of(X, <<"manifests", m2>>), NoQ, <<>>)}

Lists == {
    R("GET", <<"v2", "_catalog">>, [n |-> 2], <<>>),
    R("GET", Of(X, <<"tags", "list">>), [n |-> 1], <<>>),
    R("GET", Of(Y, <<"tags", "list">>), NoQ, <<>>),
    R("GET", Of(X, <<"referrers", m1>>), NoQ, <<>>)}

Uploads == {
    R("POST", Of(Y, <<"blobs", "uploads", "">>), [mount |-> b1, from |-> X], <<>>),
    R("POST", Of(Y, <<"blobs", "uploads">>), [mount |-> b1], <<>>),
    R("POST", Of(X, <<"blobs", "uploads">>), NoQ, <<>>),
    R("POST", Of(X, <<"blobs", "uploads">>), [digest |-> b1], <<c1>>),
    R("POST", Of(X, <<"blobs", "uploads">>), [digest |-> b1], <<>>),
    R("PATCH", Of(X, <<"blobs", "uploads", u1>>), NoQ, <<c1>>),
    R("PUT", Of(X, <<"blobs", "uploads", u1>>), [digest |-> b1], <<c1>>),
    R("PUT", Of(X, <<"blobs", "uploads", u1>>), [digest |-> b1], <<>>),
    R("DELETE", Of(X, <<"blobs", "uploads", u1>>), NoQ, <<>>),
    R("DELETE", Of(X, <<"blobs", b1>>), NoQ, <<>>)}

Reroute == {
    R("POST", <<"admin", "repo-root">>, NoQ, [pattern |-> "b/*", root |-> d2]),
    R("POST", <<"admin", "repo-root">>, NoQ, [pattern |-> "*", root |-> d2])}

(* What goes through the gate: every verb, two namespaces, and what is     *)
(* answered without one.                                                   *)
Gated == {
    R("PUT", Of(X, <<"manifests", t1>>), NoQ, m1),
    R("DELETE", Of(X, <<"manifests", t2>>), NoQ, <<>>),
    R("POST", Of(Y, <<"blobs", "uploads", "">>), [digest |-> b1], <<c1>>),
    R("GET", Of(X, <<"tags", "list">>), [n |-> 1], <<>>),
    R("HEAD", Of(Y, <<"blobs", b1>>), NoQ, <<>>),
    R("GET", Of(Y, <<"manifests", t1>>), NoQ, <<>>),
    R("GET", Of(X, <<"blobs", "uploads", u1>>), NoQ, <<>>),
    R("GET", <<"admin", "repo-roots">>, NoQ, <<>>),
    [R("DELETE", Of(Y, <<"blobs", b1>>), NoQ, <<>>) EXCEPT !.loopback = TRUE],
    R("GET", <<"token">>, NoQ, <<>>)}

Plain == {
    R("POST", Of(X, <<"manifests", t1>>), NoQ, m1),
    R("GET", Of(X, <<"tags", "list">>), [n |-> 1], <<>>),
    R("GET", <<"v2", "">>, NoQ, <<>>),
    R("HEAD", Of(X, <<"manifests", t1>>), NoQ, <<>>),
    [R("DELETE", Of(X, <<"blobs", b1>>), NoQ, <<>>) EXCEPT !.token = None]}

MCRequest == ("none" :> Manifests \cup Lists \cup Uploads \cup Reroute)
             @@ ("htpasswd" :> Plain) @@ ("k8s" :> Gated)

Symmetry == Permutations({h1, h2})
MCMaxRequests == ("none" :> 3) @@ ("htpasswd" :> 2) @@ ("k8s" :> 2)

=============================================================================
