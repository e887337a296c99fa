------------------------------ MODULE K8sAuth ------------------------------
(***************************************************************************)
(* Cluster-delegated authorization (crates/rspace-registry/src/k8s.rs): a  *)
(* TokenReview and a SubjectAccessReview for every request, each answered  *)
(* from a cache while its entry lives. The requests of several handler     *)
(* tasks go through the gate at once; a cache is locked for a lookup or an *)
(* insert, never across a review.                                          *)
(*                                                                         *)
(* The cluster may change its mind at any moment, so a review is answered  *)
(* by any verdict, given at any moment since it was asked. Entries count   *)
(* down the time they have left. The age of a verdict is the time since    *)
(* the cluster gave it.                                                    *)
(***************************************************************************)
EXTENDS Naturals, Sequences

CONSTANTS
    Task,          \* handler tasks
    Token,         \* Kubernetes tokens
    UserOf,        \* the user a token authenticates
    Namespace,     \* first components of repository names
    DefaultNs,     \* --auth-k8s-default-ns, or None
    Ttl,           \* cache_ttl, in ticks
    ReviewTimeout, \* the API client's timeout, in ticks
    AllowLoopback, \* --auth-allow-loopback
    None

VARIABLES
    token_cache,   \* token -> entry
    sar_cache,     \* <<user, namespace, verb>> -> entry
    gate           \* where the request of each task is, and what it has shown

authVars == <<token_cache, sar_cache, gate>>

Action == {"Pull", "Push", "Delete", "List", "Admin", "Version", "Token"}

(* Action::verb.                                                           *)
verb(action) ==
    CASE action = "Push" -> "update"
      [] action = "Delete" -> "delete"
      [] action = "List" -> "list"
      [] action = "Admin" -> "update"
      [] OTHER -> "get"

User == {UserOf[k] : k \in Token}
Verb == {"get", "update", "delete", "list"}
Key == User \X Namespace \X Verb

(* No verdict gets older than this before it has left the gate.            *)
Bound == Ttl + 2 * ReviewTimeout
Age == 0..(Bound + 1)

(* A verdict: who a token authenticates, or what access was asked for.     *)
Verdict(of) == [of : of, ok : BOOLEAN, age : Age]
Entry(of) == [of : of, ok : BOOLEAN, age : Age, left : 0..Ttl]

(* A request that waits for nothing and has shown nothing.                 *)
Shut == [at |-> "idle", action |-> None, ns |-> None, token |-> None, wait |-> 0,
         who |-> None, may |-> None]

ASSUME AuthConstants ==
    /\ Ttl \in Nat \ {0} /\ ReviewTimeout \in Nat
    /\ AllowLoopback \in BOOLEAN
    /\ DefaultNs \in Namespace \cup {None}
    /\ None \notin Token \cup Namespace \cup User \cup Action
    /\ \A of \in {User, Key} : None \notin Entry(of) \cup Verdict(of)

(* What a request is at the gate.                                          *)
Passage == [at : {"idle", "token", "reviewing", "access", "asking", "open", "shut"},
            action : Action \cup {None}, ns : Namespace \cup {None},
            token : Token \cup {None}, wait : 0..ReviewTimeout,
            who : Verdict(User) \cup {None}, may : Verdict(Key) \cup {None}]

GateType ==
    /\ token_cache \in [Token -> Entry(User) \cup {None}]
    /\ sar_cache \in [Key -> Entry(Key) \cup {None}]
    /\ gate \in [Task -> Passage]

AuthInit ==
    /\ token_cache = [k \in Token |-> None]
    /\ sar_cache = [k \in Key |-> None]
    /\ gate = [p \in Task |-> Shut]

-----------------------------------------------------------------------------
(* Caches.                                                                 *)

Live(entry) == entry # None /\ entry.left > 0

(* Seeded fault: an entry is served without a look at its expiry.          *)
Lookup_Expired(entry) == entry

(* get_cached drops an entry it finds expired.                             *)
Lookup(entry) == IF Live(entry) THEN entry ELSE None

(* put_cached: a new entry, or one in the place of another.                *)
Cached(v) == [of |-> v.of, ok |-> v.ok, age |-> v.age, left |-> Ttl]

Said(entry) == [of |-> entry.of, ok |-> entry.ok, age |-> entry.age]

-----------------------------------------------------------------------------
(* check.                                                                  *)

(* namespace_for: the first component of a name that has several.          *)
namespace_for(repo) == IF Len(repo) > 1 /\ Head(repo) \in Namespace THEN Head(repo) ELSE DefaultNs

(* The version probe and loopback clients pass, no token is a 401.         *)
check(p, action, repo, token, loopback) ==
    /\ gate[p].at = "idle"
    /\ gate' = [gate EXCEPT ![p] =
            [Shut EXCEPT !.at = IF action = "Version" \/ (AllowLoopback /\ loopback) THEN "open"
                                ELSE IF token = None THEN "shut" ELSE "token",
                         !.action = action, !.ns = namespace_for(repo), !.token = token]]
    /\ UNCHANGED <<token_cache, sar_cache>>

(* The verdict on the token of p is known: without a namespace the request *)
(* is denied, the token endpoint asks no more than this.                   *)
Authenticated(p, v) ==
    gate' = [gate EXCEPT ![p] = [@ EXCEPT
        !.at = IF ~v.ok THEN "shut"
               ELSE IF gate[p].action = "Token" THEN "open"
               ELSE IF gate[p].ns = None THEN "shut" ELSE "access",
        !.wait = 0, !.who = v]]

Authorized(p, v) ==
    gate' = [gate EXCEPT ![p] = [@ EXCEPT
        !.at = IF v.ok THEN "open" ELSE "shut", !.wait = 0, !.may = v]]

(* The cluster answers a review at some moment since it was asked.         *)
Answers(p, of) == {[of |-> of, ok |-> ok, age |-> age] : ok \in BOOLEAN, age \in 0..gate[p].wait}

(* token_review_cached: the lookup,                                        *)
token_lookup(p) ==
    LET k == gate[p].token
        hit == Lookup(token_cache[k]) IN
    /\ gate[p].at = "token"
    /\ token_cache' = [token_cache EXCEPT ![k] = hit]
    /\ IF hit = None THEN gate' = [gate EXCEPT ![p].at = "reviewing"]
                     ELSE Authenticated(p, Said(hit))
    /\ UNCHANGED sar_cache

(* and the review, whose verdict is cached, a negative one too.            *)
review_token(p) ==
    /\ gate[p].at = "reviewing"
    /\ \E v \in Answers(p, UserOf[gate[p].token]) :
        /\ token_cache' = [token_cache EXCEPT ![gate[p].token] = Cached(v)]
        /\ Authenticated(p, v)
    /\ UNCHANGED sar_cache

(* The review, and the key of the cache: group and resource are constants. *)
AccessReview(p) == <<gate[p].who.of, gate[p].ns, verb(gate[p].action)>>

(* Seeded fault: the verb is not part of the key.                          *)
sar_key_AnyVerb(p) == <<gate[p].who.of, gate[p].ns, "get">>

sar_key(p) == AccessReview(p)

(* sar_cached, in the same two parts.                                      *)
sar_lookup(p) ==
    LET hit == Lookup(sar_cache[sar_key(p)]) IN
    /\ gate[p].at = "access"
    /\ sar_cache' = [sar_cache EXCEPT ![sar_key(p)] = hit]
    /\ IF hit = None THEN gate' = [gate EXCEPT ![p].at = "asking"]
                     ELSE Authorized(p, Said(hit))
    /\ UNCHANGED token_cache

review_access(p) ==
    /\ gate[p].at = "asking"
    /\ \E v \in Answers(p, AccessReview(p)) :
        /\ sar_cache' = [sar_cache EXCEPT ![sar_key(p)] = Cached(v)]
        /\ Authorized(p, v)
    /\ UNCHANGED token_cache

(* Unreachable, an API error, or the client's timeout: 503, not cached.    *)
ReviewFails(p) ==
    /\ gate[p].at \in {"reviewing", "asking"}
    /\ gate' = [gate EXCEPT ![p] = [@ EXCEPT !.at = "shut", !.wait = 0]]
    /\ UNCHANGED <<token_cache, sar_cache>>

-----------------------------------------------------------------------------
(* Time. A review ends by its timeout, and code between two awaits takes   *)
(* none.                                                                   *)

Older(age) == IF age > Bound THEN age ELSE age + 1

(* An entry that expired is seen once: what finds it later drops it too.   *)
Aged(entry) ==
    IF ~Live(entry) THEN None
    ELSE [entry EXCEPT !.left = @ - 1, !.age = Older(@)]

(* A verdict a request has got.                                            *)
Known(v) == IF v = None THEN None ELSE [v EXCEPT !.age = Older(@)]

Waiting(p) == gate[p].at \in {"reviewing", "asking"}

Tick ==
    /\ \A p \in Task : /\ gate[p].at \notin {"token", "access"}
                       /\ Waiting(p) => gate[p].wait < ReviewTimeout
    /\ token_cache' = [k \in Token |-> Aged(token_cache[k])]
    /\ sar_cache' = [k \in Key |-> Aged(sar_cache[k])]
    /\ gate' = [p \in Task |->
            IF ~Waiting(p) THEN gate[p]
            ELSE [gate[p] EXCEPT !.wait = @ + 1, !.who = Known(@)]]

GateStep(p) ==
    \/ token_lookup(p) \/ review_token(p)
    \/ sar_lookup(p) \/ review_access(p) \/ ReviewFails(p)

-----------------------------------------------------------------------------
(* A request is let through on verdicts the cluster gave no longer ago     *)
(* than an entry lives and the reviews last (token_review_cached,          *)
(* sar_cached): the TTL bounds how long a verdict outlives its withdrawal. *)
FreshVerdicts ==
    \A p \in Task : gate[p].at = "open" =>
        /\ gate[p].who # None => gate[p].who.age < Ttl + 2 * ReviewTimeout
        /\ gate[p].may # None => gate[p].may.age < Ttl + ReviewTimeout

=============================================================================
