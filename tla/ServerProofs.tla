---------------------------- MODULE ServerProofs ----------------------------
(***************************************************************************)
(* The server lets a request through on fresh verdicts of its own user,    *)
(* namespace and verb, keeps what it acknowledged, and lists what is       *)
(* there, for any number of handler tasks, tokens, repositories, roots,    *)
(* rules and requests.                                                     *)
(***************************************************************************)
EXTENDS Server, SequenceTheorems, FiniteSetTheorems, WellFoundedInduction, TLAPS

-----------------------------------------------------------------------------
(* Caches.                                                                 *)

(* What an entry says is of its key, and it expires before it gets old.    *)
EntryOK(e, of) == e # None => e.of = of /\ e.age + e.left <= Ttl + ReviewTimeout

EntriesOK ==
    /\ \A k \in Token : EntryOK(token_cache[k], UserOf[k])
    /\ \A k \in Key : EntryOK(sar_cache[k], k)

LEMMA VerbType == \A action : verb(action) \in Verb
BY DEF verb, Verb

(* A hit is of the key looked up, and not older than an entry may be; a    *)
(* miss leaves no entry.                                                   *)
LEMMA LookupOK ==
    ASSUME NEW S \in {User, Key}, NEW k, NEW e \in Entry(S) \cup {None}, EntryOK(e, k)
    PROVE  /\ Lookup(e) \in Entry(S) \cup {None} /\ EntryOK(Lookup(e), k)
           /\ Lookup(e) # None => /\ Said(Lookup(e)) \in Verdict(S) /\ Said(Lookup(e)).of = k
                                  /\ Said(Lookup(e)).age < Ttl + ReviewTimeout
<1> USE AuthConstants DEF Entry, Verdict, Age, Bound
<1>1. CASE Live(e)  BY <1>1 DEF Live, Lookup, Said, EntryOK
<1>2. CASE ~Live(e)  BY <1>2 DEF Lookup, EntryOK
<1> QED BY <1>1, <1>2

(* A verdict goes into the cache with all of its time to live.             *)
LEMMA CachedOK ==
    ASSUME NEW S, NEW v \in Verdict(S), v.age <= ReviewTimeout
    PROVE  Cached(v) \in Entry(S) \cup {None} /\ EntryOK(Cached(v), v.of)
BY AuthConstants DEF Entry, Verdict, Age, Bound, Cached, EntryOK

LEMMA AgedOK ==
    ASSUME NEW S, NEW k, NEW e \in Entry(S) \cup {None}, EntryOK(e, k)
    PROVE  Aged(e) \in Entry(S) \cup {None} /\ EntryOK(Aged(e), k)
<1>1. CASE Live(e)
  <2>1. e \in Entry(S) /\ e.left > 0 /\ e.of = k /\ e.age + e.left <= Ttl + ReviewTimeout
        BY <1>1 DEF Live, EntryOK
  <2>2. e.age < Bound /\ e.age \in Nat /\ e.left \in 1..Ttl
        BY <2>1, AuthConstants DEF Entry, Age, Bound
  <2>3. e.age + 1 \in Age /\ e.left - 1 \in 0..Ttl /\ Older(e.age) = e.age + 1
        BY <2>2, AuthConstants DEF Age, Bound, Older
  <2>4. Aged(e) = [e EXCEPT !.left = e.left - 1, !.age = e.age + 1]  BY <1>1, <2>3 DEF Aged
  <2>5. Aged(e) \in Entry(S)  BY <2>1, <2>3, <2>4 DEF Entry
  <2>6. Aged(e).of = k /\ Aged(e).age = e.age + 1 /\ Aged(e).left = e.left - 1
        BY <2>1, <2>4 DEF Entry
  <2> QED BY <2>1, <2>2, <2>5, <2>6, AuthConstants DEF EntryOK
<1>2. CASE ~Live(e)  BY <1>2 DEF Aged, EntryOK
<1> QED BY <1>1, <1>2

-----------------------------------------------------------------------------
(* Requests at the gate.                                                   *)

(* What a request has shown so far is of its own token, namespace and      *)
(* verb, and has aged by what the request has waited since.                *)
ShownOK(g) ==
    /\ g.at \in {"token", "reviewing", "access", "asking"} =>
        g.token \in Token /\ g.action \in Action /\ g.may = None
    /\ g.at \in {"token", "reviewing"} => g.who = None
    /\ g.at \in {"access", "asking"} =>
        /\ g.ns # None /\ g.who # None /\ g.who.of = UserOf[g.token]
        /\ g.who.age < Ttl + ReviewTimeout + g.wait
    /\ g.at = "access" => g.wait = 0
    /\ g.at = "open" =>
        /\ g.who # None => g.who.age < Ttl + 2 * ReviewTimeout
        /\ g.may # None => /\ g.may.ok /\ g.may.age < Ttl + ReviewTimeout
                           /\ g.may.of = <<UserOf[g.token], g.ns, verb(g.action)>>

GateInv == GateType /\ EntriesOK /\ \A p \in Task : ShownOK(gate[p])

LEMMA ZeroWait == 0 \in 0..ReviewTimeout
BY AuthConstants

(* Only the request of p is somewhere else.                                *)
LEMMA GateOf ==
    ASSUME GateInv, NEW p \in Task, NEW g \in Passage, ShownOK(g), gate' = [gate EXCEPT ![p] = g]
    PROVE  gate' \in [Task -> Passage] /\ \A q \in Task : ShownOK(gate'[q])
BY DEF GateInv, GateType

LEMMA AuthenticatedOK ==
    ASSUME GateInv, NEW p \in Task, gate[p].at \in {"token", "reviewing"},
           NEW v \in Verdict(User), v.of = UserOf[gate[p].token], v.age < Ttl + ReviewTimeout,
           Authenticated(p, v)
    PROVE  gate' \in [Task -> Passage] /\ \A q \in Task : ShownOK(gate'[q])
<1> DEFINE g == [gate[p] EXCEPT
        !.at = IF ~v.ok THEN "shut"
               ELSE IF gate[p].action = "Token" THEN "open"
               ELSE IF gate[p].ns = None THEN "shut" ELSE "access",
        !.wait = 0, !.who = v]
<1>1. gate[p] \in Passage /\ ShownOK(gate[p])  BY DEF GateInv, GateType
<1>2. g \in Passage  BY <1>1, ZeroWait, ZenonT(40) DEF Passage
<1>3. ShownOK(g)  BY <1>1, <1>2, AuthConstants DEF ShownOK, Passage, Verdict, Age, Bound
<1>4. gate' = [gate EXCEPT ![p] = g]  BY DEF Authenticated
<1> HIDE DEF g
<1> QED BY <1>2, <1>3, <1>4, GateOf

LEMMA AuthorizedOK ==
    ASSUME GateInv, NEW p \in Task, gate[p].at \in {"access", "asking"},
           NEW v \in Verdict(Key), v.of = AccessReview(p), v.age < Ttl + ReviewTimeout,
           Authorized(p, v)
    PROVE  gate' \in [Task -> Passage] /\ \A q \in Task : ShownOK(gate'[q])
<1> DEFINE g == [gate[p] EXCEPT !.at = IF v.ok THEN "open" ELSE "shut", !.wait = 0, !.may = v]
<1>1. gate[p] \in Passage /\ ShownOK(gate[p])  BY DEF GateInv, GateType
<1>2. g \in Passage  BY <1>1, ZeroWait DEF Passage
<1>3. v.of = <<UserOf[gate[p].token], gate[p].ns, verb(gate[p].action)>>
      BY <1>1 DEF AccessReview, ShownOK
<1>4. g.at \in {"open", "shut"} /\ g.token = gate[p].token /\ g.ns = gate[p].ns
      /\ g.action = gate[p].action /\ g.may = v /\ g.who = gate[p].who /\ (g.at = "open" => v.ok)
      BY <1>1 DEF Passage
<1>5. gate[p].who.age < Ttl + 2 * ReviewTimeout
      BY <1>1, AuthConstants DEF ShownOK, Passage, Verdict, Age, Bound
<1>6. gate' = [gate EXCEPT ![p] = g]  BY DEF Authorized
<1> HIDE DEF g
<1>7. ShownOK(g)  BY <1>3, <1>4, <1>5 DEF ShownOK
<1> QED BY <1>2, <1>6, <1>7, GateOf

(* What is reviewed is a key of the cache.                                 *)
LEMMA ReviewKey ==
    ASSUME GateInv, NEW p \in Task, gate[p].at \in {"access", "asking"}
    PROVE  AccessReview(p) \in Key
<1>1. gate[p] \in Passage /\ ShownOK(gate[p])  BY DEF GateInv, GateType
<1>2. gate[p].who \in Verdict(User) /\ gate[p].ns \in Namespace  BY <1>1 DEF Passage, ShownOK
<1>3. gate[p].who.of \in User  BY <1>2 DEF Verdict
<1> QED BY <1>2, <1>3, VerbType DEF AccessReview, Key

LEMMA GateStepOK == ASSUME GateInv, NEW p \in Task, GateStep(p) PROVE GateInv'
<1>0. gate[p] \in Passage /\ ShownOK(gate[p])  BY DEF GateInv, GateType
<1>a. ASSUME gate[p].at \in {"token", "reviewing"}
      PROVE  gate[p].token \in Token /\ UserOf[gate[p].token] \in User
      BY <1>0, <1>a DEF ShownOK, User
<1>1. CASE token_lookup(p)
  <2> DEFINE k == gate[p].token
             hit == Lookup(token_cache[k])
  <2>1. gate[p].at = "token" /\ k \in Token  BY <1>1, <1>a DEF token_lookup
  <2>2. /\ hit \in Entry(User) \cup {None} /\ EntryOK(hit, UserOf[k])
        /\ hit # None => /\ Said(hit) \in Verdict(User) /\ Said(hit).of = UserOf[k]
                         /\ Said(hit).age < Ttl + ReviewTimeout
        BY <2>1, LookupOK DEF GateInv, GateType, EntriesOK
  <2>3. token_cache' = [token_cache EXCEPT ![k] = hit] /\ UNCHANGED sar_cache
        BY <1>1 DEF token_lookup
  <2>4. gate' \in [Task -> Passage] /\ \A q \in Task : ShownOK(gate'[q])
    <3>1. CASE hit = None
      <4> DEFINE g == [gate[p] EXCEPT !.at = "reviewing"]
      <4>1. g \in Passage  BY <1>0 DEF Passage
      <4>2. ShownOK(g)  BY <1>0, <2>1 DEF ShownOK, Passage
      <4>3. gate' = [gate EXCEPT ![p] = g]  BY <1>1, <3>1 DEF token_lookup
      <4> QED BY <4>1, <4>2, <4>3, GateOf
    <3>2. CASE hit # None
      <4>1. Authenticated(p, Said(hit))  BY <1>1, <3>2 DEF token_lookup
      <4> HIDE DEF hit
      <4> QED BY <2>1, <2>2, <3>2, <4>1, AuthenticatedOK
    <3> QED BY <3>1, <3>2
  <2> HIDE DEF hit
  <2> QED BY <2>1, <2>2, <2>3, <2>4 DEF GateInv, GateType, EntriesOK
<1>2. CASE review_token(p)
  <2> DEFINE k == gate[p].token
  <2>1. gate[p].at = "reviewing" /\ k \in Token /\ UserOf[k] \in User  BY <1>2, <1>a DEF review_token
  <2>2. PICK v \in Answers(p, UserOf[k]) :
            token_cache' = [token_cache EXCEPT ![k] = Cached(v)] /\ Authenticated(p, v)
        BY <1>2 DEF review_token
  <2>3. v \in Verdict(User) /\ v.of = UserOf[k] /\ v.age <= ReviewTimeout
        BY <1>0, <2>1, AuthConstants DEF Answers, Verdict, Age, Bound, Passage
  <2>4. v.age < Ttl + ReviewTimeout  BY <2>3, AuthConstants DEF Verdict, Age, Bound
  <2>5. gate' \in [Task -> Passage] /\ \A q \in Task : ShownOK(gate'[q])
        BY <2>1, <2>2, <2>3, <2>4, AuthenticatedOK
  <2>6. Cached(v) \in Entry(User) \cup {None} /\ EntryOK(Cached(v), UserOf[k])
        BY <2>3, CachedOK
  <2> QED BY <1>2, <2>1, <2>2, <2>5, <2>6 DEF review_token, GateInv, GateType, EntriesOK
<1>3. CASE sar_lookup(p)
  <2> DEFINE k == AccessReview(p)
             hit == Lookup(sar_cache[k])
  <2>1. gate[p].at = "access" /\ k \in Key  BY <1>3, ReviewKey DEF sar_lookup
  <2>2. /\ hit \in Entry(Key) \cup {None} /\ EntryOK(hit, k)
        /\ hit # None => /\ Said(hit) \in Verdict(Key) /\ Said(hit).of = k
                         /\ Said(hit).age < Ttl + ReviewTimeout
        BY <2>1, LookupOK DEF GateInv, GateType, EntriesOK
  <2>3. sar_cache' = [sar_cache EXCEPT ![k] = hit] /\ UNCHANGED token_cache
        BY <1>3 DEF sar_lookup, sar_key
  <2>4. gate' \in [Task -> Passage] /\ \A q \in Task : ShownOK(gate'[q])
    <3>1. CASE hit = None
      <4> DEFINE g == [gate[p] EXCEPT !.at = "asking"]
      <4>1. g \in Passage  BY <1>0 DEF Passage
      <4>2. ShownOK(g)  BY <1>0, <2>1 DEF ShownOK, Passage
      <4>3. gate' = [gate EXCEPT ![p] = g]  BY <1>3, <3>1 DEF sar_lookup, sar_key
      <4> QED BY <4>1, <4>2, <4>3, GateOf
    <3>2. CASE hit # None
      <4>1. Authorized(p, Said(hit))  BY <1>3, <3>2 DEF sar_lookup, sar_key
      <4> HIDE DEF hit
      <4> QED BY <2>1, <2>2, <3>2, <4>1, AuthorizedOK
    <3> QED BY <3>1, <3>2
  <2> HIDE DEF hit, k
  <2> QED BY <2>1, <2>2, <2>3, <2>4 DEF GateInv, GateType, EntriesOK
<1>4. CASE review_access(p)
  <2> DEFINE k == AccessReview(p)
  <2>1. gate[p].at = "asking" /\ k \in Key  BY <1>4, ReviewKey DEF review_access
  <2>2. PICK v \in Answers(p, k) :
            sar_cache' = [sar_cache EXCEPT ![k] = Cached(v)] /\ Authorized(p, v)
        BY <1>4 DEF review_access, sar_key
  <2>3. v \in Verdict(Key) /\ v.of = k /\ v.age <= ReviewTimeout
    <3> HIDE DEF k
    <3> QED BY <1>0, <2>1, <2>2, AuthConstants DEF Answers, Verdict, Age, Bound, Passage
  <2>4. v.age < Ttl + ReviewTimeout  BY <2>3, AuthConstants DEF Verdict, Age, Bound
  <2>5. gate' \in [Task -> Passage] /\ \A q \in Task : ShownOK(gate'[q])
        BY <2>1, <2>2, <2>3, <2>4, AuthorizedOK
  <2>6. Cached(v) \in Entry(Key) \cup {None} /\ EntryOK(Cached(v), k)
        BY <2>3, CachedOK
  <2> HIDE DEF k
  <2> QED BY <1>4, <2>1, <2>2, <2>5, <2>6 DEF review_access, GateInv, GateType, EntriesOK
<1>5. CASE ReviewFails(p)
  <2> DEFINE g == [gate[p] EXCEPT !.at = "shut", !.wait = 0]
  <2>1. g \in Passage  BY <1>0, ZeroWait DEF Passage
  <2>2. ShownOK(g)  BY <1>0 DEF ShownOK, Passage
  <2>3. gate' = [gate EXCEPT ![p] = g]  BY <1>5 DEF ReviewFails
  <2>4. gate' \in [Task -> Passage] /\ \A q \in Task : ShownOK(gate'[q])
        BY <2>1, <2>2, <2>3, GateOf
  <2> QED BY <1>5, <2>4 DEF ReviewFails, GateInv, GateType, EntriesOK
<1> QED BY <1>1, <1>2, <1>3, <1>4, <1>5 DEF GateStep

(* Time passes.                                                            *)
LEMMA TickOK == GateInv /\ Tick => GateInv'
<1> SUFFICES ASSUME GateInv, Tick PROVE GateInv'  OBVIOUS
<1>1. token_cache' \in [Token -> Entry(User) \cup {None}]
      /\ \A k \in Token : EntryOK(token_cache'[k], UserOf[k])
      BY AgedOK DEF Tick, GateInv, GateType, EntriesOK
<1>2. sar_cache' \in [Key -> Entry(Key) \cup {None}] /\ \A k \in Key : EntryOK(sar_cache'[k], k)
      BY AgedOK DEF Tick, GateInv, GateType, EntriesOK
<1>3. ASSUME NEW p \in Task PROVE gate'[p] \in Passage /\ ShownOK(gate'[p])
  <2>1. gate[p] \in Passage /\ ShownOK(gate[p])  BY DEF GateInv, GateType
  <2>2. CASE ~Waiting(p)  BY <2>1, <2>2 DEF Tick
  <2>3. CASE Waiting(p)
    <3> DEFINE who == Known(gate[p].who)
    <3>1. gate'[p] = [gate[p] EXCEPT !.wait = gate[p].wait + 1, !.who = who]
          BY <2>1, <2>3 DEF Tick, Passage
    <3>2. gate[p].wait < ReviewTimeout  BY <2>3 DEF Tick
    <3>3. /\ who \in Verdict(User) \cup {None}
          /\ gate[p].who = None => who = None
          /\ gate[p].who # None => who # None /\ who.of = gate[p].who.of
                                   /\ who.age <= gate[p].who.age + 1
          BY <2>1, AuthConstants DEF Passage, Verdict, Age, Bound, Known, Older
    <3> HIDE DEF who
    <3>4. gate'[p] \in Passage
      <4>1. gate[p].wait + 1 \in 0..ReviewTimeout  BY <2>1, <3>2, AuthConstants DEF Passage
      <4> QED BY <2>1, <3>1, <3>3, <4>1 DEF Passage
    <3>5. ShownOK(gate'[p])
          BY <2>1, <2>3, <3>1, <3>3, AuthConstants DEF Passage, ShownOK, Waiting, Verdict, Age, Bound
    <3> QED BY <3>4, <3>5
  <2> QED BY <2>2, <2>3
<1>4. gate' = [p \in Task |-> gate'[p]]  BY DEF Tick
<1> QED BY <1>1, <1>2, <1>3, <1>4 DEF GateInv, GateType, EntriesOK

(* A request arrives at the gate, or is through with it.                   *)
LEMMA ShutOK ==
    ASSUME NEW at \in {"idle", "open", "shut"}
    PROVE  [Shut EXCEPT !.at = at] \in Passage /\ ShownOK([Shut EXCEPT !.at = at])
BY AuthConstants DEF Shut, Passage, ShownOK

LEMMA OpensOK ==
    ASSUME GateInv, NEW p \in Task, NEW open, Opens(p, open) PROVE GateInv'
<1> DEFINE at == IF open THEN "open" ELSE "shut"
<1>1. gate' = [gate EXCEPT ![p] = [Shut EXCEPT !.at = at]] /\ UNCHANGED <<token_cache, sar_cache>>
      BY DEF Opens
<1>2. at \in {"idle", "open", "shut"}  OBVIOUS
<1> HIDE DEF at
<1> QED BY <1>1, <1>2, ShutOK, GateOf DEF GateInv, GateType, EntriesOK

LEMMA AnsweredOK ==
    ASSUME GateInv, NEW p \in Task, Answered(p) PROVE GateInv'
<1>1. Shut = [Shut EXCEPT !.at = "idle"]  BY DEF Shut
<1>2. Shut \in Passage /\ ShownOK(Shut)  BY <1>1, ShutOK
<1> QED BY <1>2, GateOf DEF Answered, GateInv, GateType, EntriesOK

LEMMA NamespaceType == \A repo : namespace_for(repo) \in Namespace \cup {None}
BY AuthConstants DEF namespace_for

LEMMA CheckOK ==
    ASSUME GateInv, NEW p \in Task, NEW action \in Action, NEW repo, NEW token \in Token \cup {None},
           NEW loopback, check(p, action, repo, token, loopback)
    PROVE  GateInv'
<1> DEFINE at == IF action = "Version" \/ (AllowLoopback /\ loopback) THEN "open"
                 ELSE IF token = None THEN "shut" ELSE "token"
           g == [Shut EXCEPT !.at = at, !.action = action, !.ns = namespace_for(repo),
                             !.token = token]
<1>1. at \in {"open", "shut", "token"} /\ (at = "token" => token # None)  OBVIOUS
<1>2. gate' = [gate EXCEPT ![p] = g] /\ UNCHANGED <<token_cache, sar_cache>>  BY DEF check
<1> HIDE DEF at
<1>3. g \in Passage
  <2>1. namespace_for(repo) \in Namespace \cup {None}  BY NamespaceType
  <2> QED BY <1>1, <2>1, ZeroWait DEF Passage, Shut
<1>4. ShownOK(g)  BY <1>1 DEF ShownOK, Shut
<1> QED BY <1>2, <1>3, <1>4, GateOf DEF GateInv, GateType, EntriesOK

-----------------------------------------------------------------------------
(* Paths.                                                                  *)

LEMMA EndsInPair ==
    ASSUME NEW rest \in Seq(Segment), NEW a, NEW b, EndsIn(rest, <<a, b>>)
    PROVE  Len(rest) > 2 /\ rest[Len(rest) - 1] = a /\ rest[Len(rest)] = b
<1> DEFINE n == Len(rest)  s == SubSeq(rest, n - 1, n)
<1>1. n \in Nat /\ n > 2 /\ s = <<a, b>> /\ \A i \in 1..n : rest[i] \in Segment
      BY LenProperties, ElementOfSeq DEF EndsIn
<1>2. n - 1 \in Int /\ n \in Int /\ \A i \in (n - 1)..n : rest[i] \in Segment  BY <1>1
<1> HIDE DEF n
<1>3. \A i \in 1..(n - (n - 1) + 1) : SubSeq(rest, n - 1, n)[i] = rest[n - 1 + i - 1]
      BY <1>2, SubSeqProperties
<1>4. n - (n - 1) + 1 = 2 /\ n - 1 + 1 - 1 = n - 1 /\ n - 1 + 2 - 1 = n  BY <1>1
<1> HIDE DEF s
<1>5. s[1] = rest[n - 1] /\ s[2] = rest[n]
  <2>1. \A i \in 1..2 : s[i] = rest[n - 1 + i - 1]  BY <1>3, <1>4 DEF s
  <2> QED BY <2>1, <1>4
<1> QED BY <1>1, <1>5 DEF n

(* A prefix, and what is in it.                                            *)
LEMMA PrefixOf ==
    ASSUME NEW rest \in Seq(Segment), NEW n \in 1..Len(rest)
    PROVE  /\ SubSeq(rest, 1, n) # <<>> /\ Len(SubSeq(rest, 1, n)) = n
           /\ \A i \in 1..n : SubSeq(rest, 1, n)[i] = rest[i]
<1> DEFINE r == SubSeq(rest, 1, n)
<1>1. n \in Nat /\ n >= 1 /\ \A i \in 1..n : rest[i] \in Segment
      BY LenProperties, ElementOfSeq
<1>2. /\ Len(r) = IF 1 <= n THEN n - 1 + 1 ELSE 0
      /\ \A i \in 1..(n - 1 + 1) : r[i] = rest[1 + i - 1]
  <2>1. 1 \in Int /\ n \in Int  BY <1>1
  <2> QED BY <1>1, <2>1, SubSeqProperties
<1> HIDE DEF r
<1>3. Len(r) = n /\ \A i \in 1..n : r[i] = rest[i]  BY <1>1, <1>2
<1>4. r # <<>>  BY <1>1, <1>3
<1> QED BY <1>3, <1>4 DEF r

(* A least element.                                                        *)
LEMMA LeastNatural == ASSUME NEW S \in SUBSET Nat, S # {} PROVE \E x \in S : \A y \in S : x <= y
<1>1. PICK x \in S : \A y \in S : ~(<<y, x>> \in OpToRel(<, Nat))
      BY NatLessThanWellFounded, WFMin
<1>2. \A y \in S : ~(y < x)  BY <1>1 DEF OpToRel
<1> QED BY <1>2

LEMMA LeastOfFour == ASSUME NEW s \in SUBSET (1..4), s # {} PROVE Min(s) \in s
<1>1. \E x \in s : \A y \in s : x <= y
  <2>1. CASE 1 \in s  BY <2>1
  <2>2. CASE 1 \notin s /\ 2 \in s  BY <2>2
  <2>3. CASE 1 \notin s /\ 2 \notin s /\ 3 \in s  BY <2>3
  <2>4. CASE 1 \notin s /\ 2 \notin s /\ 3 \notin s
    <3>1. \A y \in s : y \in 1..4 /\ y # 1 /\ y # 2 /\ y # 3  BY <2>4
    <3>2. \A y \in s : y = 4  BY <3>1
    <3>3. PICK x : x \in s  OBVIOUS
    <3> QED BY <3>2, <3>3
  <2> QED BY <2>1, <2>2, <2>3, <2>4
<1> QED BY <1>1 DEF Min

(* What repo_from_rest takes for the name ends before the marker behind    *)
(* the name, or before one that is part of it.                             *)
LEMMA FirstMarker ==
    ASSUME NEW rest \in Seq(Segment), NEW n \in Nat, n > 0, n + 1 < Len(rest),
           rest[n + 1] \in Markers,
           \A i \in (n + 2)..(Len(rest) - 1) : rest[i] \notin Markers
    PROVE  \E k \in 2..(n + 1) : rest[k] \in Markers /\ repo_from_rest(rest) = SubSeq(rest, 1, k - 1)
<1> DEFINE Is(m) == {i \in 2..(Len(rest) - 1) : rest[i] = m}
           found == <<{i \in Is("blobs") : rest[i + 1] = "uploads"},
                      Is("blobs"), Is("manifests"), Is("referrers")>>
           some == {j \in DOMAIN found : found[j] # {}}
           least == found[Min(some)]
<1>1. DOMAIN found = 1..4  OBVIOUS
<1>2. Len(rest) \in Nat  OBVIOUS
<1>3. \A j \in 1..4 : \A i \in found[j] : i \in 2..(n + 1) /\ rest[i] \in Markers
  <2>1. ASSUME NEW m \in Markers, NEW i \in Is(m) PROVE i \in 2..(n + 1) /\ rest[i] \in Markers
    <3>1. i \notin (n + 2)..(Len(rest) - 1)  OBVIOUS
    <3> QED BY <1>2, <3>1
  <2>2. /\ found[1] \subseteq Is("blobs") /\ found[2] = Is("blobs")
        /\ found[3] = Is("manifests") /\ found[4] = Is("referrers")
        OBVIOUS
  <2> HIDE DEF Is, found
  <2> QED BY <2>1, <2>2 DEF Markers
<1>4. \E j \in 2..4 : n + 1 \in found[j]
  <2>1. n + 1 \in 2..(Len(rest) - 1)  BY <1>2
  <2> QED BY <2>1 DEF Markers
<1> HIDE DEF found
<1>5. some \subseteq 1..4 /\ some # {}  BY <1>1, <1>4
<1>6. Min(some) \in some  BY <1>5, LeastOfFour
<1>7. least # {} /\ \A i \in least : i \in 2..(n + 1) /\ rest[i] \in Markers  BY <1>3, <1>5, <1>6
<1>8. repo_from_rest(rest) = SubSeq(rest, 1, Min(least) - 1)  BY <1>5 DEF repo_from_rest, found
<1> HIDE DEF least
<1>9. Min(least) \in least
  <2>1. least \in SUBSET Nat  BY <1>7
  <2>2. \E x \in least : \A y \in least : x <= y  BY <1>7, <2>1, LeastNatural
  <2> QED BY <2>2 DEF Min
<1> QED BY <1>7, <1>8, <1>9

(* The namespace of what it takes is that of the name, unless the name is  *)
(* clipped.                                                                *)
LEMMA SameNamespace ==
    ASSUME NEW rest \in Seq(Segment), NEW n \in Nat, n > 0, n + 1 < Len(rest),
           rest[n + 1] \in Markers,
           \A i \in (n + 2)..(Len(rest) - 1) : rest[i] \notin Markers,
           ~Clipped(SubSeq(rest, 1, n))
    PROVE  namespace_for(repo_from_rest(rest)) = namespace_for(SubSeq(rest, 1, n))
<1> DEFINE r == SubSeq(rest, 1, n)
<1>1. PICK k \in 2..(n + 1) : rest[k] \in Markers /\ repo_from_rest(rest) = SubSeq(rest, 1, k - 1)
      BY FirstMarker
<1> DEFINE c == SubSeq(rest, 1, k - 1)
<1>2. Len(rest) \in Nat /\ n \in 1..Len(rest) /\ k - 1 \in 1..Len(rest)
  <2>1. Len(rest) \in Nat  OBVIOUS
  <2> QED BY <2>1
<1>3. /\ Len(r) = n /\ r # <<>> /\ \A i \in 1..n : r[i] = rest[i]
      BY <1>2, PrefixOf
<1>4. /\ Len(c) = k - 1 /\ c # <<>> /\ \A i \in 1..(k - 1) : c[i] = rest[i]
      BY <1>2, PrefixOf
<1>5. Head(r) = r[1] /\ Head(c) = c[1]  OBVIOUS
<1> HIDE DEF r, c
<1>6. Head(c) = Head(r)
  <2>1. 1 \in 1..n /\ 1 \in 1..(k - 1)  OBVIOUS
  <2>2. r[1] = rest[1] /\ c[1] = rest[1]  BY <1>3, <1>4, <2>1
  <2> QED BY <1>5, <2>2
<1>7. Len(c) > 1 <=> Len(r) > 1
  <2>1. CASE k = n + 1  BY <1>3, <1>4, <2>1
  <2>2. CASE k # n + 1
    <3>1. k \in 2..n /\ n > 1  BY <2>2
    <3>2. r[2] \notin Markers  BY <1>3, <3>1 DEF Clipped, r
    <3>3. r[2] = rest[2]  BY <1>3, <3>1
    <3>4. k # 2  BY <1>1, <3>2, <3>3
    <3> QED BY <1>3, <1>4, <3>1, <3>4
  <2> QED BY <2>1, <2>2
<1> QED BY <1>1, <1>6, <1>7 DEF namespace_for, r, c

LEMMA BlankApart == Blank # "list" /\ Blank # "_catalog"
BY Zenon DEF Blank

(* The path without /v2, and without the slash that may end it.            *)
Start(path) == IF Last(path) = Blank THEN Front(Tail(path)) ELSE Tail(path)

LEMMA PathParts ==
    ASSUME NEW path \in Seq(Segment), path # <<>>
    PROVE  /\ Tail(path) \in Seq(Segment) /\ Len(Tail(path)) = Len(path) - 1
           /\ Start(path) \in Seq(Segment)
           /\ \/ Start(path) = Tail(path)
              \/ Start(path) = <<>> /\ Len(path) = 1
              \/ /\ Len(Start(path)) = Len(Tail(path)) - 1
                 /\ Tail(path)[Len(Tail(path))] = Blank
                 /\ \A i \in 1..(Len(Tail(path)) - 1) : Start(path)[i] = Tail(path)[i]
<1> DEFINE rest == Tail(path)  n == Len(path) - 1  front == SubSeq(rest, 1, n - 1)
<1>1. Len(path) \in Nat \ {0}  OBVIOUS
<1>2. rest \in Seq(Segment) /\ Len(rest) = n /\ \A i \in 1..n : rest[i] = path[i + 1]
      BY HeadTailProperties
<1>3. n \in Nat /\ \A i \in 1..n : rest[i] \in Segment  BY <1>1, <1>2, ElementOfSeq
<1> HIDE DEF rest, n
<1>4. 1 \in Int /\ n - 1 \in Int /\ \A i \in 1..(n - 1) : rest[i] \in Segment  BY <1>3
<1>5. /\ front \in Seq(Segment)
      /\ Len(front) = IF 1 <= n - 1 THEN n - 1 - 1 + 1 ELSE 0
      /\ \A i \in 1..(n - 1 - 1 + 1) : front[i] = rest[1 + i - 1]
      BY <1>4, SubSeqProperties
<1>6. n = 0 => front = <<>>  BY <1>4, SubSeqEmpty
<1>7. n > 0 => Last(path) = rest[n]  BY <1>1, <1>2 DEF Last, n
<1>8. Start(path) = IF Last(path) = Blank THEN front ELSE rest  BY <1>2 DEF Start, Front, rest
<1> HIDE DEF front
<1>9. n > 0 => Len(front) = n - 1 /\ \A i \in 1..(n - 1) : front[i] = rest[i]  BY <1>3, <1>5
<1>10. CASE Last(path) # Blank  BY <1>2, <1>8, <1>10 DEF n, rest
<1>11. CASE Last(path) = Blank /\ n = 0
  <2>1. Start(path) = <<>> /\ Len(path) = 1  BY <1>1, <1>6, <1>8, <1>11 DEF n
  <2> QED BY <1>2, <2>1 DEF n, rest
<1>12. CASE Last(path) = Blank /\ n > 0
  <2>1. Start(path) = front /\ Len(rest) = n  BY <1>2, <1>8, <1>12
  <2>2. Start(path) \in Seq(Segment) /\ Len(Start(path)) = n - 1 /\ rest[n] = Blank
        /\ \A i \in 1..(n - 1) : Start(path)[i] = rest[i]
        BY <1>5, <1>7, <1>9, <1>12, <2>1
  <2>3. rest \in Seq(Segment) /\ Len(rest) = Len(path) - 1  BY <1>2, <2>1 DEF n
  <2> QED BY <2>1, <2>2, <2>3 DEF rest
<1> QED BY <1>3, <1>10, <1>11, <1>12

(* POST /v2/<name>/blobs/uploads, with or without a slash.                 *)
LEMMA StartRepo ==
    ASSUME NEW path \in Seq(Segment), path # <<>>,
           EndsIn(Start(path), <<"blobs", "uploads">>), ~Clipped(Before(Start(path), 2))
    PROVE  namespace_for(repo_from_rest(Tail(path))) = namespace_for(Before(Start(path), 2))
<1> DEFINE rest == Tail(path)  start == Start(path)  k == Len(start) - 1
<1>1. rest \in Seq(Segment) /\ start \in Seq(Segment)  BY PathParts
<1>2. Len(rest) \in Nat /\ Len(start) \in Nat  BY <1>1
<1>3. Len(start) > 2 /\ start[k] = "blobs" /\ start[k + 1] = "uploads"
  <2> HIDE DEF start
  <2> QED BY <1>1, <1>2, EndsInPair DEF start
<1>p. \/ start = rest
      \/ start = <<>>
      \/ /\ Len(start) = Len(rest) - 1 /\ rest[Len(rest)] = Blank
         /\ \A i \in 1..(Len(rest) - 1) : start[i] = rest[i]
      BY PathParts
<1>7. Before(start, 2) = SubSeq(start, 1, k - 1)
  <2>1. k - 1 = Len(start) - 2  BY <1>2
  <2> QED BY <2>1 DEF Before
<1> HIDE DEF rest, start
<1>4. \/ Len(start) = Len(rest)
      \/ Len(start) = Len(rest) - 1 /\ rest[Len(rest)] = Blank
      BY <1>3, <1>p
<1>5. \A i \in 1..Len(start) : start[i] = rest[i]  BY <1>3, <1>p
<1>8. k \in 2..(Len(rest) - 1) /\ rest[k] = "blobs" /\ rest[k + 1] = "uploads"
  <2>1. k \in 1..Len(start) /\ k + 1 \in 1..Len(start)  BY <1>2, <1>3
  <2>2. rest[k] = start[k] /\ rest[k + 1] = start[k + 1]  BY <1>5, <2>1
  <2> QED BY <1>2, <1>3, <1>4, <2>2
<1>9. \A i \in (k + 1)..(Len(rest) - 1) : rest[i] \notin Markers
  <2> SUFFICES ASSUME NEW i \in (k + 1)..(Len(rest) - 1) PROVE rest[i] \notin Markers  OBVIOUS
  <2>1. i = k + 1  BY <1>2, <1>4
  <2> QED BY <1>8, <2>1 DEF Markers
<1>10. SubSeq(rest, 1, k - 1) = SubSeq(start, 1, k - 1)  BY <1>1, <1>2, <1>3, <1>4, <1>5
<1>11. namespace_for(repo_from_rest(rest)) = namespace_for(SubSeq(rest, 1, k - 1))
  <2> DEFINE n == k - 1
  <2>1. n \in Nat /\ n > 0 /\ n + 1 = k /\ n + 2 = k + 1  BY <1>2, <1>3
  <2>2. ~Clipped(SubSeq(rest, 1, n))  BY <1>7, <1>10 DEF start
  <2>3. n + 1 < Len(rest)  BY <1>2, <1>8, <2>1
  <2>4. rest[n + 1] \in Markers  BY <1>8, <2>1 DEF Markers
  <2>5. \A i \in (n + 2)..(Len(rest) - 1) : rest[i] \notin Markers  BY <1>9, <2>1
  <2> HIDE DEF n
  <2>6. namespace_for(repo_from_rest(rest)) = namespace_for(SubSeq(rest, 1, n))
        BY <1>1, <2>1, <2>2, <2>3, <2>4, <2>5, SameNamespace
  <2> QED BY <2>6 DEF n
<1> QED BY <1>7, <1>10, <1>11 DEF rest, start

(* /v2/<name>/blobs/uploads/<id>.                                          *)
LEMMA SessionRepo ==
    ASSUME NEW rest \in Seq(Segment), EndsIn(Front(rest), <<"blobs", "uploads">>),
           ~Clipped(Before(rest, 3))
    PROVE  namespace_for(repo_from_rest(rest)) = namespace_for(Before(rest, 3))
<1> DEFINE n == Len(rest)
<1>1. n \in Nat /\ n > 0
  <2>1. CASE rest = <<>>
    <3>1. Front(rest) = <<>>  BY <2>1, SubSeqEmpty DEF Front
    <3> QED BY <3>1 DEF EndsIn
  <2> QED BY <2>1
<1>2. Front(rest) \in Seq(Segment) /\ Len(Front(rest)) = n - 1
      /\ \A i \in 1..(n - 1) : Front(rest)[i] = rest[i]
  <2>1. Front(rest) = SubSeq(rest, 1, n - 1)  BY DEF Front
  <2>2. 1 \in Int /\ n - 1 \in Int /\ \A i \in 1..(n - 1) : rest[i] \in Segment
        BY <1>1, ElementOfSeq
  <2> HIDE DEF n
  <2>3. /\ SubSeq(rest, 1, n - 1) \in Seq(Segment)
        /\ Len(SubSeq(rest, 1, n - 1)) = IF 1 <= n - 1 THEN n - 1 - 1 + 1 ELSE 0
        /\ \A i \in 1..(n - 1 - 1 + 1) : SubSeq(rest, 1, n - 1)[i] = rest[1 + i - 1]
        BY <2>2, SubSeqProperties
  <2> QED BY <1>1, <2>1, <2>3
<1>3. n > 3 /\ rest[n - 2] = "blobs" /\ rest[n - 1] = "uploads"  BY <1>1, <1>2, EndsInPair
<1> DEFINE k == n - 3
<1>4. k \in Nat /\ k > 0 /\ k + 1 = n - 2 /\ k + 2 = n - 1  BY <1>1, <1>3
<1>5. k + 1 < Len(rest) /\ rest[k + 1] \in Markers  BY <1>1, <1>3, <1>4 DEF Markers
<1>6. \A i \in (k + 2)..(Len(rest) - 1) : rest[i] \notin Markers
  <2> SUFFICES ASSUME NEW i \in (k + 2)..(Len(rest) - 1) PROVE rest[i] \notin Markers  OBVIOUS
  <2>1. i = n - 1
    <3>1. i \in (n - 1)..(n - 1)  BY <1>4
    <3> HIDE DEF n
    <3> QED BY <1>1, <3>1
  <2> QED BY <1>3, <2>1 DEF Markers
<1>7. Before(rest, 3) = SubSeq(rest, 1, k)  BY DEF Before
<1> HIDE DEF k
<1> QED BY <1>4, <1>5, <1>6, <1>7, SameNamespace

(* /v2/<name>/<marker>/<reference>.                                        *)
LEMMA MarkerRepo ==
    ASSUME NEW rest \in Seq(Segment), Len(rest) > 2, rest[Len(rest) - 1] \in Markers,
           ~Clipped(Before(rest, 2))
    PROVE  namespace_for(repo_from_rest(rest)) = namespace_for(Before(rest, 2))
<1> DEFINE n == Len(rest) - 2
<1>1. n \in Nat /\ n > 0 /\ n + 1 = Len(rest) - 1 /\ n + 1 < Len(rest) /\ n + 2 = Len(rest)
  <2>1. Len(rest) \in Nat  OBVIOUS
  <2> QED BY <2>1
<1>2. \A i \in (n + 2)..(Len(rest) - 1) : rest[i] \notin Markers  BY <1>1
<1>3. rest[n + 1] \in Markers  BY <1>1
<1>4. Before(rest, 2) = SubSeq(rest, 1, n)  BY DEF Before
<1> HIDE DEF n
<1> QED BY <1>1, <1>2, <1>3, <1>4, SameNamespace

(* Handlers the gate asks the cluster about.                               *)
Reviewed == Step \ {"version_check", "token_endpoint"}

(* The two parsers of a path agree: what classify tells the gate of a      *)
(* request is the verb of the handler that dispatch picks for it, and a    *)
(* name in the namespace of its repository.                                *)
LEMMA LockStep ==
    ASSUME NEW req, WellFormed(req), NEW h \in Handlers(req), h.do \in Reviewed
    PROVE  /\ req.path # <<"token">> /\ ~IsVersion(req.path)
           /\ classify(req.method, req.path).action \notin {"Version", "Token"}
           /\ ~Clipped(h.repo) =>
                namespace_for(classify(req.method, req.path).repo) = namespace_for(h.repo)
           /\ verb(classify(req.method, req.path).action) = Needs(h.do)
<1> DEFINE path == req.path  rest == Tail(path)  e == Endpoint(path)  op == classify(req.method, path)
<1>1. PICK row \in Table : /\ row[1] = e.at /\ req.method \in row[2] /\ h.do = row[3]
                           /\ h.repo = e.repo /\ e.repo \in Repo \cup {<<>>}
      BY DEF Handlers
<1>2. \/ e.at \in {"catalog", "tags"} /\ Needs(h.do) = "list"
      \/ e.at = "uploads" /\ req.method = "POST" /\ Needs(h.do) = "update"
      \/ e.at = "upload" /\ req.method \in {"PATCH", "PUT"} /\ Needs(h.do) = "update"
      \/ e.at = "upload" /\ req.method = "DELETE" /\ Needs(h.do) = "delete"
      \/ e.at = "manifests" /\ req.method = "PUT" /\ Needs(h.do) = "update"
      \/ e.at \in {"manifests", "blobs"} /\ req.method = "DELETE" /\ Needs(h.do) = "delete"
      \/ e.at = "upload" /\ req.method = "GET" /\ Needs(h.do) = "get"
      \/ /\ e.at \in {"manifests", "blobs", "referrers"} /\ req.method \in {"GET", "HEAD"}
         /\ Needs(h.do) = "get"
      \/ e.at \in {"repo-root", "repo-roots"} /\ Needs(h.do) = "update"
  <2> HIDE DEF e
  <2> QED BY <1>1 DEF Table, Reviewed, Needs
<1>3. /\ path \in Seq(Segment) /\ path # <<>>
      /\ path = <<"token">> \/ IsVersion(path) \/ (Len(path) > 1 /\ Head(path) \in {"v2", "admin"})
  <2>1. path \in Seq(Segment)  BY DEF WellFormed
  <2>2. path = <<"token">> \/ IsVersion(path) \/ (Len(path) > 1 /\ Head(path) \in {"v2", "admin"})
        BY DEF WellFormed
  <2>3. path # <<>>
    <3> HIDE DEF path
    <3>1. CASE path = <<"token">>
      <4>1. Len(path) = 1  BY <3>1
      <4> QED BY <4>1
    <3>2. CASE IsVersion(path)
      <4>1. path = <<"v2">> \/ path = <<"v2", Blank>>  BY <3>2 DEF IsVersion
      <4>2. CASE path = <<"v2">>
        <5>1. Len(path) = 1  BY <4>2
        <5> QED BY <5>1
      <4>3. CASE path = <<"v2", Blank>>
        <5>1. Len(path) = 2  BY <4>3
        <5> QED BY <5>1
      <4> QED BY <4>1, <4>2, <4>3
    <3>3. CASE Len(path) > 1  BY <3>3
    <3> QED BY <2>2, <3>1, <3>2, <3>3
  <2> QED BY <2>1, <2>2, <2>3
<1>4. rest \in Seq(Segment) /\ Start(path) \in Seq(Segment) /\ Len(rest) = Len(path) - 1
      BY <1>3, PathParts
<1> HIDE DEF path
<1>5. ASSUME NEW a, NEW b, EndsIn(rest, <<a, b>>) \/ EndsIn(Start(path), <<a, b>>)
      PROVE  Len(path) > 3
  <2>1. Len(path) \in Nat \ {0}  BY <1>3
  <2>2. CASE EndsIn(rest, <<a, b>>)
    <3>1. Len(rest) > 2  BY <1>4, <2>2, EndsInPair
    <3> QED BY <1>4, <2>1, <3>1
  <2>3. CASE EndsIn(Start(path), <<a, b>>)
    <3>1. Len(Start(path)) > 2  BY <1>4, <2>3, EndsInPair
    <3>2. Len(Start(path)) <= Len(rest)
      <4>1. Len(rest) \in Nat  BY <1>4
      <4> QED BY <1>3, <3>1, <4>1, PathParts
    <3> QED BY <1>4, <2>1, <3>1, <3>2
  <2> QED BY <1>5, <2>2, <2>3
<1>6. path # <<"token">>
  <2>1. ASSUME path = <<"token">> PROVE e = [at |-> "token", repo |-> <<>>, ref |-> None]
        BY <2>1 DEF Endpoint, IsVersion
  <2> HIDE DEF e
  <2> QED BY <1>2, <2>1
<1>7. ~IsVersion(path)
  <2>1. ASSUME IsVersion(path) PROVE e = [at |-> "version", repo |-> <<>>, ref |-> None]
    <3>1. Len(path) <= 2 /\ Head(path) = "v2"
      <4>1. CASE path = <<"v2">>  BY <4>1
      <4>2. CASE path = <<"v2", Blank>>  BY <4>2
      <4> QED BY <2>1, <4>1, <4>2 DEF IsVersion
    <3>2. path # <<"v2", "_catalog">>
      <4> SUFFICES ASSUME path = <<"v2", "_catalog">> PROVE FALSE  OBVIOUS
      <4>1. Len(path) = 2 /\ path[2] = "_catalog"  OBVIOUS
      <4>2. path = <<"v2", Blank>>  BY <2>1, <4>1 DEF IsVersion
      <4>3. path[2] = Blank  BY <4>2
      <4> QED BY <4>1, <4>3, BlankApart
    <3> QED BY <1>5, <1>6, <2>1, <3>1, <3>2 DEF Endpoint, Start
  <2> HIDE DEF e
  <2> QED BY <1>2, <2>1
<1> SUFFICES /\ req.path # <<"token">>
             /\ classify(req.method, req.path).action \notin {"Version", "Token"}
             /\ ~Clipped(h.repo) =>
                  namespace_for(classify(req.method, req.path).repo) = namespace_for(h.repo)
             /\ verb(classify(req.method, req.path).action) = Needs(h.do)
    BY <1>7 DEF path
<1>8. CASE Head(path) = "admin"
  <2>1. path # <<"v2", "_catalog">>  BY <1>8
  <2>2. e = [at |-> IF Len(path) = 2 /\ Last(path) \in {"repo-roots", "repo-root"}
                    THEN Last(path) ELSE "none", repo |-> <<>>, ref |-> None]
        BY <1>6, <1>7, <1>8, <2>1 DEF Endpoint
  <2>3. op = [action |-> "Admin", repo |-> <<>>]  BY <1>7, <1>8, <2>1 DEF classify
  <2> HIDE DEF e, op
  <2>4. e.at \in {"repo-roots", "repo-root", "none"} /\ e.repo = <<>>  BY <2>2
  <2> QED BY <1>1, <1>2, <1>6, <2>3, <2>4 DEF verb, op, path
<1>9. CASE path = <<"v2", "_catalog">>
  <2>1. Head(path) = "v2" /\ Len(path) = 2  BY <1>9
  <2>2. e = [at |-> "catalog", repo |-> <<>>, ref |-> None]
        BY <1>5, <1>6, <1>7, <1>9, <2>1 DEF Endpoint, Start
  <2>3. op = [action |-> "List", repo |-> <<>>]  BY <1>5, <1>7, <1>9, <2>1 DEF classify
  <2> HIDE DEF e, op
  <2> QED BY <1>1, <1>2, <1>6, <2>2, <2>3 DEF verb, op, path
<1>10. CASE Head(path) = "v2" /\ path # <<"v2", "_catalog">> /\ EndsIn(rest, <<"tags", "list">>)
  <2>1. ~EndsIn(Start(path), <<"blobs", "uploads">>)
    <3> SUFFICES ASSUME EndsIn(Start(path), <<"blobs", "uploads">>) PROVE FALSE  OBVIOUS
    <3>1. rest[Len(rest)] = "list"  BY <1>4, <1>10, EndsInPair
    <3>2. Len(Start(path)) > 2 /\ Start(path)[Len(Start(path))] = "uploads"
          BY <1>4, EndsInPair
    <3>3. Start(path) # <<>>  BY <3>2
    <3> QED BY <1>3, <3>1, <3>2, <3>3, BlankApart, PathParts
  <2>2. e = [at |-> "tags", repo |-> Before(rest, 2), ref |-> None]
        BY <1>6, <1>7, <1>10, <2>1 DEF Endpoint, Start
  <2>3. op = [action |-> "List", repo |-> Before(rest, 2)]  BY <1>7, <1>10 DEF classify
  <2> HIDE DEF e, op
  <2> QED BY <1>1, <1>2, <1>6, <2>2, <2>3 DEF verb, op, path
<1>11. CASE Head(path) = "v2" /\ path # <<"v2", "_catalog">> /\ ~EndsIn(rest, <<"tags", "list">>)
  <2>1. op = [action |-> CASE req.method \in {"POST", "PATCH", "PUT"} -> "Push"
                           [] req.method = "DELETE" -> "Delete"
                           [] OTHER -> "Pull",
              repo |-> repo_from_rest(rest)]
        BY <1>7, <1>11 DEF classify
  <2>2. ASSUME ~Clipped(e.repo) => namespace_for(repo_from_rest(rest)) = namespace_for(e.repo),
               e.at \notin {"catalog", "tags", "repo-root", "repo-roots"}
        PROVE  /\ ~Clipped(h.repo) => namespace_for(op.repo) = namespace_for(h.repo)
               /\ op.action \notin {"Version", "Token"} /\ verb(op.action) = Needs(h.do)
    <3> HIDE DEF e, op
    <3> QED BY <1>1, <1>2, <2>1, <2>2 DEF verb
  <2>3. CASE EndsIn(Start(path), <<"blobs", "uploads">>)
    <3>1. e = [at |-> "uploads", repo |-> Before(Start(path), 2), ref |-> None]
          BY <1>6, <1>7, <1>11, <2>3 DEF Endpoint, Start
    <3>2. ~Clipped(e.repo) => namespace_for(repo_from_rest(rest)) = namespace_for(e.repo)
      <4>1. e.repo = Before(Start(path), 2)  BY <3>1
      <4> QED BY <1>3, <2>3, <4>1, StartRepo
    <3> QED BY <1>6, <2>2, <3>1, <3>2 DEF path
  <2>4. CASE /\ ~EndsIn(Start(path), <<"blobs", "uploads">>)
             /\ EndsIn(Front(rest), <<"blobs", "uploads">>)
    <3>1. e = [at |-> "upload", repo |-> Before(rest, 3), ref |-> Last(rest)]
          BY <1>6, <1>7, <1>11, <2>4 DEF Endpoint, Start
    <3>2. ~Clipped(e.repo) => namespace_for(repo_from_rest(rest)) = namespace_for(e.repo)
      <4>1. e.repo = Before(rest, 3)  BY <3>1
      <4> QED BY <1>4, <2>4, <4>1, SessionRepo
    <3> QED BY <1>6, <2>2, <3>1, <3>2 DEF path
  <2>5. CASE /\ ~EndsIn(Start(path), <<"blobs", "uploads">>)
             /\ ~EndsIn(Front(rest), <<"blobs", "uploads">>)
    <3>1. e = IF Len(rest) > 2 /\ Last(rest) # Blank /\ rest[Len(rest) - 1] \in Markers
              THEN [at |-> rest[Len(rest) - 1], repo |-> Before(rest, 2), ref |-> Last(rest)]
              ELSE [at |-> "none", repo |-> <<>>, ref |-> None]
          BY <1>6, <1>7, <1>11, <2>5 DEF Endpoint, Start
    <3>2. /\ Len(rest) > 2 /\ rest[Len(rest) - 1] \in Markers
          /\ e.at = rest[Len(rest) - 1] /\ e.repo = Before(rest, 2)
      <4> HIDE DEF e, rest
      <4> QED BY <1>2, <3>1
    <3>3. ~Clipped(e.repo) => namespace_for(repo_from_rest(rest)) = namespace_for(e.repo)
          BY <1>4, <3>2, MarkerRepo
    <3>4. e.at \notin {"catalog", "tags", "repo-root", "repo-roots"}  BY <3>2 DEF Markers
    <3> QED BY <1>6, <2>2, <3>2, <3>3, <3>4 DEF path
  <2> QED BY <2>3, <2>4, <2>5
<1> QED BY <1>3, <1>6, <1>7, <1>8, <1>9, <1>10, <1>11
-----------------------------------------------------------------------------
(* Tasks.                                                                  *)

Shaped(t) == DOMAIN t = {"do", "repo", "ref", "root", "req", "left", "bag"}

(* Calls a handler makes after its first.                                  *)
Inner == {"mount_read", "mount_write", "upload_post", "upload_finalize", "list_repos", "has_repo",
          "referrers_read"}

(* The handler a call belongs to.                                          *)
First(do) ==
    CASE do \in {"mount_read", "mount_write", "upload_post"} -> "upload_start"
      [] do = "upload_finalize" -> "upload_finish"
      [] do = "list_repos" -> "catalog"
      [] do = "has_repo" -> "tags_list"
      [] do = "referrers_read" -> "referrers"
      [] OTHER -> do

(* A task works on a request as it was parsed, and so does a client that   *)
(* may follow a link.                                                      *)
TasksOK ==
    /\ auth \in Modes
    /\ DOMAIN task = Task /\ DOMAIN page = Task
    /\ \A p \in Task :
        /\ Shaped(task[p])
        /\ DOMAIN page[p] = {"of", "seen", "link", "bent", "over", "found"}
        /\ task[p].do \in Step \cup {"idle", "auth"}
        /\ task[p].do # "idle" \/ page[p].link # None => WellFormed(task[p].req)
        /\ task[p].do \in Step => gate[p].at = "open"
        /\ task[p].do = "manifest_put" => task[p].req.body \in Manifest
        /\ task[p].do = "repo_root_upsert" => task[p].req.body \in [pattern : Pattern, root : Root]
        /\ task[p].do \in {"mount_read", "mount_write"} => Query(task[p].req, "mount") \in Blob

LEMMA Steps ==
    /\ Step = {"token_endpoint", "version_check", "catalog", "tags_list", "upload_start",
               "upload_status", "upload_chunk", "upload_finish", "upload_cancel", "manifest_get",
               "manifest_put", "manifest_delete", "blob_get", "blob_delete", "referrers",
               "repo_roots_list", "repo_root_upsert"} \cup Inner
    /\ \A h \in Table : h[3] \in Step \ Inner
BY DEF Step, Table, Inner

(* What is left to do with the request of p: nothing,                      *)
Dispatched(p) ==
    /\ task[p].do = "auth" /\ gate[p].at = "open"
    /\ Shaped(task'[p]) /\ task'[p].req = task[p].req
    /\ \E h \in Handlers(task[p].req) : /\ task'[p].do = h.do /\ task'[p].repo = h.repo
                                        /\ task'[p].ref = h.ref
                                        /\ task'[p].root = resolve(h.repo)
    /\ UNCHANGED authVars

Continues(p) ==
    /\ task[p].do \in Step \ Reads /\ task'[p].do \in Inner
    /\ Needs(task'[p].do) = Needs(task[p].do) /\ First(task'[p].do) = First(task[p].do)
    /\ Shaped(task'[p]) /\ task'[p].req = task[p].req
    /\ task'[p].repo = task[p].repo /\ task'[p].ref = task[p].ref
    /\ task'[p].root \in {task[p].root, resolve(task[p].repo), resolve(Query(task[p].req, "from"))}
    /\ task'[p].do \in {"mount_read", "mount_write"} => Query(task[p].req, "mount") \in Blob
    /\ UNCHANGED authVars

(* A step of p is one at the gate, its answer, its dispatch or a further   *)
(* call, and only that may give its client a link.                         *)
Proceeds(p) ==
    /\ UNCHANGED auth
    /\ DOMAIN page' = Task
    /\ \A q \in Task : /\ DOMAIN page'[q] = {"of", "seen", "link", "bent", "over", "found"}
                       /\ page'[q].link # None => page[q].link # None \/ task[q].do # "idle"
    /\ \/ Gate(p)
       \/ /\ task' = [task EXCEPT ![p] = task'[p]]
          /\ Answered(p) \/ Dispatched(p) \/ Continues(p)

LEMMA AnsweredTask ==
    ASSUME TasksOK, NEW p \in Task, Answered(p)
    PROVE  /\ task' = [task EXCEPT ![p] = task'[p]]
           /\ Shaped(task'[p]) /\ task'[p].do = "idle" /\ task'[p].req = task[p].req
BY DEF TasksOK, Shaped, Answered, Free

(* An answer that is no page of a listing.                                 *)
LEMMA AnswerProceeds ==
    ASSUME TasksOK, NEW p \in Task, Answered(p), UNCHANGED <<auth, page>>
    PROVE  Proceeds(p)
BY AnsweredTask DEF Proceeds, TasksOK

LEMMA GoesProceeds ==
    ASSUME TasksOK, NEW p \in Task, task[p].do \in Step \ Reads, NEW do \in Inner,
           Needs(do) = Needs(task[p].do), First(do) = First(task[p].do),
           NEW repo \in {task[p].repo, Query(task[p].req, "from")},
           do \in {"mount_read", "mount_write"} => Query(task[p].req, "mount") \in Blob,
           Goes(p, do, repo), UNCHANGED <<auth, page>>
    PROVE  Proceeds(p)
<1>1. Shaped(task[p]) /\ DOMAIN task = Task  BY DEF TasksOK
<1>2. task' = [task EXCEPT ![p] = [task[p] EXCEPT !.do = do, !.root = resolve(repo)]]  BY DEF Goes
<1>3. task'[p] = [task[p] EXCEPT !.do = do, !.root = resolve(repo)]  BY <1>1, <1>2
<1>4. /\ task'[p].do = do /\ task'[p].root = resolve(repo) /\ Shaped(task'[p])
      /\ task'[p].req = task[p].req /\ task'[p].repo = task[p].repo /\ task'[p].ref = task[p].ref
      BY <1>1, <1>3 DEF Shaped
<1>5. Continues(p)  BY <1>4 DEF Continues, Goes
<1>6. task' = [task EXCEPT ![p] = task'[p]]  BY <1>2, <1>3
<1> QED BY <1>5, <1>6 DEF Proceeds, TasksOK

(* A page changes nothing of another client, nor what the listing is of.   *)
LEMMA RespondsTo ==
    ASSUME TasksOK, NEW p \in Task, NEW names, Respond(p, names)
    PROVE  /\ DOMAIN page' = Task
           /\ \A r \in Task : /\ DOMAIN page'[r] = DOMAIN page[r] /\ page'[r].of = page[r].of
                              /\ r # p => page'[r] = page[r]
<1> DEFINE q == task[p].req
           after == {x \in names : Query(q, "last") = None \/ Rank[x] > Query(q, "last")}
           shown == IF Query(q, "n") = None THEN Sorted(after)
                    ELSE SubSeq(Sorted(after), 1, Min({Len(Sorted(after)), Query(q, "n")}))
           more == Len(shown) < Cardinality(after)
           link == more /\ shown # <<>>
           last == Last(shown)
<1>1. page' = [page EXCEPT
            ![p].seen = page[p].seen \o shown, ![p].over = ~more,
            ![p].link = IF link THEN Decoded[last] ELSE None,
            ![p].bent = page[p].bent \/ (link /\ Decoded[last] # Rank[last])]
      BY DEF Respond
<1> HIDE DEF shown, more, link, last
<1> QED BY <1>1 DEF TasksOK

LEMMA RespondProceeds ==
    ASSUME TasksOK, NEW p \in Task, task[p].do \in Step, NEW names, Respond(p, names), UNCHANGED auth
    PROVE  Proceeds(p)
<1>1. task[p].do # "idle"  BY Steps DEF Inner
<1>2. Answered(p)  BY DEF Respond
<1> QED BY <1>1, <1>2, RespondsTo, AnsweredTask DEF Proceeds, TasksOK

LEMMA ListsProceeds ==
    ASSUME TasksOK, NEW p \in Task, task[p].do \in {"catalog", "tags_list"},
           NEW do \in {"list_repos", "has_repo"}, First(do) = task[p].do,
           ListsRepos(p, do), UNCHANGED auth
    PROVE  Proceeds(p)
<1>1. /\ Needs(do) = Needs(task[p].do) /\ First(do) = First(task[p].do)
      /\ do \in Inner /\ task[p].do \in Step \ Reads
      BY Steps DEF Needs, First, Inner, Reads
<1>2. Continues(p) /\ task' = [task EXCEPT ![p] = task'[p]]
      BY <1>1 DEF ListsRepos, TasksOK, Shaped, Continues
<1> QED BY <1>2 DEF Proceeds, TasksOK, ListsRepos

(* Every step of a handler proceeds with the request it was given.         *)
LEMMA HandleProceeds == ASSUME TasksOK, NEW p \in Task, Handle(p) PROVE Proceeds(p)
<1>n. /\ \A do \in {"upload_start", "mount_read", "mount_write", "upload_post", "upload_finish",
                    "upload_finalize"} : Needs(do) = "update"
      /\ \A do \in {"referrers", "referrers_read"} : Needs(do) = "get"
      BY DEF Needs
<1>f. /\ \A do \in {"upload_start", "mount_read", "mount_write", "upload_post"} : First(do) = "upload_start"
      /\ \A do \in {"upload_finish", "upload_finalize"} : First(do) = "upload_finish"
      /\ \A do \in {"referrers", "referrers_read"} : First(do) = "referrers"
      /\ First("list_repos") = "catalog" /\ First("has_repo") = "tags_list"
      BY DEF First
<1>s. /\ \A do \in Inner \cup {"upload_start", "upload_finish", "catalog", "tags_list", "referrers"} :
            do \in Step \ Reads
      /\ \A do \in {"mount_read", "mount_write", "upload_post", "upload_finalize",
                    "list_repos", "has_repo", "referrers_read"} : do \in Inner
      BY Steps DEF Inner, Reads
<1>1. CASE Gate(p)
      BY <1>1 DEF Gate, Proceeds, TasksOK
<1>2. CASE dispatch(p)
  <2>1. CASE Answered(p)  BY <1>2, <2>1, AnswerProceeds DEF dispatch
  <2>2. CASE ~Answered(p)
    <3>1. PICK h \in Handlers(task[p].req) : task' = [task EXCEPT ![p] =
              [Free EXCEPT !.do = h.do, !.repo = h.repo, !.ref = h.ref, !.root = resolve(h.repo),
                           !.req = task[p].req]]
          BY <1>2, <2>2 DEF dispatch
    <3>2. Dispatched(p) /\ task' = [task EXCEPT ![p] = task'[p]]
          BY <1>2, <2>2, <3>1 DEF dispatch, Dispatched, TasksOK, Shaped, Free
    <3> QED BY <1>2, <3>2 DEF dispatch, Proceeds, TasksOK
  <2> QED BY <2>1, <2>2
<1>3. CASE Abort(p) \/ ReadOnly(p) \/ manifest_put(p) \/ manifest_delete(p) \/ blob_delete(p)
           \/ mount_write(p) \/ upload_post(p) \/ upload_chunk(p) \/ upload_finalize(p)
           \/ upload_cancel(p) \/ repo_root_upsert(p)
  <2>1. Answered(p) /\ UNCHANGED <<auth, page>>
        BY <1>3 DEF Abort, ReadOnly, manifest_put, manifest_delete, blob_delete, mount_write,
             upload_post, upload_chunk, upload_finalize, upload_cancel, repo_root_upsert, Writes
  <2> QED BY <2>1, AnswerProceeds
<1>4. CASE mount_exists(p)
  <2>1. UNCHANGED <<auth, page>> /\ task[p].do = "upload_start" /\ Query(task[p].req, "mount") \in Blob
        BY <1>4 DEF mount_exists
  <2>2. \/ Answered(p)
        \/ Goes(p, "mount_read", Query(task[p].req, "from"))
        \/ Goes(p, "upload_post", task[p].repo)
        BY <1>4 DEF mount_exists
  <2> QED BY <1>n, <1>f, <1>s, <2>1, <2>2, AnswerProceeds, GoesProceeds
<1>5. CASE mount_read(p)
  <2>1. UNCHANGED <<auth, page>> /\ task[p].do = "mount_read"  BY <1>5 DEF mount_read
  <2>2. Query(task[p].req, "mount") \in Blob  BY <2>1 DEF TasksOK
  <2>3. Goes(p, "mount_write", task[p].repo) \/ Goes(p, "upload_post", task[p].repo)
        BY <1>5 DEF mount_read
  <2> QED BY <1>n, <1>f, <1>s, <2>1, <2>2, <2>3, GoesProceeds
<1>6. CASE upload_finish(p)
  <2>1. UNCHANGED <<auth, page>> /\ task[p].do = "upload_finish"  BY <1>6 DEF upload_finish
  <2>2. Answered(p) \/ Goes(p, "upload_finalize", task[p].repo)  BY <1>6 DEF upload_finish
  <2> QED BY <1>n, <1>f, <1>s, <2>1, <2>2, AnswerProceeds, GoesProceeds
<1>7. CASE catalog(p)  BY <1>f, <1>7, ListsProceeds DEF catalog
<1>8. CASE list_repos(p)
  <2>1. task[p].do \in {"list_repos", "has_repo"} /\ UNCHANGED <<authVars, auth, page>>
        BY <1>8 DEF list_repos
  <2>2. /\ Shaped(task'[p]) /\ task'[p].do = task[p].do /\ task'[p].req = task[p].req
        /\ task'[p].repo = task[p].repo /\ task'[p].ref = task[p].ref
        /\ task'[p].root = task[p].root /\ task' = [task EXCEPT ![p] = task'[p]]
    <3>1. PICK left, bag : task' = [task EXCEPT ![p].left = left, ![p].bag = bag]
          BY <1>8 DEF list_repos
    <3> QED BY <3>1 DEF TasksOK, Shaped
  <2>3. Continues(p)  BY <1>s, <2>1, <2>2 DEF Continues
  <2> QED BY <2>1, <2>2, <2>3 DEF Proceeds, TasksOK
<1>9. CASE catalog_page(p)  BY <1>9, <1>s, RespondProceeds DEF catalog_page
<1>10. CASE tags_list(p)  BY <1>10, <1>f, <1>s, ListsProceeds, RespondProceeds DEF tags_list
<1>11. CASE has_repo(p)
  <2>1. CASE Respond(p, {})  BY <1>11, <1>s, <2>1, RespondProceeds DEF has_repo
  <2>2. CASE ~Respond(p, {})
    <3>1. page' = [page EXCEPT ![p] = [page[p] EXCEPT !.over = TRUE, !.found = FALSE]]
          /\ Answered(p) /\ UNCHANGED auth
          BY <1>11, <2>2 DEF has_repo
    <3> QED BY <3>1, AnsweredTask DEF Proceeds, TasksOK
  <2> QED BY <2>1, <2>2
<1>12. CASE referrers(p)
  <2>1. task[p].do = "referrers" /\ UNCHANGED <<authVars, auth, page>>  BY <1>12 DEF referrers
  <2>2. /\ Shaped(task'[p]) /\ task'[p].do = "referrers_read" /\ task'[p].req = task[p].req
        /\ task'[p].repo = task[p].repo /\ task'[p].ref = task[p].ref
        /\ task'[p].root = task[p].root /\ task' = [task EXCEPT ![p] = task'[p]]
        BY <1>12 DEF referrers, TasksOK, Shaped
  <2>3. Continues(p)  BY <1>n, <1>f, <1>s, <2>1, <2>2 DEF Continues
  <2> QED BY <2>1, <2>2, <2>3 DEF Proceeds, TasksOK
<1>13. CASE referrers_read(p)
  <2>1. CASE Respond(p, task[p].bag)  BY <1>13, <1>s, <2>1, RespondProceeds DEF referrers_read
  <2>2. CASE ~Respond(p, task[p].bag)
    <3>1. task[p].do = "referrers_read" /\ UNCHANGED <<authVars, auth, page>>
          BY <1>13, <2>2 DEF referrers_read
    <3>2. /\ Shaped(task'[p]) /\ task'[p].do = "referrers_read" /\ task'[p].req = task[p].req
          /\ task'[p].repo = task[p].repo /\ task'[p].ref = task[p].ref
          /\ task'[p].root = resolve(task[p].repo) /\ task' = [task EXCEPT ![p] = task'[p]]
      <4>1. PICK left, bag : task' = [task EXCEPT ![p].left = left, ![p].bag = bag,
                                                  ![p].root = resolve(task[p].repo)]
            BY <1>13, <2>2 DEF referrers_read
      <4> QED BY <3>1, <4>1 DEF TasksOK, Shaped
    <3>3. Continues(p)  BY <1>s, <3>1, <3>2 DEF Continues
    <3> QED BY <3>1, <3>2, <3>3 DEF Proceeds, TasksOK
  <2> QED BY <2>1, <2>2
<1> QED BY <1>1, <1>2, <1>3, <1>4, <1>5, <1>6, <1>7, <1>8, <1>9, <1>10, <1>11, <1>12, <1>13 DEF Handle

(* A task that proceeds is still on a request as it was parsed.            *)
LEMMA TasksProceed == ASSUME GateInv, TasksOK, NEW p \in Task, Proceeds(p) PROVE TasksOK'
<1>1. /\ auth' \in Modes /\ DOMAIN page' = Task
      /\ \A q \in Task : DOMAIN page'[q] = {"of", "seen", "link", "bent", "over", "found"}
      BY DEF Proceeds, TasksOK
<1>2. \A q \in Task : page'[q].link # None => page[q].link # None \/ task[q].do # "idle"
      BY DEF Proceeds
<1>3. CASE Gate(p)
  <2>1. task' = task  BY <1>3 DEF Gate
  <2>2. \A q \in Task : gate[q].at = "open" => gate'[q].at = "open"
        BY <1>3 DEF Gate, GateStep, token_lookup, review_token, sar_lookup, review_access,
             ReviewFails, Authenticated, Authorized, GateInv, GateType
  <2> QED BY <1>1, <1>2, <2>1, <2>2 DEF TasksOK
<1>4. CASE /\ task' = [task EXCEPT ![p] = task'[p]]
           /\ Answered(p) \/ Dispatched(p) \/ Continues(p)
  <2>1. DOMAIN task' = Task /\ \A q \in Task : q # p => task'[q] = task[q]  BY <1>4 DEF TasksOK
  <2>2. \A q \in Task : q # p => gate'[q] = gate[q]
        BY <1>4 DEF Answered, Dispatched, Continues, authVars, GateInv, GateType
  <2>3. /\ Shaped(task'[p])
        /\ task'[p].do \in Step \cup {"idle", "auth"}
        /\ task'[p].req = task[p].req
        /\ task[p].do = "idle" => task'[p].do = "idle"
        /\ task'[p].do \in Step => gate'[p].at = "open"
        /\ task'[p].do = "manifest_put" => task[p].req.body \in Manifest
        /\ task'[p].do = "repo_root_upsert" =>
              task[p].req.body \in [pattern : Pattern, root : Root]
        /\ task'[p].do \in {"mount_read", "mount_write"} => Query(task[p].req, "mount") \in Blob
    <3>1. CASE Answered(p)  BY <3>1, AnsweredTask, Steps DEF Inner
    <3>2. CASE Dispatched(p)
      <4>1. PICK h \in Handlers(task[p].req) : task'[p].do = h.do  BY <3>2 DEF Dispatched
      <4>2. h.do \in Step \ Inner  BY Steps DEF Handlers
      <4>3. WellFormed(task[p].req)  BY <3>2 DEF Dispatched, TasksOK
      <4>4. /\ h.do = "manifest_put" => task[p].req.body \in Manifest
            /\ h.do = "repo_root_upsert" => task[p].req.body \in [pattern : Pattern, root : Root]
            BY <4>3 DEF WellFormed
      <4> QED BY <3>2, <4>1, <4>2, <4>4 DEF Dispatched, authVars, Inner
    <3>3. CASE Continues(p)
      <4>1. /\ task'[p].do \notin {"manifest_put", "repo_root_upsert"} /\ task'[p].do \in Step
            /\ task[p].do # "idle"
            BY <3>3, Steps DEF Continues, Inner
      <4> QED BY <3>3, <4>1 DEF Continues, authVars, TasksOK
    <3> QED BY <1>4, <3>1, <3>2, <3>3
  <2> QED BY <1>1, <1>2, <2>1, <2>2, <2>3 DEF TasksOK
<1> QED BY <1>3, <1>4 DEF Proceeds

-----------------------------------------------------------------------------
(* Requests and their verdicts.                                            *)

(* classify never takes a request for one of the token endpoint.           *)
LEMMA Classified ==
    \A method, path : classify(method, path).action \in Action \ {"Token"}
<1> SUFFICES ASSUME NEW method, NEW path
             PROVE  classify(method, path).action \in Action \ {"Token"}
    OBVIOUS
<1>1. CASE IsVersion(path) \/ Head(path) = "admin" \/ path = <<"v2", "_catalog">>
           \/ (Head(path) = "v2" /\ EndsIn(Tail(path), <<"tags", "list">>))
      BY <1>1 DEF classify, Action
<1>2. CASE ~(IsVersion(path) \/ Head(path) = "admin" \/ path = <<"v2", "_catalog">>
             \/ (Head(path) = "v2" /\ EndsIn(Tail(path), <<"tags", "list">>)))
      BY <1>2 DEF classify, Action
<1> QED BY <1>1, <1>2

LEMMA BeginOK ==
    ASSUME GateInv, NEW p \in Task, NEW req, WellFormed(req), Begin(p, req)
    PROVE  GateInv'
<1>1. req.token \in Token \cup {None}  BY DEF WellFormed
<1>2. CASE \E open : Opens(p, open)  BY <1>2, OpensOK
<1>3. CASE ~\E open : Opens(p, open)
  <2> DEFINE op == IF req.path = <<"token">> THEN token_endpoint
                   ELSE classify(req.method, req.path)
  <2>1. check(p, op.action, op.repo, req.token, req.loopback /\ op.action # "Token")
        BY <1>3 DEF Begin, require_auth
  <2>2. op.action \in Action  BY Classified DEF token_endpoint, Action
  <2> HIDE DEF op
  <2> QED BY <1>1, <2>1, <2>2, CheckOK
<1> QED BY <1>2, <1>3

LEMMA HandleGate == ASSUME GateInv, TasksOK, NEW p \in Task, Handle(p) PROVE GateInv'
<1>1. Proceeds(p)  BY HandleProceeds
<1>2. CASE Gate(p)  BY <1>2, GateStepOK DEF Gate
<1>3. CASE Answered(p)  BY <1>3, AnsweredOK
<1>4. CASE UNCHANGED authVars  BY <1>4 DEF GateInv, GateType, EntriesOK, authVars
<1> QED BY <1>1, <1>2, <1>3, <1>4 DEF Proceeds, Dispatched, Continues

LEMMA BeginTasks ==
    ASSUME GateInv, TasksOK, NEW p \in Task, NEW req, WellFormed(req), Begin(p, req), UNCHANGED auth,
           DOMAIN page' = Task,
           \A q \in Task : /\ DOMAIN page'[q] = {"of", "seen", "link", "bent", "over", "found"}
                           /\ page'[q].link # None => q = p \/ page[q].link # None
    PROVE  TasksOK'
<1>1. /\ DOMAIN task' = Task /\ Shaped(task'[p]) /\ task'[p].do = "auth" /\ task'[p].req = req
      /\ \A q \in Task : q # p => task'[q] = task[q]
      BY DEF Begin, TasksOK, Shaped, Free
<1>2. \A q \in Task : q # p => gate'[q] = gate[q]
      BY DEF Begin, require_auth, Opens, check, GateInv, GateType
<1>3. "auth" \notin Step  BY Steps DEF Inner
<1> QED BY <1>1, <1>2, <1>3 DEF TasksOK

(* The caches, the gate and the tasks, together.                           *)
ServerInv == GateInv /\ TasksOK

LEMMA ServerInit == Init => ServerInv
<1> SUFFICES ASSUME Init PROVE ServerInv  OBVIOUS
<1>1. Shut = [Shut EXCEPT !.at = "idle"]  BY DEF Shut
<1>2. Shut \in Passage /\ ShownOK(Shut)  BY <1>1, ShutOK
<1>3. GateInv  BY <1>2 DEF Init, AuthInit, GateInv, GateType, EntriesOK, EntryOK
<1>4. TasksOK  BY Steps DEF Init, TasksOK, Shaped, Free, NoPage, Inner
<1> QED BY <1>3, <1>4 DEF ServerInv

LEMMA ReceiveOK == ASSUME ServerInv, NEW p \in Task, NEW req \in Request[auth], Receive(p, req) PROVE ServerInv'
<1>1. GateInv /\ TasksOK  BY DEF ServerInv
<1>2. WellFormed(req)  BY <1>1, ServerConstants DEF TasksOK
<1>3. Begin(p, req) /\ UNCHANGED auth  BY DEF Receive
<1>4. PICK of : page' = [page EXCEPT ![p] = [NoPage EXCEPT !.of = of]]  BY DEF Receive
<1>5. /\ DOMAIN page' = Task
      /\ \A q \in Task : /\ DOMAIN page'[q] = {"of", "seen", "link", "bent", "over", "found"}
                         /\ page'[q].link # None => q = p \/ page[q].link # None
      BY <1>1, <1>4 DEF TasksOK, NoPage
<1> QED BY <1>1, <1>2, <1>3, <1>5, BeginOK, BeginTasks DEF ServerInv

(* A request with another query is as well-formed, and goes to the same    *)
(* handler.                                                                *)
LEMMA OtherQuery ==
    ASSUME NEW old, WellFormed(old), NEW q
    PROVE  /\ WellFormed([old EXCEPT !.q = q])
           /\ Handlers([old EXCEPT !.q = q]) = Handlers(old) /\ [old EXCEPT !.q = q].q = q
<1> DEFINE req == [old EXCEPT !.q = q]
<1>1. old = [method |-> old.method, path |-> old.path, q |-> old.q, body |-> old.body,
             token |-> old.token, loopback |-> old.loopback]
      BY DEF WellFormed
<1>2. req = [method |-> old.method, path |-> old.path, q |-> q, body |-> old.body,
             token |-> old.token, loopback |-> old.loopback]
      BY <1>1
<1> HIDE DEF req
<1>3. /\ req.method = old.method /\ req.path = old.path /\ req.q = q /\ req.body = old.body
      /\ req.token = old.token /\ req.loopback = old.loopback
      BY <1>2
<1>4. Handlers(req) = Handlers(old)  BY <1>3 DEF Handlers
<1>5. req = [method |-> req.method, path |-> req.path, q |-> req.q, body |-> req.body,
             token |-> req.token, loopback |-> req.loopback]
      BY <1>2, <1>3
<1>6. WellFormed(req)  BY <1>3, <1>4, <1>5 DEF WellFormed
<1> QED BY <1>3, <1>4, <1>6 DEF req

LEMMA FollowOK == ASSUME ServerInv, NEW p \in Task, FollowLink(p) PROVE ServerInv'
<1>1. GateInv /\ TasksOK  BY DEF ServerInv
<1>2. WellFormed(task[p].req)  BY <1>1 DEF FollowLink, TasksOK
<1>3. PICK q : Begin(p, [task[p].req EXCEPT !.q = q])  BY DEF FollowLink
<1>4. WellFormed([task[p].req EXCEPT !.q = q])  BY <1>2, OtherQuery
<1>5. UNCHANGED auth /\ page' = [page EXCEPT ![p].link = None]  BY DEF FollowLink
<1>6. /\ DOMAIN page' = Task
      /\ \A r \in Task : /\ DOMAIN page'[r] = {"of", "seen", "link", "bent", "over", "found"}
                         /\ page'[r].link # None => r = p \/ page[r].link # None
      BY <1>1, <1>5 DEF TasksOK
<1> QED BY <1>1, <1>3, <1>4, <1>5, <1>6, BeginOK, BeginTasks DEF ServerInv

LEMMA TickTasks == ASSUME GateInv, TasksOK, Tick, UNCHANGED <<auth, task, page>> PROVE TasksOK'
<1>1. \A p \in Task : gate'[p].at = gate[p].at
      BY DEF Tick, GateInv, GateType, Passage
<1> QED BY <1>1 DEF TasksOK

LEMMA ServerNext == ServerInv /\ [Next]_vars => ServerInv'
<1> SUFFICES ASSUME ServerInv, [Next]_vars PROVE ServerInv'  OBVIOUS
<1>0. GateInv /\ TasksOK  BY DEF ServerInv
<1>1. CASE \E p \in Task : \E req \in Request[auth] : Receive(p, req)  BY <1>1, ReceiveOK
<1>2. CASE \E p \in Task : FollowLink(p)  BY <1>2, FollowOK
<1>3. CASE \E p \in Task : Handle(p)
      BY <1>0, <1>3, HandleProceeds, TasksProceed, HandleGate DEF ServerInv
<1>4. CASE Ticks  BY <1>0, <1>4, TickOK, TickTasks DEF Ticks, ServerInv
<1>5. CASE UNCHANGED vars
      BY <1>0, <1>5 DEF vars, authVars, ServerInv, GateInv, GateType, EntriesOK, TasksOK
<1> QED BY <1>1, <1>2, <1>3, <1>4, <1>5 DEF Next

LEMMA ServerInductive == Spec => []ServerInv
BY ServerInit, ServerNext, PTL DEF Spec

(* The TTL bounds how long a verdict outlives its withdrawal: a request is *)
(* let through on verdicts no older than an entry lives and the reviews    *)
(* last (token_review_cached, sar_cached). An entry is born with an age of *)
(* at most one review and loses a tick of life for each it ages, so what   *)
(* it says is bounded whenever it is found alive.                          *)
THEOREM FreshForever == Spec => []FreshVerdicts
<1>1. ServerInv => FreshVerdicts  BY DEF ServerInv, GateInv, ShownOK, FreshVerdicts
<1> QED BY <1>1, ServerInductive, PTL

-----------------------------------------------------------------------------
(* Permission.                                                             *)

(* What check is told of a request.                                        *)
Asked(req) == classify(req.method, req.path)

(* Requests that the gate lets through without an access review.           *)
Spared(req) ==
    \/ req.method = "GET" /\ IsVersion(req.path)
    \/ req.path = <<"token">>
    \/ Asked(req).action = "Version"
    \/ AllowLoopback /\ req.loopback

Told(p) ==
    /\ gate[p].action = Asked(task[p].req).action
    /\ gate[p].ns = namespace_for(Asked(task[p].req).repo)
    /\ gate[p].token = task[p].req.token

(* While a request is at the gate, the gate knows what it asks for, and    *)
(* opens only on a verdict; the handler it is dispatched to keeps it.      *)
AdmittedOK(p) ==
    /\ task[p].do = "auth" /\ ~Spared(task[p].req) =>
        Told(p) /\ (gate[p].at = "open" => gate[p].may # None)
    /\ task[p].do \in Reviewed /\ ~(AllowLoopback /\ task[p].req.loopback) =>
        /\ gate[p].may # None /\ gate[p].may.ok
        /\ gate[p].may.of[1] = UserOf[task[p].req.token]
        /\ gate[p].may.of[3] = Needs(task[p].do)
        /\ ~Clipped(task[p].repo) => gate[p].may.of[2] = namespace_for(task[p].repo)

AdmissionInv == auth = "k8s" => \A p \in Task : AdmittedOK(p)

LEMMA BeginAdmitted ==
    ASSUME ServerInv, AdmissionInv, NEW p \in Task, NEW req, WellFormed(req), Begin(p, req),
           UNCHANGED auth
    PROVE  AdmissionInv'
<1> SUFFICES ASSUME auth = "k8s", NEW q \in Task PROVE AdmittedOK(q)'  BY DEF AdmissionInv
<1>0. GateInv /\ TasksOK /\ AdmittedOK(q)  BY DEF ServerInv, AdmissionInv
<1>1. task' = [task EXCEPT ![p] = task'[p]] /\ task'[p].do = "auth" /\ task'[p].req = req
      BY <1>0 DEF Begin, TasksOK, Free
<1>2. CASE q # p
  <2>1. task'[q] = task[q]  BY <1>0, <1>1, <1>2 DEF TasksOK
  <2>2. gate'[q] = gate[q]
        BY <1>0, <1>2 DEF Begin, require_auth, Opens, check, GateInv, GateType
  <2> QED BY <1>0, <2>1, <2>2 DEF AdmittedOK, Told
<1>3. CASE q = p
  <2> SUFFICES ASSUME ~Spared(req)
               PROVE  Told(p)' /\ (gate'[p].at = "open" => gate'[p].may # None)
    BY <1>1, <1>3, Steps DEF AdmittedOK, Inner, Reviewed
  <2> DEFINE op == Asked(req)
             at == IF op.action = "Version" \/ (AllowLoopback /\ req.loopback /\ op.action # "Token")
                   THEN "open" ELSE IF req.token = None THEN "shut" ELSE "token"
             g == [Shut EXCEPT !.at = at, !.action = op.action, !.ns = namespace_for(op.repo),
                               !.token = req.token]
  <2>1. check(p, op.action, op.repo, req.token, req.loopback /\ op.action # "Token")
        BY DEF Begin, require_auth, Spared, Asked
  <2>2. gate' = [gate EXCEPT ![p] = g]  BY <2>1 DEF check
  <2>3. at # "open"  BY DEF Spared
  <2> HIDE DEF at, op
  <2>4. gate'[p] = g  BY <1>0, <2>2 DEF GateInv, GateType
  <2>5. g.at = at /\ g.action = op.action /\ g.ns = namespace_for(op.repo) /\ g.token = req.token
        BY DEF Shut
  <2> HIDE DEF g
  <2> QED BY <1>1, <2>3, <2>4, <2>5 DEF Told, op
<1> QED BY <1>2, <1>3

(* What a step at the gate does to the request of p.                       *)
LEMMA GateMoves ==
    ASSUME GateInv, NEW p \in Task, GateStep(p)
    PROVE  /\ gate[p].at \in {"token", "reviewing", "access", "asking"}
           /\ \/ \E at \in {"reviewing", "asking"} : gate' = [gate EXCEPT ![p].at = at]
              \/ gate' = [gate EXCEPT ![p] = [gate[p] EXCEPT !.at = "shut", !.wait = 0]]
              \/ \E v : Authenticated(p, v)
              \/ \E v \in Verdict(Key) : Authorized(p, v)
<1>0. gate[p] \in Passage /\ ShownOK(gate[p])  BY DEF GateInv, GateType
<1>1. CASE token_lookup(p)  BY <1>1 DEF token_lookup
<1>2. CASE review_token(p)  BY <1>2 DEF review_token
<1>3. CASE sar_lookup(p)
  <2> DEFINE k == AccessReview(p)  hit == Lookup(sar_cache[k])
  <2>1. gate[p].at = "access" /\ k \in Key  BY <1>3, ReviewKey DEF sar_lookup
  <2>2. hit # None => Said(hit) \in Verdict(Key)
        BY <2>1, LookupOK DEF GateInv, GateType, EntriesOK
  <2>3. IF hit = None THEN gate' = [gate EXCEPT ![p].at = "asking"] ELSE Authorized(p, Said(hit))
        BY <1>3 DEF sar_lookup, sar_key
  <2> HIDE DEF hit
  <2> QED BY <2>1, <2>2, <2>3
<1>4. CASE review_access(p)
  <2> DEFINE k == AccessReview(p)
  <2>1. gate[p].at = "asking" /\ k \in Key  BY <1>4, ReviewKey DEF review_access
  <2>2. PICK v \in Answers(p, k) : Authorized(p, v)  BY <1>4 DEF review_access, sar_key
  <2> HIDE DEF k
  <2>3. v \in Verdict(Key)
        BY <1>0, <2>1, <2>2, AuthConstants DEF Answers, Verdict, Age, Bound, Passage
  <2> QED BY <2>1, <2>2, <2>3
<1>5. CASE ReviewFails(p)  BY <1>5 DEF ReviewFails
<1> QED BY <1>1, <1>2, <1>3, <1>4, <1>5 DEF GateStep

(* A step at the gate opens it on a verdict, or at the token endpoint.     *)
LEMMA GateAdmitted ==
    ASSUME ServerInv, AdmissionInv, NEW p \in Task, Gate(p)
    PROVE  AdmissionInv'
<1> SUFFICES ASSUME auth = "k8s", NEW q \in Task PROVE AdmittedOK(q)'  BY DEF AdmissionInv, Gate
<1>0. GateInv /\ TasksOK /\ AdmittedOK(q)  BY DEF ServerInv, AdmissionInv
<1>1. task' = task /\ gate \in [Task -> Passage]  BY <1>0 DEF Gate, GateInv, GateType
<1>2. /\ gate[p].at \in {"token", "reviewing", "access", "asking"}
      /\ \/ \E at \in {"reviewing", "asking"} : gate' = [gate EXCEPT ![p].at = at]
         \/ gate' = [gate EXCEPT ![p] = [gate[p] EXCEPT !.at = "shut", !.wait = 0]]
         \/ \E v : Authenticated(p, v)
         \/ \E v \in Verdict(Key) : Authorized(p, v)
      BY <1>0, GateMoves DEF Gate
<1>3. q # p => gate'[q] = gate[q]  BY <1>1, <1>2 DEF Authenticated, Authorized
<1>4. gate'[p].action = gate[p].action /\ gate'[p].ns = gate[p].ns /\ gate'[p].token = gate[p].token
  <2>0. gate[p] \in Passage  BY <1>1
  <2>1. CASE \E v : Authenticated(p, v)  BY <1>1, <2>0, <2>1 DEF Authenticated, Passage
  <2>2. CASE \E v : Authorized(p, v)  BY <1>1, <2>0, <2>2 DEF Authorized, Passage
  <2>3. CASE \/ \E at \in {"reviewing", "asking"} : gate' = [gate EXCEPT ![p].at = at]
             \/ gate' = [gate EXCEPT ![p] = [gate[p] EXCEPT !.at = "shut", !.wait = 0]]
    <3>1. CASE \E at : gate' = [gate EXCEPT ![p].at = at]  BY <1>1, <2>0, <3>1 DEF Passage
    <3>2. CASE gate' = [gate EXCEPT ![p] = [gate[p] EXCEPT !.at = "shut", !.wait = 0]]
          BY <1>1, <2>0, <3>2 DEF Passage
    <3> QED BY <2>3, <3>1, <3>2
  <2> QED BY <1>2, <2>1, <2>2, <2>3
<1>5. gate'[p].at = "open" => gate'[p].may # None \/ gate[p].action = "Token"
  <2>0. gate[p] \in Passage  BY <1>1
  <2>1. CASE \E v \in Verdict(Key) : Authorized(p, v)
    <3>1. PICK v \in Verdict(Key) : Authorized(p, v)  BY <2>1
    <3>2. gate'[p].may = v  BY <1>1, <2>0, <3>1 DEF Authorized, Passage
    <3>3. v # None  BY AuthConstants
    <3> QED BY <3>2, <3>3
  <2>2. CASE \E v : Authenticated(p, v)  BY <1>1, <2>0, <2>2 DEF Authenticated, Passage
  <2>3. CASE \/ \E at \in {"reviewing", "asking"} : gate' = [gate EXCEPT ![p].at = at]
             \/ gate' = [gate EXCEPT ![p] = [gate[p] EXCEPT !.at = "shut", !.wait = 0]]
        BY <1>1, <2>0, <2>3, ZenonT(40) DEF Passage
  <2> QED BY <1>2, <2>1, <2>2, <2>3
<1>6. CASE q # p
  <2>1. task'[q] = task[q] /\ gate'[q] = gate[q]  BY <1>1, <1>3, <1>6
  <2> QED BY <1>0, <2>1 DEF AdmittedOK, Told
<1>7. CASE q = p
  <2>1. task[p].do \notin Step  BY <1>0, <1>2 DEF TasksOK
  <2> SUFFICES ASSUME task[p].do = "auth", ~Spared(task[p].req)
               PROVE  Told(p)' /\ (gate'[p].at = "open" => gate'[p].may # None)
    BY <1>1, <1>7, <2>1 DEF AdmittedOK, Reviewed
  <2>2. Told(p)  BY <1>0, <1>7 DEF AdmittedOK
  <2>3. gate[p].action # "Token"  BY <2>2, Classified DEF Told, Asked
  <2> QED BY <1>1, <1>4, <1>5, <2>2, <2>3 DEF Told
<1> QED BY <1>6, <1>7

(* Time changes neither what a request asked for nor what it has got.      *)
LEMMA TickAdmitted ==
    ASSUME ServerInv, AdmissionInv, Ticks PROVE AdmissionInv'
<1> SUFFICES ASSUME auth = "k8s", NEW q \in Task PROVE AdmittedOK(q)'  BY DEF AdmissionInv, Ticks
<1>0. GateInv /\ AdmittedOK(q)  BY DEF ServerInv, AdmissionInv
<1>1. gate[q] \in Passage  BY <1>0 DEF GateInv, GateType
<1>2. task' = task /\ Tick  BY DEF Ticks
<1>3. /\ gate'[q].at = gate[q].at /\ gate'[q].may = gate[q].may /\ gate'[q].ns = gate[q].ns
      /\ gate'[q].action = gate[q].action /\ gate'[q].token = gate[q].token
      BY <1>1, <1>2 DEF Tick, Passage
<1>4. task'[q] = task[q]  BY <1>2
<1> QED BY <1>0, <1>3, <1>4 DEF AdmittedOK, Told

(* An answer ends the task; a further call needs what the last one did.    *)
LEMMA ProceedsAdmitted ==
    ASSUME ServerInv, AdmissionInv, NEW p \in Task, Proceeds(p)
    PROVE  AdmissionInv'
<1>1. CASE Gate(p)  BY <1>1, GateAdmitted
<1>2. CASE /\ task' = [task EXCEPT ![p] = task'[p]]
           /\ Answered(p) \/ Dispatched(p) \/ Continues(p)
  <2> SUFFICES ASSUME auth = "k8s", NEW q \in Task PROVE AdmittedOK(q)'
    BY DEF AdmissionInv, Proceeds
  <2>0. GateInv /\ TasksOK /\ AdmittedOK(q)  BY DEF ServerInv, AdmissionInv
  <2>1. CASE q # p
    <3>1. task'[q] = task[q]  BY <1>2, <2>0, <2>1 DEF TasksOK
    <3>2. gate'[q] = gate[q]
          BY <1>2, <2>0, <2>1 DEF Answered, Dispatched, Continues, authVars, GateInv, GateType
    <3> QED BY <2>0, <3>1, <3>2 DEF AdmittedOK, Told
  <2>2. CASE q = p /\ Answered(p)
    <3>1. task'[p].do = "idle" /\ "idle" \notin Step  BY <2>0, <2>2, AnsweredTask, Steps DEF Inner
    <3> QED BY <2>2, <3>1 DEF AdmittedOK, Reviewed
  <2>3. CASE q = p /\ Dispatched(p)
    <3> DEFINE req == task[p].req
    <3>1. PICK h \in Handlers(req) : task'[p].do = h.do /\ task'[p].repo = h.repo
          BY <2>3 DEF Dispatched
    <3>2. task[p].do = "auth" /\ gate[p].at = "open" /\ task'[p].req = req /\ gate' = gate
          BY <2>3 DEF Dispatched, authVars
    <3>3. h.do # "auth"
      <4>1. h.do \in Step  BY Steps DEF Handlers
      <4> QED BY <4>1, Steps DEF Inner
    <3> SUFFICES ASSUME h.do \in Reviewed, ~(AllowLoopback /\ req.loopback)
                 PROVE  /\ gate[p].may # None /\ gate[p].may.ok
                        /\ gate[p].may.of[1] = UserOf[req.token]
                        /\ gate[p].may.of[3] = Needs(h.do)
                        /\ ~Clipped(h.repo) => gate[p].may.of[2] = namespace_for(h.repo)
      <4>1. /\ task'[p].do = h.do /\ task'[p].repo = h.repo /\ task'[p].req = req
            /\ gate'[p] = gate[p]
            BY <3>1, <3>2
      <4> HIDE DEF req
      <4> QED BY <2>3, <3>3, <4>1 DEF AdmittedOK
    <3>4. WellFormed(req)  BY <2>0, <3>2 DEF TasksOK
    <3>5. /\ req.path # <<"token">> /\ ~IsVersion(req.path)
          /\ Asked(req).action \notin {"Version", "Token"}
          /\ ~Clipped(h.repo) => namespace_for(Asked(req).repo) = namespace_for(h.repo)
          /\ verb(Asked(req).action) = Needs(h.do)
      <4> HIDE DEF req
      <4> QED BY <3>4, LockStep DEF Asked
    <3>6. ~Spared(req)  BY <3>5 DEF Spared
    <3>7. Told(p) /\ gate[p].may # None  BY <2>0, <2>3, <3>2, <3>6 DEF AdmittedOK
    <3>8. ShownOK(gate[p])  BY <2>0 DEF GateInv
    <3>9. /\ gate[p].may.ok
          /\ gate[p].may.of = <<UserOf[req.token], namespace_for(Asked(req).repo),
                                verb(Asked(req).action)>>
          BY <3>2, <3>7, <3>8 DEF ShownOK, Told
    <3> HIDE DEF req
    <3> QED BY <3>5, <3>7, <3>9
  <2>4. CASE q = p /\ Continues(p)
    <3>1. /\ task[p].do \in Step \ Reads /\ Needs(task'[p].do) = Needs(task[p].do)
          /\ task'[p].do # "auth" /\ task'[p].req = task[p].req /\ task'[p].repo = task[p].repo
          /\ gate'[p] = gate[p]
          BY <2>4 DEF Continues, authVars, Inner
    <3>2. task[p].do \in Reviewed  BY <3>1 DEF Reviewed, Reads
    <3> QED BY <2>0, <2>4, <3>1, <3>2 DEF AdmittedOK
  <2> QED BY <1>2, <2>1, <2>2, <2>3, <2>4
<1> QED BY <1>1, <1>2 DEF Proceeds

LEMMA AdmissionNext == ASSUME ServerInv, AdmissionInv, [Next]_vars PROVE AdmissionInv'
<1>0. GateInv /\ TasksOK  BY DEF ServerInv
<1>1. CASE \E p \in Task : \E req \in Request[auth] : Receive(p, req)
  <2>1. PICK p \in Task : \E req \in Request[auth] : Receive(p, req)  BY <1>1
  <2>2. PICK req \in Request[auth] : Receive(p, req)  BY <2>1
  <2>3. WellFormed(req) /\ Begin(p, req) /\ UNCHANGED auth
        BY <1>0, <2>2, ServerConstants DEF TasksOK, Receive
  <2> QED BY <2>3, BeginAdmitted
<1>2. CASE \E p \in Task : FollowLink(p)
  <2>1. PICK p \in Task : FollowLink(p)  BY <1>2
  <2>2. PICK q : Begin(p, [task[p].req EXCEPT !.q = q])  BY <2>1 DEF FollowLink
  <2>3. WellFormed(task[p].req)  BY <1>0, <2>1 DEF FollowLink, TasksOK
  <2>4. WellFormed([task[p].req EXCEPT !.q = q])  BY <2>3, OtherQuery
  <2> QED BY <2>1, <2>2, <2>4, BeginAdmitted DEF FollowLink
<1>3. CASE \E p \in Task : Handle(p)  BY <1>0, <1>3, HandleProceeds, ProceedsAdmitted
<1>4. CASE Ticks  BY <1>4, TickAdmitted
<1>5. CASE UNCHANGED vars  BY <1>5 DEF vars, authVars, AdmissionInv, AdmittedOK, Told
<1> QED BY <1>1, <1>2, <1>3, <1>4, <1>5 DEF Next

(* classify is kept in lock-step with the routing table: under k8s every   *)
(* handler that reads, lists, writes or deletes runs only for a request    *)
(* whose user the cluster allowed the verb of that handler, whatever the   *)
(* path (LockStep), in the namespace of the repository the path names      *)
(* unless that name is clipped. A routing word further on may cut the name *)
(* classify reads short, but not before its second component, and the      *)
(* namespace hangs on the first (SameNamespace). A mount's source is not   *)
(* asked about.                                                            *)
THEOREM AlwaysPermitted == Spec => []Permitted
<1>1. Init => AdmissionInv
  <2> SUFFICES ASSUME Init, NEW p \in Task PROVE AdmittedOK(p)  BY DEF AdmissionInv
  <2>1. task[p].do = "idle" /\ "idle" \notin Step  BY Steps DEF Inner, Init, Free
  <2> QED BY <2>1 DEF AdmittedOK, Reviewed
<1>2. ServerInv /\ AdmissionInv /\ [Next]_vars => AdmissionInv'  BY AdmissionNext
<1>3. AdmissionInv => Permitted  BY DEF AdmissionInv, AdmittedOK, Permitted, Reviewed
<1> QED BY <1>1, <1>2, <1>3, ServerInductive, PTL DEF Spec

-----------------------------------------------------------------------------
(* Storage.                                                                *)

(* Of some things with a length, one is longest and first.                 *)
LEMMA LongestFirst ==
    ASSUME NEW N \in Nat, NEW hits \in SUBSET (1..N), hits # {}, NEW len \in [hits -> Nat]
    PROVE  \E i \in hits : \A j \in hits : len[i] > len[j] \/ (len[i] = len[j] /\ i <= j)
<1> DEFINE Best(n) == \E i \in hits : i <= n /\ \A j \in hits :
                          j <= n => len[i] > len[j] \/ (len[i] = len[j] /\ i <= j)
           bad == {n \in 0..N : (\E i \in hits : i <= n) /\ ~Best(n)}
<1>1. \A i \in hits : i \in Nat /\ i > 0 /\ len[i] \in Nat  OBVIOUS
<1>2. bad = {}
  <2> SUFFICES ASSUME bad # {} PROVE FALSE  OBVIOUS
  <2>1. PICK n \in bad : \A m \in bad : n <= m
    <3>1. bad \in SUBSET Nat  OBVIOUS
    <3> HIDE DEF bad
    <3> QED BY <3>1, LeastNatural
  <2>2. n \in 0..N /\ (\E i \in hits : i <= n) /\ ~Best(n)  BY <2>1
  <2>3. n \in Nat /\ n > 0  BY <1>1, <2>2
  <2>4. ~(\E i \in hits : i <= n - 1) \/ Best(n - 1)
    <3>1. n - 1 \in 0..N /\ ~(n <= n - 1)  BY <2>2, <2>3
    <3>2. n - 1 \notin bad  BY <2>1, <3>1
    <3> HIDE DEF Best
    <3> QED BY <3>1, <3>2
  <2>5. \A j \in hits : j <= n => j <= n - 1 \/ j = n  BY <1>1, <2>3
  <2>6. CASE ~\E i \in hits : i <= n - 1
    <3>1. \A j \in hits : j <= n => j = n  BY <2>5, <2>6
    <3> QED BY <2>2, <2>3, <3>1
  <2>7. CASE Best(n - 1)
    <3>1. PICK i \in hits : i <= n - 1 /\ \A j \in hits :
              j <= n - 1 => len[i] > len[j] \/ (len[i] = len[j] /\ i <= j)
          BY <2>7
    <3>2. CASE n \in hits /\ len[n] > len[i]
      <4>1. \A j \in hits : j <= n => len[n] > len[j] \/ (len[n] = len[j] /\ n <= j)
            BY <1>1, <2>3, <2>5, <3>1, <3>2
      <4> QED BY <2>2, <2>3, <3>2, <4>1
    <3>3. CASE ~(n \in hits /\ len[n] > len[i])
      <4>1. \A j \in hits : j <= n => len[i] > len[j] \/ (len[i] = len[j] /\ i <= j)
            BY <1>1, <2>3, <2>5, <3>1, <3>3
      <4>2. i <= n  BY <1>1, <2>3, <3>1
      <4> QED BY <2>2, <4>1, <4>2
    <3> QED BY <3>2, <3>3
  <2> QED BY <2>4, <2>6, <2>7
<1>3. Best(N)
  <2>1. N \in 0..N  OBVIOUS
  <2>2. \E i \in hits : i <= N
    <3>1. PICK i \in hits : TRUE  OBVIOUS
    <3>2. i \in 1..N  OBVIOUS
    <3> QED BY <3>2
  <2> HIDE DEF Best
  <2> QED BY <1>2, <2>1, <2>2
<1>4. \A j \in hits : j <= N  OBVIOUS
<1> QED BY <1>3, <1>4

RulesOK == rules \in Seq([pattern : Pattern, root : Root]) /\ rules # <<>>

LEMMA ResolveRoot == ASSUME RulesOK, NEW repo PROVE resolve(repo) \in Root
<1> DEFINE hits == {i \in DOMAIN rules : repo \in Matches[rules[i].pattern]}
           Longer(i, j) == \/ Length[rules[i].pattern] > Length[rules[j].pattern]
                           \/ Length[rules[i].pattern] = Length[rules[j].pattern] /\ i <= j
           at == IF hits = {} THEN Len(rules) ELSE CHOOSE i \in hits : \A j \in hits : Longer(i, j)
<1>1. at \in DOMAIN rules
  <2>1. CASE hits = {}  BY <2>1 DEF RulesOK
  <2>2. CASE hits # {}
    <3>1. \E i \in hits : \A j \in hits : Longer(i, j)
      <4> DEFINE len == [i \in hits |-> Length[rules[i].pattern]]
      <4>1. Len(rules) \in Nat /\ hits \in SUBSET (1..Len(rules))  BY DEF RulesOK
      <4>2. \A i \in hits : rules[i] \in [pattern : Pattern, root : Root]
            BY <4>1, ElementOfSeq DEF RulesOK
      <4>3. len \in [hits -> Nat]  BY <4>2, ServerConstants
      <4>4. \A i \in hits : len[i] = Length[rules[i].pattern]  OBVIOUS
      <4> HIDE DEF hits, len
      <4>5. \E i \in hits : \A j \in hits : len[i] > len[j] \/ (len[i] = len[j] /\ i <= j)
            BY <2>2, <4>1, <4>3, LongestFirst
      <4> QED BY <4>4, <4>5
    <3>2. (CHOOSE i \in hits : \A j \in hits : Longer(i, j)) \in hits
      <4> HIDE DEF hits, Longer
      <4> QED BY <3>1
    <3> QED BY <2>2, <3>2
  <2> QED BY <2>1, <2>2
<1>2. resolve(repo) = rules[at].root  BY DEF resolve, Resolve
<1> HIDE DEF at
<1>3. rules[at] \in [pattern : Pattern, root : Root]
  <2>1. at \in 1..Len(rules)  BY <1>1 DEF RulesOK
  <2> QED BY <2>1, ElementOfSeq DEF RulesOK
<1> QED BY <1>2, <1>3

(* Every task works on a root, and what was acknowledged is where its      *)
(* repository is routed to.                                                *)
StoreInv ==
    /\ RulesOK
    /\ DOMAIN blobs = Root /\ DOMAIN docs = Root
    /\ \A p \in Task : task[p].do \in Step => task[p].root \in Root
    /\ AckedVisible

(* No step but that of a handler touches what is stored or the rules.      *)
LEMMA StoreKept ==
    ASSUME StoreInv, UNCHANGED <<rules, blobs, docs, acked>>,
           \A p \in Task : task'[p].do \in Step => task'[p].root \in Root
    PROVE  StoreInv'
BY DEF StoreInv, RulesOK, AckedVisible, resolve

LEMMA RootsProceed ==
    ASSUME TasksOK, StoreInv, NEW p \in Task, Proceeds(p), NEW q \in Task, task'[q].do \in Step
    PROVE  task'[q].root \in Root
<1>1. CASE Gate(p)  BY <1>1 DEF Gate, StoreInv
<1>2. CASE /\ task' = [task EXCEPT ![p] = task'[p]]
           /\ Answered(p) \/ Dispatched(p) \/ Continues(p)
  <2>1. CASE q # p
    <3>1. task'[q] = task[q]  BY <1>2, <2>1 DEF TasksOK
    <3> QED BY <3>1 DEF StoreInv
  <2>2. CASE q = p /\ Answered(p)  BY <2>2, AnsweredTask, Steps DEF Inner
  <2>3. CASE q = p /\ Dispatched(p)  BY <2>3, ResolveRoot DEF Dispatched, StoreInv
  <2>4. CASE q = p /\ Continues(p)  BY <2>4, ResolveRoot DEF Continues, StoreInv
  <2> QED BY <1>2, <2>1, <2>2, <2>3, <2>4
<1> QED BY <1>1, <1>2 DEF Proceeds

(* A blob that is written is where it is acknowledged.                     *)
LEMMA WritesVisible ==
    ASSUME StoreInv, NEW p \in Task, NEW b \in Blob, b \in blobs'[At(p)], Acknowledge(p, b),
           \A v \in Root : blobs[v] \subseteq blobs'[v], UNCHANGED <<rules, docs>>
    PROVE  AckedVisible'
<1>1. \A r : resolve(r) \in Root  BY ResolveRoot DEF StoreInv
<1>2. \A r : Resolve(rules', r) = resolve(r)  BY DEF resolve
<1>3. acked' \subseteq acked \cup {<<task[p].repo, b>>}
      /\ (acked' # acked => At(p) = resolve(task[p].repo))
      BY DEF Acknowledge, Routed
<1> SUFFICES ASSUME NEW x \in acked'
             PROVE  IF x[2] \in Blob THEN x[2] \in blobs'[resolve(x[1])]
                    ELSE <<x[1], x[2], x[2]>> \in docs'[resolve(x[1])]
    BY <1>2 DEF AckedVisible, resolve
<1>4. CASE x \in acked  BY <1>1, <1>4 DEF StoreInv, AckedVisible
<1>5. CASE x \notin acked
  <2>1. x = <<task[p].repo, b>> /\ At(p) = resolve(task[p].repo)  BY <1>3, <1>5
  <2> QED BY <2>1
<1> QED BY <1>4, <1>5

(* upsert keeps a list of rules.                                           *)
LEMMA UpsertOK ==
    ASSUME RulesOK, NEW pattern \in Pattern, NEW root \in Root, upsert(pattern, root)
    PROVE  RulesOK'
<1> DEFINE same == {i \in DOMAIN rules : rules[i].pattern = pattern}
           rule == [pattern |-> pattern, root |-> root]
<1>1. Len(rules) \in Nat /\ DOMAIN rules = 1..Len(rules) /\ Len(rules) > 0  BY DEF RulesOK
<1>2. CASE same = {}
  <2>1. rules' = Append(rules, rule)  BY <1>2 DEF upsert
  <2>2. rule \in [pattern : Pattern, root : Root]  OBVIOUS
  <2> HIDE DEF rule
  <2>3. rules' \in Seq([pattern : Pattern, root : Root]) /\ Len(rules') = Len(rules) + 1
        BY <2>1, <2>2 DEF RulesOK
  <2>4. rules' # <<>>  BY <1>1, <2>3
  <2> QED BY <2>3, <2>4 DEF RulesOK
<1>3. CASE same # {}
  <2>1. Min(same) \in same
    <3>1. same \in SUBSET Nat  BY <1>1
    <3> HIDE DEF same
    <3>2. \E x \in same : \A y \in same : x <= y  BY <1>3, <3>1, LeastNatural
    <3> QED BY <3>2 DEF Min
  <2>2. Min(same) \in 1..Len(rules)  BY <1>1, <2>1
  <2>3. rules' = [rules EXCEPT ![Min(same)].root = root]  BY <1>3 DEF upsert
  <2> HIDE DEF same
  <2>4. PICK at \in 1..Len(rules) : rules' = [rules EXCEPT ![at] = [rules[at] EXCEPT !.root = root]]
        BY <2>2, <2>3
  <2>5. rules[at] \in [pattern : Pattern, root : Root]  BY ElementOfSeq DEF RulesOK
  <2>6. [rules[at] EXCEPT !.root = root] \in [pattern : Pattern, root : Root]  BY <2>5
  <2>7. rules' \in Seq([pattern : Pattern, root : Root]) /\ Len(rules') = Len(rules)
        BY <1>1, <2>4, <2>6, ExceptSeq DEF RulesOK
  <2>8. rules' # <<>>  BY <1>1, <2>7
  <2> QED BY <2>7, <2>8 DEF RulesOK
<1> QED BY <1>2, <1>3

LEMMA HandleStore ==
    ASSUME TasksOK, StoreInv, NEW p \in Task, Handle(p)
    PROVE  RulesOK' /\ DOMAIN blobs' = Root /\ DOMAIN docs' = Root /\ AckedVisible'
<1>0. /\ \A r : resolve(r) \in Root
      /\ task[p].do \in Step => At(p) \in Root
      BY ResolveRoot DEF StoreInv, At
<1>s. \A do \in {"manifest_put", "manifest_delete", "blob_delete", "upload_start", "mount_write",
                 "upload_post", "upload_finalize"} : do \in Step
      BY Steps DEF Inner
<1>1. CASE UNCHANGED <<rules, blobs, docs, acked>>
      BY <1>1 DEF StoreInv, RulesOK, AckedVisible, resolve
<1>2. CASE manifest_put(p)
  <2> DEFINE repo == task[p].repo  m == task[p].req.body
  <2>1. task[p].do = "manifest_put" /\ m \in Manifest /\ At(p) \in Root
        BY <1>0, <1>2, <1>s DEF manifest_put, TasksOK
  <2>2. docs' = [docs EXCEPT ![At(p)] = docs[At(p)] \cup {<<repo, m, m>>}] /\ UNCHANGED <<rules, blobs>>
        BY <1>2 DEF manifest_put
  <2>3. acked' \subseteq acked \cup {<<repo, m>>} /\ (acked' # acked => At(p) = resolve(repo))
        BY <1>2 DEF manifest_put, Acknowledge, Routed
  <2>4. m \notin Blob  BY <2>1, ServerConstants
  <2> HIDE DEF repo, m
  <2>5. /\ DOMAIN docs' = Root /\ \A v \in Root : docs[v] \subseteq docs'[v]
        /\ <<repo, m, m>> \in docs'[At(p)]
        BY <2>1, <2>2 DEF StoreInv
  <2>6. AckedVisible'
    <3> SUFFICES ASSUME NEW x \in acked'
                 PROVE  IF x[2] \in Blob THEN x[2] \in blobs'[resolve(x[1])]
                        ELSE <<x[1], x[2], x[2]>> \in docs'[resolve(x[1])]
      BY <2>2 DEF AckedVisible, resolve
    <3>1. CASE x \in acked  BY <1>0, <2>2, <2>5, <3>1 DEF StoreInv, AckedVisible
    <3>2. CASE x \notin acked
      <4>1. x = <<repo, m>> /\ At(p) = resolve(repo)  BY <2>3, <3>2
      <4> QED BY <2>4, <2>5, <4>1
    <3> QED BY <3>1, <3>2
  <2> QED BY <2>2, <2>5, <2>6 DEF StoreInv, RulesOK
<1>3. CASE manifest_delete(p)
  <2> DEFINE Gone(x) == x[1] = task[p].repo /\ x[2] = task[p].ref
  <2>1. At(p) \in Root  BY <1>0, <1>3, <1>s DEF manifest_delete
  <2>2. /\ docs' = [docs EXCEPT ![At(p)] = {x \in docs[At(p)] : ~Gone(x)}]
        /\ acked' = {x \in acked : ~(Gone(x) /\ At(p) = resolve(task[p].repo))}
        /\ UNCHANGED <<rules, blobs>>
        BY <1>3 DEF manifest_delete, Routed
  <2>3. DOMAIN docs' = Root  BY <2>2 DEF StoreInv
  <2>4. AckedVisible'
    <3> SUFFICES ASSUME NEW x \in acked', x[2] \notin Blob
                 PROVE  <<x[1], x[2], x[2]>> \in docs'[resolve(x[1])]
      BY <2>2 DEF AckedVisible, resolve, StoreInv
    <3>1. <<x[1], x[2], x[2]>> \in docs[resolve(x[1])]
          BY <2>2 DEF StoreInv, AckedVisible
    <3>2. CASE resolve(x[1]) # At(p)  BY <1>0, <2>1, <2>2, <3>1, <3>2 DEF StoreInv
    <3>3. CASE resolve(x[1]) = At(p)
      <4>1. ~Gone(x)  BY <2>2, <3>3
      <4>2. ~Gone(<<x[1], x[2], x[2]>>)  BY <4>1
      <4> HIDE DEF Gone
      <4> QED BY <2>1, <2>2, <3>1, <3>3, <4>2 DEF StoreInv
    <3> QED BY <3>2, <3>3
  <2> QED BY <2>2, <2>3, <2>4 DEF StoreInv, RulesOK
<1>4. CASE blob_delete(p)
  <2>1. At(p) \in Root  BY <1>0, <1>4, <1>s DEF blob_delete
  <2>2. /\ blobs' = [blobs EXCEPT ![At(p)] = blobs[At(p)] \ {task[p].ref}]
        /\ acked' = {x \in acked : x[2] # task[p].ref \/ resolve(x[1]) # At(p)}
        /\ UNCHANGED <<rules, docs>>
        BY <1>4 DEF blob_delete
  <2>3. DOMAIN blobs' = Root  BY <2>2 DEF StoreInv
  <2>4. AckedVisible'
    <3> SUFFICES ASSUME NEW x \in acked', x[2] \in Blob PROVE x[2] \in blobs'[resolve(x[1])]
      BY <2>2 DEF AckedVisible, resolve, StoreInv
    <3>1. x[2] \in blobs[resolve(x[1])]  BY <2>2 DEF StoreInv, AckedVisible
    <3> QED BY <1>0, <2>1, <2>2, <3>1 DEF StoreInv
  <2> QED BY <2>2, <2>3, <2>4 DEF StoreInv, RulesOK
<1>5. CASE mount_exists(p)
  <2>1. CASE UNCHANGED acked  BY <1>1, <1>5, <2>1 DEF mount_exists, store
  <2>2. CASE ~UNCHANGED acked
    <3> DEFINE b == Query(task[p].req, "mount")
    <3>1. /\ b \in Blob /\ b \in blobs[At(p)] /\ Acknowledge(p, b)
          /\ UNCHANGED <<rules, blobs, docs>> /\ task[p].do = "upload_start"
          BY <1>5, <2>2 DEF mount_exists, store
    <3>2. At(p) \in Root  BY <1>0, <1>s, <3>1
    <3> HIDE DEF b
    <3>3. AckedVisible'  BY <3>1, <3>2, WritesVisible
    <3> QED BY <3>1, <3>3 DEF StoreInv, RulesOK
  <2> QED BY <2>1, <2>2
<1>6. CASE mount_write(p) \/ upload_post(p) \/ upload_finalize(p)
  <2>1. CASE UNCHANGED <<blobs, acked>>
        BY <1>1, <1>6, <2>1 DEF mount_write, upload_post, upload_finalize
  <2>2. CASE ~UNCHANGED <<blobs, acked>>
    <3>1. PICK b \in Blob : Writes(p, b)
      <4>1. CASE mount_write(p)  BY <4>1 DEF mount_write, TasksOK
      <4>2. CASE upload_post(p)  BY <2>2, <4>2 DEF upload_post
      <4>3. CASE upload_finalize(p)  BY <2>2, <4>3 DEF upload_finalize
      <4> QED BY <1>6, <4>1, <4>2, <4>3
    <3>2. UNCHANGED <<rules, docs>> /\ At(p) \in Root
          BY <1>0, <1>6, <1>s DEF mount_write, upload_post, upload_finalize
    <3>3. /\ DOMAIN blobs' = Root /\ b \in blobs'[At(p)]
          /\ \A v \in Root : blobs[v] \subseteq blobs'[v]
          BY <3>1, <3>2 DEF Writes, StoreInv
    <3>4. AckedVisible'  BY <3>1, <3>2, <3>3, WritesVisible DEF Writes
    <3> QED BY <3>2, <3>3, <3>4 DEF StoreInv, RulesOK
  <2> QED BY <2>1, <2>2
<1>7. CASE repo_root_upsert(p)
  <2>1. acked' = {x \in acked : Resolve(rules', x[1]) = resolve(x[1])} /\ UNCHANGED <<blobs, docs>>
        BY <1>7 DEF repo_root_upsert, store
  <2>2. AckedVisible'
    <3>1. \A x \in acked' : x \in acked /\ Resolve(rules', x[1]) = resolve(x[1])  BY <2>1
    <3>2. \A x \in acked' : resolve(x[1])' = resolve(x[1])  BY <3>1 DEF resolve
    <3> QED BY <2>1, <3>1, <3>2 DEF StoreInv, AckedVisible
  <2>3. RulesOK'
    <3>1. task[p].req.body \in [pattern : Pattern, root : Root]
          BY <1>7 DEF repo_root_upsert, TasksOK
    <3>2. upsert(task[p].req.body.pattern, task[p].req.body.root)  BY <1>7 DEF repo_root_upsert
    <3> QED BY <3>1, <3>2, UpsertOK DEF StoreInv
  <2> QED BY <2>1, <2>2, <2>3 DEF StoreInv
<1>8. Gate(p) \/ dispatch(p) \/ Abort(p) \/ ReadOnly(p) \/ mount_read(p) \/ upload_chunk(p)
      \/ upload_finish(p) \/ upload_cancel(p) \/ catalog(p) \/ list_repos(p) \/ catalog_page(p)
      \/ tags_list(p) \/ has_repo(p) \/ referrers(p) \/ referrers_read(p)
      => UNCHANGED <<rules, blobs, docs, acked>>
      BY DEF Gate, dispatch, Abort, ReadOnly, mount_read, upload_chunk, upload_finish,
          upload_cancel, catalog, list_repos, catalog_page, tags_list, has_repo, referrers,
          referrers_read, store
<1> QED BY <1>1, <1>2, <1>3, <1>4, <1>5, <1>6, <1>7, <1>8 DEF Handle

LEMMA StoreInit == Init => StoreInv
<1> SUFFICES ASSUME Init PROVE StoreInv  OBVIOUS
<1>1. RulesOK  BY ServerConstants DEF Init, RulesOK
<1>2. PICK disk \in Disks : blobs = disk.blobs /\ docs = disk.docs  BY DEF Init
<1>3. DOMAIN blobs = Root /\ DOMAIN docs = Root  BY <1>2, DiskTypes
<1>4. \A p \in Task : task[p].do \notin Step  BY Steps DEF Init, Free, Inner
<1>5. AckedVisible  BY DEF Init, AckedVisible
<1> QED BY <1>1, <1>3, <1>4, <1>5 DEF StoreInv

LEMMA StoreNext == ServerInv /\ StoreInv /\ [Next]_vars => StoreInv'
<1> SUFFICES ASSUME ServerInv, StoreInv, [Next]_vars PROVE StoreInv'  OBVIOUS
<1>0. GateInv /\ TasksOK  BY DEF ServerInv
<1>1. ASSUME NEW p \in Task, NEW req, Begin(p, req), UNCHANGED <<rules, blobs, docs, acked>>
      PROVE  StoreInv'
  <2>1. ASSUME NEW q \in Task PROVE task'[q] = task[q] \/ task'[q].do = "auth"
        BY <1>0, <1>1 DEF Begin, TasksOK, Free
  <2>2. "auth" \notin Step  BY Steps DEF Inner
  <2> QED BY <1>1, <2>1, <2>2, StoreKept DEF StoreInv
<1>2. CASE \E p \in Task : \E req \in Request[auth] : Receive(p, req)
      BY <1>1, <1>2 DEF Receive, store
<1>3. CASE \E p \in Task : FollowLink(p)  BY <1>1, <1>3 DEF FollowLink, store
<1>4. CASE \E p \in Task : Handle(p)
  <2>1. PICK p \in Task : Handle(p)  BY <1>4
  <2>2. Proceeds(p)  BY <1>0, <2>1, HandleProceeds
  <2>3. \A q \in Task : task'[q].do \in Step => task'[q].root \in Root
        BY <1>0, <2>2, RootsProceed
  <2> QED BY <1>0, <2>1, <2>3, HandleStore DEF StoreInv
<1>5. CASE Ticks \/ UNCHANGED vars
  <2>1. UNCHANGED <<rules, blobs, docs, acked, task>>  BY <1>5 DEF Ticks, vars, store
  <2> QED BY <2>1, StoreKept DEF StoreInv
<1> QED BY <1>2, <1>3, <1>4, <1>5 DEF Next

LEMMA StoreInductive == Spec => []StoreInv
BY StoreInit, StoreNext, ServerInductive, PTL DEF Spec

(* What was answered with 201, by an upload, a mount or a put, is where    *)
(* the repository is routed to until it is deleted there or the rules      *)
(* route it elsewhere: a mount whose source is on another root is written  *)
(* to the target's before it is acknowledged, and a task that works where  *)
(* its repository was before acknowledges nothing (upload_start).          *)
THEOREM AckedStaysVisible == Spec => []AckedVisible
<1>1. StoreInv => AckedVisible  BY DEF StoreInv
<1> QED BY <1>1, StoreInductive, PTL

-----------------------------------------------------------------------------
(* Types.                                                                  *)

LEMMA BeforeSome ==
    ASSUME NEW s \in Seq(Segment), NEW k \in Nat, k < Len(s) PROVE Before(s, k) # <<>>
<1> DEFINE n == Len(s)
<1>1. n \in Nat /\ n - k \in 1..n /\ \A i \in 1..n : s[i] \in Segment
      BY LenProperties, ElementOfSeq
<1>2. 1 \in Int /\ n - k \in Int /\ \A i \in 1..(n - k) : s[i] \in Segment  BY <1>1
<1>3. Len(SubSeq(s, 1, n - k)) = IF 1 <= n - k THEN n - k - 1 + 1 ELSE 0
      BY <1>2, SubSeqProperties
<1>4. Len(Before(s, k)) # 0  BY <1>1, <1>3 DEF Before
<1> QED BY <1>4

LEMMA FrontLen ==
    ASSUME NEW s \in Seq(Segment), Len(s) > 0
    PROVE  Front(s) \in Seq(Segment) /\ Len(Front(s)) = Len(s) - 1
<1> DEFINE n == Len(s)
<1>1. n \in Nat /\ 1 \in Int /\ n - 1 \in Int /\ \A i \in 1..(n - 1) : s[i] \in Segment
      BY LenProperties, ElementOfSeq
<1>2. /\ SubSeq(s, 1, n - 1) \in Seq(Segment)
      /\ Len(SubSeq(s, 1, n - 1)) = IF 1 <= n - 1 THEN n - 1 - 1 + 1 ELSE 0
      BY <1>1, SubSeqProperties
<1>3. Front(s) = SubSeq(s, 1, n - 1) /\ n > 0  BY DEF Front
<1>4. Len(SubSeq(s, 1, n - 1)) = n - 1
  <2> DEFINE f == SubSeq(s, 1, n - 1)
  <2> HIDE DEF n, f
  <2> QED BY <1>1, <1>2, <1>3 DEF f
<1> QED BY <1>2, <1>3, <1>4

(* Uploads, manifests and tags are those of a repository with a name.      *)
LEMMA NamedEndpoint ==
    ASSUME NEW path \in Seq(Segment), path # <<>>,
           Endpoint(path).at \in {"uploads", "upload", "manifests", "tags"}
    PROVE  Endpoint(path).repo # <<>>
<1> DEFINE rest == Tail(path)  e == Endpoint(path)
<1>1. rest \in Seq(Segment) /\ Start(path) \in Seq(Segment)  BY PathParts
<1>2. \/ EndsIn(Start(path), <<"blobs", "uploads">>) /\ e.repo = Before(Start(path), 2)
      \/ EndsIn(Front(rest), <<"blobs", "uploads">>) /\ e.repo = Before(rest, 3)
      \/ Len(rest) > 2 /\ e.repo = Before(rest, 2)
      \/ EndsIn(rest, <<"tags", "list">>) /\ e.repo = Before(rest, 2)
      BY DEF Endpoint, Start
<1> HIDE DEF rest, e
<1>3. CASE EndsIn(Start(path), <<"blobs", "uploads">>) /\ e.repo = Before(Start(path), 2)
  <2>1. Len(Start(path)) > 2  BY <1>1, <1>3, EndsInPair
  <2> QED BY <1>1, <1>3, <2>1, BeforeSome DEF e
<1>4. CASE EndsIn(Front(rest), <<"blobs", "uploads">>) /\ e.repo = Before(rest, 3)
  <2>1. Len(rest) > 0
    <3>1. CASE rest = <<>>
      <4>1. Front(rest) = <<>>  BY <3>1, SubSeqEmpty DEF Front
      <4> QED BY <1>4, <4>1 DEF EndsIn
    <3> QED BY <1>1, <3>1
  <2>2. Front(rest) \in Seq(Segment) /\ Len(Front(rest)) = Len(rest) - 1  BY <1>1, <2>1, FrontLen
  <2>3. Len(Front(rest)) > 2  BY <1>4, <2>2, EndsInPair
  <2>4. 3 < Len(rest)  BY <1>1, <2>2, <2>3
  <2> QED BY <1>1, <1>4, <2>4, BeforeSome DEF e
<1>5. CASE Len(rest) > 2 /\ e.repo = Before(rest, 2)  BY <1>1, <1>5, BeforeSome DEF e
<1>6. EndsIn(rest, <<"tags", "list">>) => Len(rest) > 2  BY <1>1, EndsInPair
<1> QED BY <1>2, <1>3, <1>4, <1>5, <1>6

(* Handlers that work on a repository with a name, and on a session.       *)
Naming == {"upload_start", "upload_status", "upload_chunk", "upload_finish", "upload_cancel",
           "manifest_put", "tags_list"}
Sessions == {"upload_status", "upload_chunk", "upload_finish", "upload_cancel"}

LEMMA HandlerType ==
    ASSUME NEW req, WellFormed(req), NEW h \in Handlers(req)
    PROVE  /\ h = [do |-> h.do, repo |-> h.repo, ref |-> h.ref]
           /\ h.do \in Step \ Inner /\ First(h.do) = h.do
           /\ h.repo \in Repo \cup {<<>>}
           /\ h.do \in Naming => h.repo \in Repo
           /\ h.do \in Sessions => h.ref \in Uuid
<1> DEFINE e == Endpoint(req.path)
<1>1. PICK row \in Table : /\ row[1] = e.at /\ h = [do |-> row[3], repo |-> e.repo, ref |-> e.ref]
                           /\ e.repo \in Repo \cup {<<>>} /\ (e.at = "upload" => e.ref \in Uuid)
      BY DEF Handlers
<1> HIDE DEF e
<1>2. h.do = row[3] /\ h.repo = e.repo /\ h.ref = e.ref /\ h.do \in Step \ Inner  BY <1>1, Steps
<1>3. First(h.do) = h.do  BY <1>2 DEF Inner, First
<1>4. h.do \in Naming => e.at \in {"uploads", "upload", "manifests", "tags"}
      BY <1>1, <1>2 DEF Naming, Table
<1>5. h.do \in Sessions => e.at = "upload"  BY <1>1, <1>2 DEF Sessions, Table
<1>6. req.path \in Seq(Segment) /\ req.path # <<>>
  <2> DEFINE path == req.path
  <2>1. /\ path \in Seq(Segment)
        /\ path = <<"token">> \/ IsVersion(path) \/ Len(path) > 1
        BY DEF WellFormed
  <2> HIDE DEF path
  <2>2. path # <<>>  BY <2>1 DEF IsVersion
  <2> QED BY <2>1, <2>2 DEF path
<1>7. e.at \in {"uploads", "upload", "manifests", "tags"} => e.repo # <<>>  BY <1>6, NamedEndpoint DEF e
<1> QED BY <1>1, <1>2, <1>3, <1>4, <1>5, <1>7

(* A request is for one listing, or for none.                              *)
LEMMA OneListing ==
    ASSUME NEW req, NEW h \in Handlers(req), h.do \in Listings, NEW g \in Handlers(req)
    PROVE  g = h
<1> DEFINE e == Endpoint(req.path)
<1>1. PICK r \in Table : r[1] = e.at /\ h = [do |-> r[3], repo |-> e.repo, ref |-> e.ref]
      BY DEF Handlers
<1>2. PICK s \in Table : s[1] = e.at /\ g = [do |-> s[3], repo |-> e.repo, ref |-> e.ref]
      BY DEF Handlers
<1> HIDE DEF e
<1>3. r[3] \in Listings  BY <1>1
<1>4. r[1] \in {"catalog", "tags", "referrers"}  BY <1>3 DEF Table, Listings
<1>5. s[1] = r[1]  BY <1>1, <1>2
<1>6. s[3] = r[3]
  <2>1. CASE r[1] = "catalog"
    <3>1. r[3] = "catalog" /\ s[3] = "catalog"  BY <1>5, <2>1 DEF Table
    <3> QED BY <3>1
  <2>2. CASE r[1] = "tags"
    <3>1. r[3] = "tags_list" /\ s[3] = "tags_list"  BY <1>5, <2>2 DEF Table
    <3> QED BY <3>1
  <2>3. CASE r[1] = "referrers"
    <3>1. r[3] = "referrers" /\ s[3] = "referrers"  BY <1>5, <2>3 DEF Table
    <3> QED BY <3>1
  <2> QED BY <1>4, <2>1, <2>2, <2>3
<1> QED BY <1>1, <1>2, <1>6

(* A call is one of a handler the request goes to, with its arguments.     *)
Serves(t) == t.do \in Step =>
    [do |-> First(t.do), repo |-> t.repo, ref |-> t.ref] \in Handlers(t.req)

StoreType ==
    /\ blobs \in [Root -> SUBSET Blob]
    /\ docs \in [Root -> SUBSET (Repo \X Manifest \X Manifest)]
    /\ tags \in [Root -> SUBSET (Repo \X Tag \X Manifest)]
    /\ known \in [Root -> SUBSET Repo]
    /\ uploads \in [Root -> [Uuid -> Seq(Chunk) \cup {None, Ended}]]
    /\ acked \subseteq Repo \X Digest

TypeInv ==
    /\ StoreType
    /\ sent \in 0..MaxRequests[auth]
    /\ \A p \in Task :
        /\ task[p].do = "idle" <=> gate[p].at = "idle"
        /\ task[p].do \notin Step => task[p].repo = <<>> /\ task[p].root = None
        /\ Serves(task[p])

LEMMA ServesType ==
    ASSUME NEW t, t.do \in Step, WellFormed(t.req), Serves(t)
    PROVE  /\ t.repo \in Repo \cup {<<>>}
           /\ First(t.do) \in Naming => t.repo \in Repo
           /\ First(t.do) \in Sessions => t.ref \in Uuid
           /\ First(t.do) \in {"upload_start", "upload_chunk", "upload_finish"} => t.req.body \in Seq(Chunk)
<1> DEFINE h == [do |-> First(t.do), repo |-> t.repo, ref |-> t.ref]
<1>1. h.do = First(t.do) /\ h.repo = t.repo /\ h.ref = t.ref  OBVIOUS
<1>2. h \in Handlers(t.req)  BY DEF Serves
<1> HIDE DEF h
<1>3. h.do \in {"upload_start", "upload_chunk", "upload_finish"} => t.req.body \in Seq(Chunk)
      BY <1>2 DEF WellFormed
<1> QED BY <1>1, <1>2, <1>3, HandlerType

LEMMA IdleNoStep == "idle" \notin Step /\ "auth" \notin Step
BY Steps DEF Inner

(* What a task that proceeds works on is what its handler was given.       *)
LEMMA ServesProceeds ==
    ASSUME TasksOK, TypeInv, NEW p \in Task, Proceeds(p), NEW q \in Task
    PROVE  /\ task'[q].do \notin Step => task'[q].repo = <<>> /\ task'[q].root = None
           /\ Serves(task'[q])
<1>1. CASE Gate(p)  BY <1>1 DEF Gate, TypeInv
<1>2. CASE /\ task' = [task EXCEPT ![p] = task'[p]]
           /\ Answered(p) \/ Dispatched(p) \/ Continues(p)
  <2>1. CASE q # p
    <3>1. task'[q] = task[q]  BY <1>2, <2>1 DEF TasksOK
    <3> QED BY <3>1 DEF TypeInv
  <2>2. CASE q = p /\ Answered(p)
    <3>1. task'[p].do = "idle" /\ task'[p].repo = <<>> /\ task'[p].root = None
          BY <2>2 DEF Answered, TasksOK, Free
    <3> QED BY <2>2, <3>1, IdleNoStep DEF Serves
  <2>3. CASE q = p /\ Dispatched(p)
    <3>1. PICK h \in Handlers(task[p].req) : /\ task'[p].do = h.do /\ task'[p].repo = h.repo
                                             /\ task'[p].ref = h.ref
          BY <2>3 DEF Dispatched
    <3>2. WellFormed(task[p].req) /\ task'[p].req = task[p].req  BY <2>3 DEF Dispatched, TasksOK
    <3>3. h = [do |-> First(h.do), repo |-> h.repo, ref |-> h.ref] /\ h.do \in Step
          BY <3>2, HandlerType
    <3> QED BY <2>3, <3>1, <3>2, <3>3 DEF Serves
  <2>4. CASE q = p /\ Continues(p)
    <3>1. /\ task[p].do \in Step /\ task'[p].do \in Step /\ First(task'[p].do) = First(task[p].do)
          /\ task'[p].repo = task[p].repo /\ task'[p].ref = task[p].ref
          /\ task'[p].req = task[p].req
          BY <2>4, Steps DEF Continues
    <3> QED BY <2>4, <3>1 DEF Serves, TypeInv
  <2> QED BY <1>2, <2>1, <2>2, <2>3, <2>4
<1> QED BY <1>1, <1>2 DEF Proceeds

(* A task is idle when its request is not at the gate and not through it.  *)
LEMMA IdleProceeds ==
    ASSUME ServerInv, TypeInv, NEW p \in Task, Proceeds(p), NEW q \in Task
    PROVE  task'[q].do = "idle" <=> gate'[q].at = "idle"
<1>0. GateInv /\ TasksOK /\ gate \in [Task -> Passage]  BY DEF ServerInv, GateInv, GateType
<1>i. task[q].do = "idle" <=> gate[q].at = "idle"  BY DEF TypeInv
<1>1. CASE Gate(p)
  <2>1. task' = task  BY <1>1 DEF Gate
  <2>2. /\ gate[p].at \in {"token", "reviewing", "access", "asking"}
        /\ \/ \E at \in {"reviewing", "asking"} : gate' = [gate EXCEPT ![p].at = at]
           \/ gate' = [gate EXCEPT ![p] = [gate[p] EXCEPT !.at = "shut", !.wait = 0]]
           \/ \E v : Authenticated(p, v)
           \/ \E v \in Verdict(Key) : Authorized(p, v)
        BY <1>0, <1>1, GateMoves DEF Gate
  <2>3. q # p => gate'[q] = gate[q]  BY <1>0, <2>2 DEF Authenticated, Authorized
  <2>4. gate'[p].at # "idle"
    <3>0. gate[p] \in Passage  BY <1>0
    <3>1. CASE \E v : Authenticated(p, v)  BY <1>0, <3>0, <3>1 DEF Authenticated, Passage
    <3>2. CASE \E v : Authorized(p, v)  BY <1>0, <3>0, <3>2 DEF Authorized, Passage
    <3>3. CASE \E at \in {"reviewing", "asking"} : gate' = [gate EXCEPT ![p].at = at]
          BY <1>0, <3>0, <3>3 DEF Passage
    <3>4. CASE gate' = [gate EXCEPT ![p] = [gate[p] EXCEPT !.at = "shut", !.wait = 0]]
          BY <1>0, <3>0, <3>4 DEF Passage
    <3> QED BY <2>2, <3>1, <3>2, <3>3, <3>4
  <2> QED BY <1>i, <2>1, <2>2, <2>3, <2>4
<1>2. CASE /\ task' = [task EXCEPT ![p] = task'[p]]
           /\ Answered(p) \/ Dispatched(p) \/ Continues(p)
  <2>1. CASE q # p
    <3>1. task'[q] = task[q]  BY <1>0, <1>2, <2>1 DEF TasksOK
    <3>2. gate'[q] = gate[q]
          BY <1>0, <1>2, <2>1 DEF Answered, Dispatched, Continues, authVars
    <3> QED BY <1>i, <3>1, <3>2
  <2>2. CASE q = p /\ Answered(p)
    <3>1. task'[p].do = "idle"  BY <1>0, <2>2, AnsweredTask
    <3>2. gate'[p].at = "idle"  BY <1>0, <2>2 DEF Answered, Shut
    <3> QED BY <2>2, <3>1, <3>2
  <2>3. CASE q = p /\ Dispatched(p)
    <3>1. PICK h \in Handlers(task[p].req) : task'[p].do = h.do  BY <2>3 DEF Dispatched
    <3>2. WellFormed(task[p].req)  BY <1>0, <2>3 DEF Dispatched, TasksOK
    <3>3. h.do \in Step  BY <3>2, HandlerType
    <3>4. gate'[p] = gate[p] /\ gate[p].at = "open"  BY <2>3 DEF Dispatched, authVars
    <3> QED BY <2>3, <3>1, <3>3, <3>4, IdleNoStep
  <2>4. CASE q = p /\ Continues(p)
    <3>1. task[p].do \in Step /\ task'[p].do \in Step /\ gate'[p] = gate[p]
          BY <2>4, Steps DEF Continues, authVars
    <3> QED BY <1>i, <2>4, <3>1, IdleNoStep
  <2> QED BY <1>2, <2>1, <2>2, <2>3, <2>4
<1> QED BY <1>1, <1>2 DEF Proceeds

(* An open session has chunks, and is appended to.                         *)
LEMMA AppendsType ==
    ASSUME StoreType, NEW p \in Task, At(p) \in Root, task[p].ref \in Uuid,
           task[p].req.body \in Seq(Chunk), Open(p), Appends(p)
    PROVE  uploads' \in [Root -> [Uuid -> Seq(Chunk) \cup {None, Ended}]]
<1> DEFINE v == At(p)  u == task[p].ref  s == uploads[v][u] \o task[p].req.body
<1>1. uploads[v][u] \in Seq(Chunk)  BY DEF Open, Session, StoreType
<1>2. s \in Seq(Chunk)  BY <1>1
<1>3. uploads' = [uploads EXCEPT ![v] = [uploads[v] EXCEPT ![u] = s]]  BY DEF Appends
<1> HIDE DEF s, v, u
<1>4. v \in Root /\ u \in Uuid  BY DEF v, u
<1>5. uploads[v] \in [Uuid -> Seq(Chunk) \cup {None, Ended}]  BY <1>4 DEF StoreType
<1>6. [uploads[v] EXCEPT ![u] = s] \in [Uuid -> Seq(Chunk) \cup {None, Ended}]  BY <1>2, <1>4, <1>5
<1> QED BY <1>3, <1>6 DEF StoreType

(* A session that is ended or begun.                                       *)
LEMMA SessionType ==
    ASSUME StoreType, NEW v \in Root, NEW u \in Uuid, NEW s \in {Ended, <<>>},
           uploads' = [uploads EXCEPT ![v][u] = s]
    PROVE  uploads' \in [Root -> [Uuid -> Seq(Chunk) \cup {None, Ended}]]
<1>0. <<>> \in Seq(Chunk)  BY EmptySeq
<1>1. s \in Seq(Chunk) \cup {None, Ended}  BY <1>0, Zenon
<1>2. uploads' = [uploads EXCEPT ![v] = [uploads[v] EXCEPT ![u] = s]]  OBVIOUS
<1>3. uploads[v] \in [Uuid -> Seq(Chunk) \cup {None, Ended}]  BY DEF StoreType
<1>4. [uploads[v] EXCEPT ![u] = s] \in [Uuid -> Seq(Chunk) \cup {None, Ended}]  BY <1>1, <1>3
<1> QED BY <1>2, <1>4 DEF StoreType

LEMMA WritesType ==
    ASSUME StoreType, NEW p \in Task, At(p) \in Root, task[p].repo \in Repo,
           NEW b \in Blob, Writes(p, b)
    PROVE  blobs' \in [Root -> SUBSET Blob] /\ acked' \subseteq Repo \X Digest
BY DEF Writes, Acknowledge, StoreType, Digest

(* Every handler stores what it should where it should.                    *)
LEMMA HandleType ==
    ASSUME TasksOK, StoreInv, TypeInv, NEW p \in Task, Handle(p)
    PROVE  StoreType'
<1>0. /\ task[p].do \in Step => /\ At(p) \in Root
                                /\ WellFormed(task[p].req) /\ Serves(task[p])
      /\ StoreType
      BY IdleNoStep DEF StoreInv, TypeInv, TasksOK, At
<1>t. task[p].do \in Step => /\ First(task[p].do) \in Naming => task[p].repo \in Repo
                             /\ First(task[p].do) \in Sessions => task[p].ref \in Uuid
                             /\ First(task[p].do) \in {"upload_start", "upload_chunk", "upload_finish"}
                                  => task[p].req.body \in Seq(Chunk)
      BY <1>0, ServesType
<1>s. \A do \in {"manifest_put", "manifest_delete", "blob_delete", "upload_start", "mount_write",
                 "upload_post", "upload_chunk", "upload_finish", "upload_finalize", "upload_cancel"} :
          do \in Step
      BY Steps DEF Inner
<1>f. /\ First("manifest_put") = "manifest_put"
      /\ First("upload_chunk") = "upload_chunk" /\ First("upload_cancel") = "upload_cancel"
      /\ First("upload_start") = "upload_start" /\ First("mount_write") = "upload_start"
      /\ First("upload_post") = "upload_start"
      /\ First("upload_finish") = "upload_finish" /\ First("upload_finalize") = "upload_finish"
      BY DEF First
<1>1. CASE UNCHANGED <<store, acked>>  BY <1>0, <1>1 DEF store, StoreType
<1>2. CASE manifest_put(p)
  <2> DEFINE repo == task[p].repo  m == task[p].req.body  ref == task[p].ref
  <2>1. m \in Manifest /\ At(p) \in Root /\ repo \in Repo
        BY <1>0, <1>2, <1>s, <1>t, <1>f DEF manifest_put, TasksOK, Naming
  <2>2. /\ docs' = [docs EXCEPT ![At(p)] = docs[At(p)] \cup {<<repo, m, m>>}]
        /\ known' = [known EXCEPT ![At(p)] = known[At(p)] \cup {repo}]
        /\ tags' = IF ref \notin Tag THEN tags
                   ELSE [tags EXCEPT ![At(p)] = {x \in tags[At(p)] : <<x[1], x[2]>> # <<repo, ref>>}
                                                \cup {<<repo, ref, m>>}]
        /\ acked' = acked \/ acked' = acked \cup {<<repo, m>>}
        /\ UNCHANGED <<blobs, uploads>>
        BY <1>2 DEF manifest_put, Acknowledge
  <2>3. <<repo, m, m>> \in Repo \X Manifest \X Manifest /\ <<repo, m>> \in Repo \X Digest
        BY <2>1 DEF Digest
  <2> HIDE DEF repo, m, ref
  <2>4. tags' \in [Root -> SUBSET (Repo \X Tag \X Manifest)]
    <3>1. CASE ref \notin Tag  BY <1>0, <2>2, <3>1 DEF StoreType
    <3>2. CASE ref \in Tag
      <4> DEFINE new == {x \in tags[At(p)] : <<x[1], x[2]>> # <<repo, ref>>} \cup {<<repo, ref, m>>}
      <4>1. new \subseteq Repo \X Tag \X Manifest  BY <1>0, <2>1, <3>2 DEF StoreType
      <4>2. tags' = [tags EXCEPT ![At(p)] = new]  BY <2>2, <3>2
      <4> HIDE DEF new
      <4> QED BY <1>0, <4>1, <4>2 DEF StoreType
    <3> QED BY <3>1, <3>2
  <2> QED BY <1>0, <2>1, <2>2, <2>3, <2>4 DEF StoreType
<1>3. CASE manifest_delete(p)
  <2> DEFINE Gone(x) == x[1] = task[p].repo /\ x[2] = task[p].ref
  <2>1. /\ docs' = [docs EXCEPT ![At(p)] = {x \in docs[At(p)] : ~Gone(x)}]
        /\ tags' = [tags EXCEPT ![At(p)] = {x \in tags[At(p)] : ~Gone(x)}]
        /\ acked' \subseteq acked /\ UNCHANGED <<blobs, known, uploads>>
        BY <1>3 DEF manifest_delete
  <2> HIDE DEF Gone
  <2>2. At(p) \in Root  BY <1>0, <1>3, <1>s DEF manifest_delete
  <2> QED BY <1>0, <2>1, <2>2 DEF StoreType
<1>4. CASE blob_delete(p)
  <2>1. At(p) \in Root  BY <1>0, <1>4, <1>s DEF blob_delete
  <2>2. /\ blobs' = [blobs EXCEPT ![At(p)] = blobs[At(p)] \ {task[p].ref}]
        /\ acked' \subseteq acked /\ UNCHANGED <<docs, tags, known, uploads>>
        BY <1>4 DEF blob_delete
  <2> QED BY <1>0, <2>1, <2>2 DEF StoreType
<1>5. CASE mount_exists(p)
  <2> DEFINE b == Query(task[p].req, "mount")
  <2>1. task[p].do = "upload_start" /\ b \in Blob /\ UNCHANGED store  BY <1>5 DEF mount_exists
  <2>2. acked' = acked \/ acked' = acked \cup {<<task[p].repo, b>>}
        BY <1>5 DEF mount_exists, Acknowledge
  <2> HIDE DEF b
  <2>3. <<task[p].repo, b>> \in Repo \X Digest  BY <1>s, <1>t, <1>f, <2>1 DEF Naming, Digest
  <2> QED BY <1>0, <2>1, <2>2, <2>3 DEF store, StoreType
<1>6. CASE mount_write(p)
  <2>1. task[p].do = "mount_write" /\ At(p) \in Root /\ task[p].repo \in Repo
        BY <1>0, <1>6, <1>s, <1>t, <1>f DEF mount_write, Naming
  <2>2. Query(task[p].req, "mount") \in Blob  BY <2>1 DEF TasksOK
  <2>3. blobs' \in [Root -> SUBSET Blob] /\ acked' \subseteq Repo \X Digest
        BY <1>0, <1>6, <2>1, <2>2, WritesType DEF mount_write
  <2> QED BY <1>0, <1>6, <2>3 DEF mount_write, StoreType
<1>7. CASE upload_post(p)
  <2>1. At(p) \in Root /\ task[p].repo \in Repo
        BY <1>0, <1>7, <1>s, <1>t, <1>f DEF upload_post, Naming
  <2>2. blobs' \in [Root -> SUBSET Blob] /\ acked' \subseteq Repo \X Digest
    <3>1. CASE UNCHANGED <<blobs, acked>>  BY <1>0, <3>1 DEF StoreType
    <3>2. CASE \E b \in Blob : Writes(p, b)  BY <1>0, <2>1, <3>2, WritesType
    <3> QED BY <1>7, <3>1, <3>2 DEF upload_post
  <2>3. uploads' \in [Root -> [Uuid -> Seq(Chunk) \cup {None, Ended}]]
    <3>1. CASE UNCHANGED uploads  BY <1>0, <3>1 DEF StoreType
    <3>2. CASE ~UNCHANGED uploads
      <4>1. PICK u \in Uuid : uploads' = [uploads EXCEPT ![At(p)][u] = <<>>]
            BY <1>7, <3>2 DEF upload_post
      <4> QED BY <1>0, <2>1, <4>1, SessionType
    <3> QED BY <3>1, <3>2
  <2> QED BY <1>0, <1>7, <2>2, <2>3 DEF upload_post, StoreType
<1>8. CASE upload_chunk(p) \/ upload_finish(p)
  <2>1. /\ At(p) \in Root /\ task[p].ref \in Uuid /\ task[p].req.body \in Seq(Chunk)
        /\ UNCHANGED <<blobs, docs, tags, known, acked>>
        BY <1>0, <1>8, <1>s, <1>t, <1>f DEF upload_chunk, upload_finish, Sessions
  <2>2. UNCHANGED uploads \/ (Open(p) /\ Appends(p))  BY <1>8 DEF upload_chunk, upload_finish
  <2>3. uploads' \in [Root -> [Uuid -> Seq(Chunk) \cup {None, Ended}]]
        BY <1>0, <2>1, <2>2, AppendsType DEF StoreType
  <2> QED BY <1>0, <2>1, <2>3 DEF StoreType
<1>9. CASE upload_finalize(p)
  <2>1. At(p) \in Root /\ task[p].repo \in Repo /\ task[p].ref \in Uuid
        BY <1>0, <1>9, <1>s, <1>t, <1>f DEF upload_finalize, Naming, Sessions
  <2>2. blobs' \in [Root -> SUBSET Blob] /\ acked' \subseteq Repo \X Digest
    <3>1. CASE UNCHANGED <<blobs, acked>>  BY <1>0, <3>1 DEF StoreType
    <3>2. CASE \E b \in Blob : Writes(p, b)  BY <1>0, <2>1, <3>2, WritesType
    <3> QED BY <1>9, <3>1, <3>2 DEF upload_finalize
  <2>3. uploads' \in [Root -> [Uuid -> Seq(Chunk) \cup {None, Ended}]]
    <3>1. UNCHANGED uploads \/ uploads' = [uploads EXCEPT ![At(p)][task[p].ref] = Ended]
          BY <1>9 DEF upload_finalize
    <3> QED BY <1>0, <2>1, <3>1, SessionType DEF StoreType
  <2> QED BY <1>0, <1>9, <2>2, <2>3 DEF upload_finalize, StoreType
<1>10. CASE upload_cancel(p)
  <2>1. At(p) \in Root /\ task[p].ref \in Uuid
        BY <1>0, <1>10, <1>s, <1>t, <1>f DEF upload_cancel, Sessions
  <2>2. uploads' \in [Root -> [Uuid -> Seq(Chunk) \cup {None, Ended}]]
    <3>1. UNCHANGED uploads \/ uploads' = [uploads EXCEPT ![At(p)][task[p].ref] = Ended]
          BY <1>10 DEF upload_cancel
    <3> QED BY <1>0, <2>1, <3>1, SessionType DEF StoreType
  <2> QED BY <1>0, <1>10, <2>2 DEF upload_cancel, StoreType
<1>11. CASE repo_root_upsert(p)
  <2>1. acked' \subseteq acked /\ UNCHANGED store  BY <1>11 DEF repo_root_upsert
  <2> QED BY <1>0, <2>1 DEF store, StoreType
<1>12. Gate(p) \/ dispatch(p) \/ Abort(p) \/ ReadOnly(p) \/ mount_read(p) \/ catalog(p)
       \/ list_repos(p) \/ catalog_page(p) \/ tags_list(p) \/ has_repo(p) \/ referrers(p)
       \/ referrers_read(p) => UNCHANGED <<store, acked>>
       BY DEF Gate, dispatch, Abort, ReadOnly, mount_read, catalog, list_repos, catalog_page,
           tags_list, has_repo, referrers, referrers_read
<1> QED BY <1>1, <1>2, <1>3, <1>4, <1>5, <1>6, <1>7, <1>8, <1>9, <1>10, <1>11, <1>12 DEF Handle

(* A request that begins is at the gate.                                   *)
LEMMA BeginType ==
    ASSUME ServerInv, TypeInv, NEW p \in Task, NEW req, Begin(p, req), UNCHANGED <<auth, store, acked>>,
           sent' \in 0..MaxRequests[auth]
    PROVE  TypeInv'
<1>0. gate \in [Task -> Passage] /\ TasksOK  BY DEF ServerInv, GateInv, GateType
<1>1. task' = [task EXCEPT ![p] = [Free EXCEPT !.do = "auth", !.req = req]]  BY DEF Begin
<1>2. PICK g : gate' = [gate EXCEPT ![p] = g] /\ g.at # "idle"
  <2>1. CASE \E open : Opens(p, open)
    <3>1. PICK open : Opens(p, open)  BY <2>1
    <3> DEFINE g == [Shut EXCEPT !.at = IF open THEN "open" ELSE "shut"]
    <3>2. g.at # "idle"  BY DEF Shut
    <3> QED BY <3>1, <3>2 DEF Opens
  <2>2. CASE ~\E open : Opens(p, open)
    <3>1. PICK action, repo, token, loopback : check(p, action, repo, token, loopback)
          BY <2>2 DEF Begin, require_auth
    <3> DEFINE at == IF action = "Version" \/ (AllowLoopback /\ loopback) THEN "open"
                     ELSE IF token = None THEN "shut" ELSE "token"
               g == [Shut EXCEPT !.at = at, !.action = action, !.ns = namespace_for(repo),
                                 !.token = token]
    <3>2. gate' = [gate EXCEPT ![p] = g]  BY <3>1 DEF check
    <3>3. at # "idle"  OBVIOUS
    <3> HIDE DEF at
    <3>4. g.at # "idle"  BY <3>3 DEF Shut
    <3> QED BY <3>2, <3>4
  <2> QED BY <2>1, <2>2
<1>3. ASSUME NEW q \in Task
      PROVE  /\ task'[q].do = "idle" <=> gate'[q].at = "idle"
             /\ task'[q].do \notin Step => task'[q].repo = <<>> /\ task'[q].root = None
             /\ Serves(task'[q])
  <2>1. CASE q # p
    <3>1. task'[q] = task[q] /\ gate'[q] = gate[q]  BY <1>0, <1>1, <1>2, <2>1 DEF TasksOK
    <3> QED BY <3>1 DEF TypeInv
  <2>2. CASE q = p
    <3>1. task'[p].do = "auth" /\ task'[p].repo = <<>> /\ task'[p].root = None
          BY <1>0, <1>1 DEF TasksOK, Free
    <3>2. gate'[p].at # "idle"  BY <1>0, <1>2
    <3> QED BY <2>2, <3>1, <3>2, IdleNoStep DEF Serves
  <2> QED BY <2>1, <2>2
<1>4. StoreType'  BY DEF TypeInv, StoreType, store
<1> QED BY <1>3, <1>4 DEF TypeInv

LEMMA TypeInit == Init => TypeInv
<1> SUFFICES ASSUME Init PROVE TypeInv  OBVIOUS
<1>1. PICK disk \in Disks :
          blobs = disk.blobs /\ docs = disk.docs /\ tags = disk.tags /\ known = disk.known
      BY DEF Init
<1>2. StoreType  BY <1>1, DiskTypes DEF Init, StoreType
<1>3. \A p \in Task : task[p] = Free /\ gate[p] = Shut  BY DEF Init, AuthInit
<1>4. sent \in 0..MaxRequests[auth]  BY ServerConstants DEF Init
<1> QED BY <1>2, <1>3, <1>4, IdleNoStep DEF TypeInv, Free, Shut, Serves

LEMMA TypeNext == ServerInv /\ StoreInv /\ TypeInv /\ [Next]_vars => TypeInv'
<1> SUFFICES ASSUME ServerInv, StoreInv, TypeInv, [Next]_vars PROVE TypeInv'  OBVIOUS
<1>0. GateInv /\ TasksOK /\ auth \in Modes  BY DEF ServerInv, TasksOK
<1>1. CASE \E p \in Task : \E req \in Request[auth] : Receive(p, req)
  <2>1. PICK p \in Task, req \in Request[auth] : Receive(p, req)  BY <1>1
  <2>2. sent' \in 0..MaxRequests[auth]  BY <1>0, <2>1, ServerConstants DEF Receive, TypeInv
  <2> QED BY <2>1, <2>2, BeginType DEF Receive
<1>2. CASE \E p \in Task : FollowLink(p)  BY <1>2, BeginType DEF FollowLink, TypeInv
<1>3. CASE \E p \in Task : Handle(p)
  <2>1. PICK p \in Task : Handle(p)  BY <1>3
  <2>2. Proceeds(p)  BY <1>0, <2>1, HandleProceeds
  <2>3. StoreType'  BY <1>0, <2>1, HandleType
  <2>4. UNCHANGED <<auth, sent>>
    <3>1. UNCHANGED auth  BY <2>2 DEF Proceeds
    <3>2. UNCHANGED sent
          BY <2>1 DEF Handle, Gate, dispatch, Abort, ReadOnly, manifest_put, manifest_delete,
              blob_delete, mount_exists, mount_read, mount_write, upload_post, upload_chunk,
              upload_finish, upload_finalize, upload_cancel, catalog, list_repos, catalog_page,
              tags_list, has_repo, referrers, referrers_read, repo_root_upsert
    <3> QED BY <3>1, <3>2
  <2>5. ASSUME NEW q \in Task
        PROVE  /\ task'[q].do = "idle" <=> gate'[q].at = "idle"
               /\ task'[q].do \notin Step => task'[q].repo = <<>> /\ task'[q].root = None
               /\ Serves(task'[q])
        BY <1>0, <2>2, ServesProceeds, IdleProceeds
  <2> QED BY <2>3, <2>4, <2>5 DEF TypeInv
<1>4. CASE Ticks
  <2>1. UNCHANGED <<auth, store, task, sent, acked>> /\ Tick  BY <1>4 DEF Ticks
  <2>2. \A q \in Task : gate'[q].at = gate[q].at
        BY <1>0, <2>1 DEF Tick, GateInv, GateType, Passage
  <2> QED BY <2>1, <2>2 DEF TypeInv, StoreType, store
<1>5. CASE UNCHANGED vars  BY <1>5 DEF vars, authVars, store, TypeInv, StoreType
<1> QED BY <1>1, <1>2, <1>3, <1>4, <1>5 DEF Next

LEMMA TypeInductive == Spec => []TypeInv
BY TypeInit, TypeNext, ServerInductive, StoreInductive, PTL DEF Spec

-----------------------------------------------------------------------------
(* Pages.                                                                  *)

(* In the order of names, and each once.                                   *)
Increasing(s) == \A i, j \in DOMAIN s : i < j => Rank[s[i]] < Rank[s[j]]

Kinds == {Repo, Tag, Manifest}

LEMMA KindRank ==
    ASSUME NEW K \in Kinds
    PROVE  /\ IsFiniteSet(K) /\ \A x \in K : Rank[x] \in Nat
           /\ \A x, y \in K : Rank[x] = Rank[y] => x = y
BY NamesOrdered DEF Kinds

LEMMA ProperSubset ==
    ASSUME NEW T, IsFiniteSet(T), NEW S \in SUBSET T, S # T
    PROVE  Cardinality(S) < Cardinality(T)
<1>1. /\ Cardinality(S) \in Nat /\ Cardinality(T) \in Nat
      /\ Cardinality(S) <= Cardinality(T) /\ Cardinality(S) # Cardinality(T)
      BY FS_Subset, FS_CardinalityType
<1> QED BY <1>1

(* Names can be put in order: each goes after those of a lower rank.       *)
LEMMA SortedExists ==
    ASSUME NEW K \in Kinds, NEW names \in SUBSET K
    PROVE  \E s \in [1..Cardinality(names) -> names] : Increasing(s)
<1> DEFINE n == Cardinality(names)
           Lower(x) == {y \in names : Rank[y] < Rank[x]}
           pos == [x \in names |-> Cardinality(Lower(x)) + 1]
<1>1. IsFiniteSet(names) /\ n \in Nat  BY KindRank, FS_Subset, FS_CardinalityType
<1>r. \A x \in names : Rank[x] \in Nat  BY KindRank
<1>2. \A x \in names : /\ IsFiniteSet(Lower(x)) /\ Cardinality(Lower(x)) \in Nat
                       /\ Cardinality(Lower(x)) < n
  <2> SUFFICES ASSUME NEW x \in names
               PROVE  /\ IsFiniteSet(Lower(x)) /\ Cardinality(Lower(x)) \in Nat
                      /\ Cardinality(Lower(x)) < n
      OBVIOUS
  <2>1. Lower(x) \subseteq names /\ x \notin Lower(x)  BY <1>r
  <2> QED BY <1>1, <2>1, FS_Subset, FS_CardinalityType
<1>3. \A x, y \in names : Rank[x] < Rank[y] => pos[x] < pos[y]
  <2> SUFFICES ASSUME NEW x \in names, NEW y \in names, Rank[x] < Rank[y] PROVE pos[x] < pos[y]
      OBVIOUS
  <2>1. Lower(x) \subseteq Lower(y) /\ x \in Lower(y) /\ x \notin Lower(x)  BY <1>r
  <2>2. Cardinality(Lower(x)) < Cardinality(Lower(y))
    <3>1. IsFiniteSet(Lower(y)) /\ Lower(x) # Lower(y)  BY <1>2, <2>1
    <3> HIDE DEF Lower
    <3> QED BY <2>1, <3>1, ProperSubset
  <2>3. Cardinality(Lower(x)) \in Nat /\ Cardinality(Lower(y)) \in Nat  BY <1>2
  <2> HIDE DEF Lower
  <2> QED BY <2>2, <2>3
<1>4. \A x \in names : pos[x] \in 1..n
  <2> SUFFICES ASSUME NEW x \in names PROVE pos[x] \in 1..n  OBVIOUS
  <2>1. Cardinality(Lower(x)) \in Nat /\ Cardinality(Lower(x)) < n  BY <1>2
  <2> HIDE DEF Lower, n
  <2> QED BY <1>1, <2>1
<1>5. \A x, y \in names : pos[x] = pos[y] => x = y
  <2> SUFFICES ASSUME NEW x \in names, NEW y \in names, x # y PROVE pos[x] # pos[y]  OBVIOUS
  <2>1. Rank[x] < Rank[y] \/ Rank[y] < Rank[x]
    <3>1. Rank[x] # Rank[y]  BY KindRank
    <3> QED BY <1>r, <3>1
  <2>2. pos[x] \in Nat /\ pos[y] \in Nat  BY <1>4, <1>1
  <2> HIDE DEF pos
  <2> QED BY <1>3, <2>1, <2>2
<1>6. pos \in Surjection(names, 1..n)
  <2>1. pos \in Injection(names, 1..n)  BY <1>4, <1>5 DEF Injection, IsInjective
  <2>2. IsFiniteSet(1..n) /\ Cardinality(1..n) = n
    <3> HIDE DEF n
    <3>1. n - 1 + 1 = n /\ (1 > n => n = 0)  BY <1>1
    <3> QED BY <1>1, <3>1, FS_Interval
  <2> HIDE DEF pos
  <2> QED BY <2>1, <2>2, FS_Injection
<1>7. \A i \in 1..n : \E x \in names : pos[x] = i
  <2> HIDE DEF pos
  <2> QED BY <1>6 DEF Surjection
<1> DEFINE s == [i \in 1..n |-> CHOOSE x \in names : pos[x] = i]
<1> HIDE DEF n, pos
<1>8. \A i \in 1..n : s[i] \in names /\ pos[s[i]] = i  BY <1>7
<1>9. s \in [1..n -> names] /\ DOMAIN s = 1..n  BY <1>8
<1>10. ASSUME NEW i \in 1..n, NEW j \in 1..n, i < j PROVE Rank[s[i]] < Rank[s[j]]
  <2> DEFINE x == s[i]  y == s[j]
  <2>1. x \in names /\ y \in names /\ pos[x] = i /\ pos[y] = j  BY <1>8
  <2> HIDE DEF x, y, s
  <2>2. Rank[x] # Rank[y]
    <3>1. x # y  BY <1>10, <2>1, <1>1
    <3> QED BY <2>1, <3>1, KindRank
  <2>3. ~(Rank[y] < Rank[x])
    <3> SUFFICES ASSUME Rank[y] < Rank[x] PROVE FALSE  OBVIOUS
    <3>1. pos[y] < pos[x]  BY <1>3, <2>1
    <3> QED BY <1>10, <1>1, <2>1, <3>1
  <2>4. Rank[x] \in Nat /\ Rank[y] \in Nat  BY <1>r, <2>1
  <2> QED BY <2>2, <2>3, <2>4 DEF x, y
<1> QED BY <1>9, <1>10 DEF Increasing, n

(* Sorted is all of the names, in order.                                   *)
LEMMA SortedNames ==
    ASSUME NEW K \in Kinds, NEW names \in SUBSET K
    PROVE  /\ Sorted(names) \in Seq(K) /\ Len(Sorted(names)) = Cardinality(names)
           /\ Increasing(Sorted(names))
           /\ \A x : x \in names <=> \E i \in 1..Len(Sorted(names)) : Sorted(names)[i] = x
<1> DEFINE n == Cardinality(names)  s == Sorted(names)
<1>1. IsFiniteSet(names) /\ n \in Nat  BY KindRank, FS_Subset, FS_CardinalityType
<1>2. s \in [1..n -> names] /\ Increasing(s)
  <2>1. s = CHOOSE t \in [1..n -> names] : Increasing(t)  BY DEF Sorted, Increasing
  <2>2. \E t \in [1..n -> names] : Increasing(t)  BY SortedExists
  <2> HIDE DEF n, s
  <2> QED BY <2>1, <2>2
<1>r. \A x \in names : Rank[x] \in Nat  BY KindRank
<1> HIDE DEF n, s
<1>3. s \in Seq(K) /\ Len(s) = n /\ DOMAIN s = 1..n
  <2>1. s \in [1..n -> K]  BY <1>2
  <2>2. s \in Seq(K)  BY <1>1, <2>1, SeqDef
  <2> QED BY <1>1, <1>2, <2>2, LenProperties
<1>4. \A i, j \in 1..n : s[i] = s[j] => i = j
  <2> SUFFICES ASSUME NEW i \in 1..n, NEW j \in 1..n, i # j, s[i] = s[j] PROVE FALSE  OBVIOUS
  <2>1. i < j \/ j < i  BY <1>1
  <2>2. Rank[s[i]] < Rank[s[j]] \/ Rank[s[j]] < Rank[s[i]]  BY <1>2, <1>3, <2>1 DEF Increasing
  <2>3. Rank[s[i]] \in Nat /\ Rank[s[i]] = Rank[s[j]]  BY <1>2, <1>r
  <2> QED BY <2>2, <2>3
<1>5. s \in Surjection(1..n, names)
  <2>1. s \in Injection(1..n, names)  BY <1>2, <1>4 DEF Injection, IsInjective
  <2>2. IsFiniteSet(1..n) /\ Cardinality(1..n) = n
    <3>1. n - 1 + 1 = n /\ (1 > n => n = 0)  BY <1>1
    <3> QED BY <1>1, <3>1, FS_Interval
  <2> QED BY <1>1, <2>1, <2>2, FS_Injection DEF n
<1>6. \A x \in names : \E i \in 1..n : s[i] = x  BY <1>5 DEF Surjection
<1>7. \A x : x \in names <=> \E i \in 1..n : s[i] = x  BY <1>2, <1>6
<1> QED BY <1>2, <1>3, <1>7 DEF n, s

(* What Respond shows of some names.                                       *)
After(names, cut) == {x \in names : cut = None \/ Rank[x] > cut}
Shown(after, n) == IF n = None THEN Sorted(after)
                   ELSE SubSeq(Sorted(after), 1, Min({Len(Sorted(after)), n}))

LEMMA SmallerOf == ASSUME NEW a \in Nat, NEW b \in Nat
                   PROVE  Min({a, b}) \in Nat /\ Min({a, b}) <= a
<1> DEFINE S == {a, b}
<1>1. \E x \in S : \A y \in S : x <= y  OBVIOUS
<1>2. Min(S) \in S /\ \A y \in S : Min(S) <= y
  <2> HIDE DEF S
  <2> QED BY <1>1 DEF Min
<1> QED BY <1>2

(* The first of them, in order, none left out.                             *)
LEMMA ShownNames ==
    ASSUME NEW K \in Kinds, NEW after \in SUBSET K, NEW n \in Nat \cup {None}
    PROVE  LET s == Shown(after, n) IN
           /\ s \in Seq(K) /\ Increasing(s) /\ ToSet(s) \subseteq after
           /\ n = None => Len(s) = Cardinality(after)
           /\ ~(Len(s) < Cardinality(after)) => ToSet(s) = after
           /\ s # <<>> => /\ Last(s) \in after
                          /\ \A x \in ToSet(s) : Rank[x] <= Rank[Last(s)]
                          /\ \A x \in after : Rank[x] <= Rank[Last(s)] => x \in ToSet(s)
<1> DEFINE all == Sorted(after)  s == Shown(after, n)  c == Cardinality(after)
<1>1. /\ all \in Seq(K) /\ Len(all) = c /\ Increasing(all)
      /\ \A x : x \in after <=> \E i \in 1..c : all[i] = x
      BY SortedNames
<1>2. c \in Nat /\ \A x \in after : Rank[x] \in Nat  BY KindRank, FS_Subset, FS_CardinalityType
<1>3. /\ s \in Seq(K) /\ Len(s) \in Nat /\ Len(s) <= c
      /\ \A i \in 1..Len(s) : s[i] = all[i]
      /\ n = None => Len(s) = c
  <2>1. CASE n = None  BY <1>1, <1>2, <2>1 DEF Shown
  <2>2. CASE n # None
    <3> DEFINE m == Min({c, n})
    <3>1. n \in Nat  BY <2>2
    <3>2. m \in Nat /\ m <= c  BY <1>2, <3>1, SmallerOf
    <3>3. s = SubSeq(all, 1, m)  BY <1>1, <2>2 DEF Shown
    <3> HIDE DEF s, all, c, m
    <3>4. 1 \in Int /\ m \in Int /\ \A i \in 1..m : all[i] \in K
          BY <1>1, <1>2, <3>2, ElementOfSeq
    <3>5. /\ s \in Seq(K) /\ Len(s) = IF 1 <= m THEN m - 1 + 1 ELSE 0
          /\ \A i \in 1..(m - 1 + 1) : s[i] = all[1 + i - 1]
          BY <3>3, <3>4, SubSeqProperties
    <3>6. Len(s) = m  BY <3>2, <3>5
    <3>7. \A i \in 1..m : s[i] = all[i]
      <4> SUFFICES ASSUME NEW i \in 1..m PROVE s[i] = all[i]  OBVIOUS
      <4>1. i \in 1..(m - 1 + 1) /\ 1 + i - 1 = i  BY <3>2
      <4> QED BY <3>5, <4>1
    <3> QED BY <2>2, <3>2, <3>5, <3>6, <3>7
  <2> QED BY <2>1, <2>2
<1> HIDE DEF s, all, c
<1>4. DOMAIN s = 1..Len(s) /\ DOMAIN all = 1..c  BY <1>1, <1>3, LenProperties
<1>5. \A i \in 1..Len(s) : i \in 1..c  BY <1>2, <1>3
<1>6. Increasing(s)  BY <1>1, <1>3, <1>4, <1>5 DEF Increasing
<1>7. ToSet(s) \subseteq after  BY <1>1, <1>3, <1>4, <1>5 DEF ToSet
<1>8. ~(Len(s) < c) => ToSet(s) = after
  <2> SUFFICES ASSUME ~(Len(s) < c) PROVE after \subseteq ToSet(s)  BY <1>7
  <2>1. Len(s) = c  BY <1>2, <1>3
  <2> QED BY <1>1, <1>3, <1>4, <2>1 DEF ToSet
<1>9. ASSUME s # <<>>
      PROVE  /\ Last(s) \in after
             /\ \A x \in ToSet(s) : Rank[x] <= Rank[Last(s)]
             /\ \A x \in after : Rank[x] <= Rank[Last(s)] => x \in ToSet(s)
  <2> DEFINE k == Len(s)
  <2>1. k \in 1..k /\ k \in Nat  BY <1>3, <1>9, EmptySeq
  <2>2. Last(s) = s[k] /\ s[k] = all[k] /\ k \in 1..c  BY <1>3, <1>5, <2>1 DEF Last
  <2>3. Last(s) \in after  BY <1>1, <2>2
  <2>4. \A x \in ToSet(s) : Rank[x] <= Rank[Last(s)]
    <3> SUFFICES ASSUME NEW i \in 1..k PROVE Rank[s[i]] <= Rank[s[k]]  BY <1>4, <2>2 DEF ToSet
    <3>1. s[i] \in after /\ s[k] \in after  BY <1>1, <1>3, <1>5, <2>2
    <3>2. i = k \/ i < k  BY <2>1
    <3>3. i < k => Rank[s[i]] < Rank[s[k]]  BY <1>4, <1>6, <2>1 DEF Increasing
    <3> QED BY <1>2, <3>1, <3>2, <3>3
  <2>5. \A x \in after : Rank[x] <= Rank[Last(s)] => x \in ToSet(s)
    <3> SUFFICES ASSUME NEW x \in after, Rank[x] <= Rank[all[k]] PROVE x \in ToSet(s)
        BY <2>2
    <3>1. PICK i \in 1..c : all[i] = x  BY <1>1
    <3>2. ~(k < i)
      <4> SUFFICES ASSUME k < i PROVE FALSE  OBVIOUS
      <4>1. Rank[all[k]] < Rank[all[i]]  BY <1>1, <1>4, <2>2 DEF Increasing
      <4>2. Rank[all[k]] \in Nat /\ Rank[x] \in Nat  BY <1>2, <2>2, <2>3
      <4> QED BY <3>1, <4>1, <4>2
    <3>3. i \in 1..k  BY <1>2, <2>1, <3>2
    <3> QED BY <1>3, <1>4, <3>1, <3>3 DEF ToSet
  <2> QED BY <2>3, <2>4, <2>5
<1> QED BY <1>3, <1>6, <1>7, <1>8, <1>9 DEF s, c

(* One page after others.                                                  *)
LEMMA Joined ==
    ASSUME NEW K, NEW s \in Seq(K), NEW t \in Seq(K)
    PROVE  /\ s \o t \in Seq(K) /\ DOMAIN (s \o t) = 1..(Len(s) + Len(t))
           /\ \A i \in 1..Len(s) : (s \o t)[i] = s[i]
           /\ \A i \in 1..(Len(s) + Len(t)) :
                 i \in 1..Len(s) \/ (i - Len(s) \in 1..Len(t) /\ (s \o t)[i] = t[i - Len(s)])
           /\ ToSet(s \o t) = ToSet(s) \cup ToSet(t)
<1> DEFINE j == s \o t  a == Len(s)  b == Len(t)
<1>1. /\ j \in Seq(K) /\ Len(j) = a + b
      /\ \A i \in 1..(a + b) : j[i] = IF i <= a THEN s[i] ELSE t[i - a]
      BY ConcatProperties
<1>2. a \in Nat /\ b \in Nat /\ DOMAIN s = 1..a /\ DOMAIN t = 1..b  BY LenProperties
<1>3. DOMAIN j = 1..(a + b)  BY <1>1, LenProperties
<1> HIDE DEF j, a, b
<1>4. \A i \in 1..a : i \in 1..(a + b) /\ j[i] = s[i]  BY <1>1, <1>2
<1>5. \A i \in 1..b : a + i \in 1..(a + b) /\ j[a + i] = t[i]
  <2> SUFFICES ASSUME NEW i \in 1..b PROVE a + i \in 1..(a + b) /\ j[a + i] = t[i]  OBVIOUS
  <2> DEFINE k == a + i
  <2>1. k \in 1..(a + b) /\ ~(k <= a) /\ k - a = i  BY <1>2
  <2> HIDE DEF k
  <2>2. j[k] = t[i]  BY <1>1, <2>1
  <2> QED BY <2>1, <2>2 DEF k
<1>6. \A i \in 1..(a + b) : i \in 1..a \/ (i - a \in 1..b /\ j[i] = t[i - a])
  <2> SUFFICES ASSUME NEW i \in 1..(a + b), i \notin 1..a PROVE i - a \in 1..b /\ j[i] = t[i - a]
      OBVIOUS
  <2>1. ~(i <= a) /\ i - a \in 1..b  BY <1>2
  <2> QED BY <1>1, <2>1
<1>7. ToSet(j) = ToSet(s) \cup ToSet(t)
  <2>1. ToSet(j) \subseteq ToSet(s) \cup ToSet(t)  BY <1>2, <1>3, <1>4, <1>6 DEF ToSet
  <2>2. ToSet(s) \cup ToSet(t) \subseteq ToSet(j)  BY <1>2, <1>3, <1>4, <1>5 DEF ToSet
  <2> QED BY <2>1, <2>2
<1> QED BY <1>1, <1>3, <1>4, <1>6, <1>7 DEF j, a, b

(* It keeps their order if it begins where they end.                       *)
LEMMA PagesJoin ==
    ASSUME NEW K, \A x \in K : Rank[x] \in Nat, NEW cut \in Nat \cup {None}, None \notin Nat,
           NEW s \in Seq(K), Increasing(s), cut = None => s = <<>>,
           cut # None => \A i \in DOMAIN s : Rank[s[i]] <= cut,
           NEW t \in Seq(K), Increasing(t),
           cut # None => \A i \in DOMAIN t : Rank[t[i]] > cut
    PROVE  Increasing(s \o t)
<1> DEFINE j == s \o t  a == Len(s)  b == Len(t)
<1>2. a \in Nat /\ b \in Nat /\ DOMAIN s = 1..a /\ DOMAIN t = 1..b  BY LenProperties
<1>3. DOMAIN j = 1..(a + b)  BY Joined
<1>4. \A i \in 1..a : j[i] = s[i]  BY Joined
<1>6. \A i \in 1..(a + b) : i \in 1..a \/ (i - a \in 1..b /\ j[i] = t[i - a])  BY Joined
<1>e. s = <<>> => a = 0  OBVIOUS
<1>k. /\ \A i \in 1..a : Rank[s[i]] \in Nat
      /\ \A i \in 1..b : Rank[t[i]] \in Nat
      BY ElementOfSeq
<1> HIDE DEF j, a, b
<1>8. ASSUME NEW x \in 1..(a + b), NEW y \in 1..(a + b), x < y
      PROVE  Rank[j[x]] < Rank[j[y]]
  <2>1. CASE x \in 1..a /\ y \in 1..a
    <3>1. j[x] = s[x] /\ j[y] = s[y]  BY <1>4, <2>1
    <3> QED BY <1>2, <1>8, <2>1, <3>1 DEF Increasing
  <2>2. CASE x \in 1..a /\ y \notin 1..a
    <3>1. j[x] = s[x]  BY <1>4, <2>2
    <3>2. y - a \in 1..b /\ j[y] = t[y - a]  BY <1>6, <2>2
    <3>3. cut # None  BY <1>e, <1>2, <2>2
    <3>4. Rank[s[x]] <= cut /\ Rank[t[y - a]] > cut  BY <1>2, <2>2, <3>2, <3>3
    <3>5. Rank[s[x]] \in Nat /\ Rank[t[y - a]] \in Nat /\ cut \in Nat
          BY <1>k, <2>2, <3>2, <3>3
    <3> QED BY <3>1, <3>2, <3>4, <3>5
  <2>3. CASE x \notin 1..a
    <3>1. x - a \in 1..b /\ j[x] = t[x - a]  BY <1>6, <2>3
    <3>2. y \notin 1..a  BY <1>2, <1>8, <2>3
    <3>3. y - a \in 1..b /\ j[y] = t[y - a]  BY <1>6, <3>2
    <3>4. x - a < y - a  BY <1>2, <1>8
    <3>5. Rank[t[x - a]] < Rank[t[y - a]]  BY <1>2, <3>1, <3>3, <3>4 DEF Increasing
    <3> QED BY <3>1, <3>3, <3>5
  <2> QED BY <2>1, <2>2, <2>3
<1>9. Increasing(j)  BY <1>3, <1>8 DEF Increasing
<1> QED BY <1>9 DEF j

-----------------------------------------------------------------------------
(* Listings.                                                               *)

(* The listing a request is for.                                           *)
Asks(req) == {h \in Handlers(req) : h.do \in Listings}

Kind(l) == CASE l.do = "catalog" -> Repo [] l.do = "tags_list" -> Tag [] OTHER -> Manifest

(* A listing goes on: its request is under way, or there is a link.        *)
Paging(p) == page[p].of # None /\ (task[p].do # "idle" \/ page[p].link # None)

(* The last name of the page before.                                       *)
Cut(p) == IF task[p].do = "idle" THEN page[p].link ELSE Query(task[p].req, "last")

Still(p) == ~watch[p].moved

(* A client has a page of the listing it asked for, and may ask for the    *)
(* next.                                                                   *)
PageOK(p) ==
    /\ page[p].seen \in Seq(Repo \cup Tag \cup Manifest)
    /\ task[p].do # "idle" \/ page[p].link # None =>
        /\ None \notin Asks(task[p].req)
        /\ page[p].of \in IF Asks(task[p].req) = {} THEN {None} ELSE Asks(task[p].req)
        /\ ~page[p].over /\ page[p].found
    /\ task[p].do # "idle" => page[p].link = None
    /\ page[p].link # None => page[p].of # None /\ Query(task[p].req, "n") # None
    /\ Paging(p) => /\ Query(task[p].req, "n") \in Nat \cup {None}
                    /\ Cut(p) \in Nat \cup {None}

(* The pages so far show nothing that was never there, and, as long as no  *)
(* link is bent, in order, what was there all the time up to their last    *)
(* name.                                                                   *)
SeenOK(p) ==
    LET l == page[p].of  seen == page[p].seen IN
    Paging(p) =>
        /\ seen \in Seq(Kind(l))
        /\ ~page[p].bent =>
            /\ Increasing(seen)
            /\ Cut(p) = None => seen = <<>>
            /\ Cut(p) # None =>
                /\ \A i \in DOMAIN seen : Rank[seen[i]] <= Cut(p)
                /\ l.do = "catalog" \/ Still(p) =>
                    \A x \in watch[p].must \ {l.repo} : Rank[x] <= Cut(p) => x \in ToSet(seen)
        /\ Still(p) => ToSet(seen) \subseteq watch[p].may

(* What a call has found, and where it has yet to look: what was there all *)
(* the time is in one or the other.                                        *)
BagOK(p) ==
    LET t == task[p]  must == watch[p].must  may == watch[p].may IN
    /\ t.do = "list_repos" =>
        /\ t.left \subseteq Root /\ t.bag \subseteq Repo
        /\ \A x \in must : x \in t.bag \/ \E v \in t.left : x \in walk_repos(v)
        /\ Still(p) => t.bag \subseteq may /\ t.left \subseteq distinct_backends
    /\ t.do = "has_repo" =>
        /\ t.left \subseteq Root
        /\ t.repo \in must => t.repo \in t.bag \/ \E v \in t.left : t.repo \in walk_repos(v)
        /\ Still(p) => must \subseteq {t.repo}
    /\ t.do \in {"tags_list", "referrers", "referrers_read"} /\ Still(p) => t.root = resolve(t.repo)
    /\ t.do = "referrers" => t.bag = {}
    /\ t.do = "referrers_read" =>
        /\ t.left \subseteq Manifest /\ t.bag \subseteq Manifest
        /\ Still(p) => t.bag \subseteq may /\ must \subseteq t.bag \cup t.left

WatchOK(p) == watch[p].must \subseteq Names(page[p].of) /\ Names(page[p].of) \subseteq watch[p].may

EndOK(p) == page[p].over =>
    LET seen == page[p].seen IN
    /\ ~page[p].bent =>
        /\ Increasing(seen)
        /\ page[p].of.do = "catalog" \/ Still(p) =>
              watch[p].must \ {page[p].of.repo} \subseteq ToSet(seen)
    /\ Still(p) => ToSet(seen) \subseteq watch[p].may
    /\ ~page[p].found => page[p].of.repo \notin watch[p].must

ClientOK(p) == PageOK(p) /\ SeenOK(p) /\ BagOK(p) /\ WatchOK(p) /\ EndOK(p)

ListInv == DOMAIN watch = Task /\ \A p \in Task : ClientOK(p)

(* The watch of p goes on.                                                 *)
Kept(p) ==
    /\ page'[p].of = page[p].of
    /\ watch'[p].must \subseteq watch[p].must /\ watch[p].may \subseteq watch'[p].may
    /\ ~watch'[p].moved => ~watch[p].moved /\ ~Moves(page[p].of)
    /\ WatchOK(p)'

LEMMA WatchingKeeps ==
    ASSUME NEW p \in Task, Watching, page'[p].of = page[p].of PROVE Kept(p)
<1>1. watch'[p] = [must |-> watch[p].must \cap Names(page[p].of)',
                   may |-> watch[p].may \cup Names(page[p].of)',
                   moved |-> watch[p].moved \/ Moves(page[p].of)]
      BY DEF Watching
<1>2. /\ watch'[p].must = watch[p].must \cap Names(page[p].of)'
      /\ watch'[p].may = watch[p].may \cup Names(page[p].of)'
      /\ watch'[p].moved = (watch[p].moved \/ Moves(page[p].of))
      BY <1>1
<1>3. WatchOK(p)'  BY <1>2 DEF WatchOK
<1> QED BY <1>2, <1>3 DEF Kept

LEMMA NamesKept ==
    ASSUME UNCHANGED <<rules, docs, tags, known>>, NEW l
    PROVE  Names(l)' = Names(l) /\ ~Moves(l)
BY DEF Names, Moves, list_tags, Refers, resolve, distinct_backends, walk_repos

(* While nothing is stored, what is there is what was there.               *)
LEMMA KeptNames ==
    ASSUME NEW p \in Task, Kept(p), UNCHANGED <<rules, store>>
    PROVE  watch'[p].must \subseteq Names(page[p].of) /\ Names(page[p].of) \subseteq watch'[p].may
BY NamesKept DEF store, Kept, WatchOK

LEMMA RootsOfRules == ASSUME RulesOK PROVE distinct_backends \subseteq Root
<1> SUFFICES ASSUME NEW i \in DOMAIN rules PROVE rules[i].root \in Root  BY DEF distinct_backends
<1>1. rules[i] \in [pattern : Pattern, root : Root]
  <2>1. i \in 1..Len(rules)  BY DEF RulesOK
  <2> QED BY <2>1, ElementOfSeq DEF RulesOK
<1> QED BY <1>1

(* A repository never loses its directory.                                 *)
LEMMA KnownGrows ==
    ASSUME TypeInv, NEW p \in Task, Handle(p)
    PROVE  \A v \in Root : known[v] \subseteq known'[v]
<1>0. DOMAIN known = Root  BY DEF TypeInv, StoreType
<1>1. CASE manifest_put(p)
  <2>1. known' = [known EXCEPT ![At(p)] = known[At(p)] \cup {task[p].repo}]
        BY <1>1 DEF manifest_put
  <2> QED BY <1>0, <2>1
<1>2. CASE ~manifest_put(p)
  <2>1. UNCHANGED known
        BY <1>2 DEF Handle, Gate, dispatch, Abort, ReadOnly, manifest_delete,
            blob_delete, mount_exists, mount_read, mount_write, upload_post, upload_chunk,
            upload_finish, upload_finalize, upload_cancel, catalog, list_repos, catalog_page,
            tags_list, has_repo, referrers, referrers_read, repo_root_upsert, store
  <2> QED BY <2>1
<1> QED BY <1>1, <1>2

LEMMA WalkGrows ==
    ASSUME NEW v, known[v] \subseteq known'[v] PROVE walk_repos(v) \subseteq walk_repos(v)'
BY DEF walk_repos

LEMMA WalkType == ASSUME TypeInv, NEW v \in Root PROVE walk_repos(v) \subseteq Repo
<1>1. known[v] \subseteq Repo  BY DEF TypeInv, StoreType
<1>2. \A r \in Repo : Listed(r) \in Repo \cup {<<>>}  BY ServerConstants
<1> QED BY <1>1, <1>2 DEF walk_repos

(* The listing a call is for.                                              *)
LEMMA ListingOf ==
    ASSUME TypeInv, NEW p \in Task, PageOK(p), task[p].do \in Step, First(task[p].do) \in Listings
    PROVE  /\ page[p].of = [do |-> First(task[p].do), repo |-> task[p].repo, ref |-> task[p].ref]
           /\ page[p].of # None
<1> DEFINE h == [do |-> First(task[p].do), repo |-> task[p].repo, ref |-> task[p].ref]
<1>1. h \in Handlers(task[p].req) /\ h.do \in Listings  BY DEF TypeInv, Serves
<1>2. task[p].do # "idle"  BY IdleNoStep
<1> HIDE DEF h
<1>3. page[p].of \in Asks(task[p].req)  BY <1>1, <1>2 DEF PageOK, Asks
<1>4. page[p].of = h  BY <1>1, <1>3, OneListing DEF Asks
<1>5. page[p].of # None  BY <1>2, <1>3 DEF PageOK
<1> QED BY <1>4, <1>5 DEF h

LEMMA ListingCalls ==
    /\ \A do \in {"catalog", "list_repos"} : do \in Step /\ First(do) = "catalog"
    /\ \A do \in {"tags_list", "has_repo"} : do \in Step /\ First(do) = "tags_list"
    /\ \A do \in {"referrers", "referrers_read"} : do \in Step /\ First(do) = "referrers"
    /\ {"catalog", "tags_list", "referrers"} = Listings
BY Steps DEF First, Listings, Inner

(* A client whose task and page are as they were.                          *)
LEMMA OthersKept ==
    ASSUME RulesOK, TypeInv, NEW p \in Task, ClientOK(p), Kept(p),
           task'[p] = task[p], page'[p] = page[p],
           \A v \in Root : walk_repos(v) \subseteq walk_repos(v)'
    PROVE  ClientOK(p)'
<1>1. PageOK(p)'  BY DEF ClientOK, PageOK, Paging, Cut, Asks
<1>2. Still(p)' => Still(p) /\ ~Moves(page[p].of)  BY DEF Kept, Still
<1>3. SeenOK(p)'
  <2>1. Paging(p)' = Paging(p) /\ Cut(p)' = Cut(p)  BY DEF Paging, Cut
  <2> QED BY <1>2, <2>1 DEF ClientOK, SeenOK, Kept
<1>4. EndOK(p)'  BY <1>2 DEF ClientOK, EndOK, Kept
<1>5. WatchOK(p)'  BY DEF Kept
<1>6. BagOK(p)'
  <2> DEFINE t == task[p]
  <2>0. /\ BagOK(p) /\ PageOK(p) /\ task'[p] = t
        /\ watch'[p].must \subseteq watch[p].must /\ watch[p].may \subseteq watch'[p].may
        BY DEF ClientOK, Kept
  <2>1. ASSUME t.do = "list_repos"
        PROVE  /\ \A x \in watch'[p].must : x \in t.bag \/ \E v \in t.left : x \in walk_repos(v)'
               /\ Still(p)' => t.left \subseteq distinct_backends'
    <3>1. page[p].of.do = "catalog" /\ page[p].of # None
      <4>1. t.do \in Step /\ First(t.do) = "catalog" /\ First(t.do) \in Listings
            BY <2>1, ListingCalls
      <4>2. /\ page[p].of = [do |-> First(t.do), repo |-> t.repo, ref |-> t.ref]
            /\ page[p].of # None
            BY <2>0, <4>1, ListingOf
      <4> QED BY <4>1, <4>2
    <3>2. Still(p)' => distinct_backends \subseteq distinct_backends'
          BY <1>2, <3>1 DEF Moves
    <3> QED BY <1>2, <2>0, <2>1, <3>2 DEF BagOK
  <2>2. ASSUME t.do = "has_repo", t.repo \in watch'[p].must
        PROVE  t.repo \in t.bag \/ \E v \in t.left : t.repo \in walk_repos(v)'
        BY <2>0, <2>2 DEF BagOK
  <2>3. ASSUME t.do \in {"tags_list", "referrers", "referrers_read"}, Still(p)'
        PROVE  t.root = resolve(t.repo)'
    <3>1. /\ page[p].of.do \in {"tags_list", "referrers"} /\ page[p].of.repo = t.repo
          /\ page[p].of # None
      <4>1. t.do \in Step /\ First(t.do) \in {"tags_list", "referrers"} /\ First(t.do) \in Listings
            BY <2>3, ListingCalls
      <4>2. /\ page[p].of = [do |-> First(t.do), repo |-> t.repo, ref |-> t.ref]
            /\ page[p].of # None
            BY <2>0, <4>1, ListingOf
      <4> QED BY <4>1, <4>2
    <3>2. resolve(t.repo)' = resolve(t.repo)  BY <1>2, <2>3, <3>1 DEF Moves
    <3> QED BY <1>2, <2>0, <2>3, <3>2 DEF BagOK
  <2> QED BY <1>2, <2>0, <2>1, <2>2, <2>3 DEF BagOK
<1> QED BY <1>1, <1>3, <1>4, <1>5, <1>6 DEF ClientOK

(* What holds of the pages is kept by a step of the task that answers      *)
(* nothing,                                                                *)
LEMMA GoesOn ==
    ASSUME NEW p \in Task, ClientOK(p), Kept(p), task[p].do # "idle", task'[p].do # "idle",
           task'[p].req = task[p].req, page'[p] = page[p], BagOK(p)'
    PROVE  ClientOK(p)'
<1>1. PageOK(p)'  BY DEF ClientOK, PageOK, Paging, Cut, Asks
<1>2. Still(p)' => Still(p)  BY DEF Kept, Still
<1>3. SeenOK(p)'
  <2>1. Paging(p)' = Paging(p) /\ Cut(p)' = Cut(p)  BY DEF Paging, Cut
  <2> QED BY <1>2, <2>1 DEF ClientOK, SeenOK, Kept
<1>4. EndOK(p)'  BY <1>2 DEF ClientOK, EndOK, Kept
<1>5. WatchOK(p)'  BY DEF Kept
<1> QED BY <1>1, <1>3, <1>4, <1>5 DEF ClientOK

(* and by an answer that is no page.                                       *)
LEMMA AnswerKeeps ==
    ASSUME NEW p \in Task, ClientOK(p), Kept(p), task[p].do # "idle", task'[p].do = "idle",
           task'[p].req = task[p].req, page'[p] = page[p]
    PROVE  ClientOK(p)'
<1>1. page'[p].link = None  BY DEF ClientOK, PageOK
<1>2. PageOK(p)' /\ SeenOK(p)' /\ BagOK(p)'
      BY <1>1 DEF ClientOK, PageOK, Paging, SeenOK, BagOK
<1>3. Still(p)' => Still(p)  BY DEF Kept, Still
<1>4. EndOK(p)'  BY <1>3 DEF ClientOK, EndOK, Kept
<1>5. WatchOK(p)'  BY DEF Kept
<1> QED BY <1>2, <1>4, <1>5 DEF ClientOK

(* A page of names among which is all there was, and nothing there never   *)
(* was, is the next one.                                                   *)
LEMMA RespondKeeps ==
    ASSUME TasksOK, TypeInv, NEW p \in Task, ClientOK(p), Kept(p),
           task[p].do \in Step, First(task[p].do) \in Listings,
           NEW names \in SUBSET Kind(page[p].of), Respond(p, names),
           Still(p)' => names \subseteq watch'[p].may,
           page[p].of.do = "catalog" \/ Still(p)' =>
               watch'[p].must \ {page[p].of.repo} \subseteq names
    PROVE  ClientOK(p)'
<1> DEFINE l == page[p].of  K == Kind(l)  q == task[p].req  seen == page[p].seen
           cut == Query(q, "last")  n == Query(q, "n")
           after == After(names, cut)  shown == Shown(after, n)
           more == Len(shown) < Cardinality(after)
           must == watch'[p].must  may == watch'[p].may
<1>0. /\ task[p].do # "idle" /\ Cut(p) = cut /\ Paging(p) /\ l # None
      BY IdleNoStep, ListingOf DEF ClientOK, Cut, Paging
<1>k. /\ K \in Kinds /\ \A x \in K : Rank[x] \in Nat
      /\ K \subseteq Repo \cup Tag \cup Manifest /\ None \notin Nat
      BY KindRank, NamesOrdered DEF Kind, Kinds
<1>1. /\ page'[p].seen = seen \o shown /\ page'[p].over = ~more
      /\ page'[p].link = IF more /\ shown # <<>> THEN Decoded[Last(shown)] ELSE None
      /\ page'[p].bent = (page[p].bent
                          \/ (more /\ shown # <<>> /\ Decoded[Last(shown)] # Rank[Last(shown)]))
      /\ page'[p].of = l /\ page'[p].found = page[p].found
  <2>1. page' = [page EXCEPT ![p].seen = page[p].seen \o shown, ![p].over = ~more,
                   ![p].link = IF more /\ shown # <<>> THEN Decoded[Last(shown)] ELSE None,
                   ![p].bent = page[p].bent
                       \/ (more /\ shown # <<>> /\ Decoded[Last(shown)] # Rank[Last(shown)])]
        BY DEF Respond, After, Shown
  <2> HIDE DEF shown, more
  <2> QED BY <2>1 DEF TasksOK
<1>2. task'[p].do = "idle" /\ task'[p].req = q
      BY AnsweredTask DEF Respond
<1>3. /\ n \in Nat \cup {None} /\ cut \in Nat \cup {None}
      /\ seen \in Seq(Repo \cup Tag \cup Manifest)
      /\ l \in Asks(q) /\ None \notin Asks(q) /\ page[p].found
      BY <1>0 DEF ClientOK, PageOK
<1>4. /\ seen \in Seq(K)
      /\ Still(p) => ToSet(seen) \subseteq watch[p].may
      BY <1>0 DEF ClientOK, SeenOK
<1>o. ASSUME ~page'[p].bent
      PROVE  /\ Increasing(seen)
             /\ cut = None => seen = <<>>
             /\ cut # None =>
                  /\ \A i \in DOMAIN seen : Rank[seen[i]] <= cut
                  /\ l.do = "catalog" \/ Still(p) =>
                       \A x \in watch[p].must \ {l.repo} : Rank[x] <= cut => x \in ToSet(seen)
             /\ page'[p].link # None => page'[p].link = Rank[Last(shown)]
  <2>1. ~page[p].bent  BY <1>1, <1>o
  <2>2. page'[p].link # None => page'[p].link = Rank[Last(shown)]
    <3> HIDE DEF shown, more
    <3> QED BY <1>1, <1>o
  <2> QED BY <1>0, <2>1, <2>2 DEF ClientOK, SeenOK
<1>5. /\ Still(p)' => Still(p)
      /\ must \subseteq watch[p].must /\ watch[p].may \subseteq may
      BY DEF Kept, Still
<1>6. after \in SUBSET K  BY DEF After
<1>7. /\ shown \in Seq(K) /\ Increasing(shown) /\ ToSet(shown) \subseteq after
      /\ n = None => ~more
      /\ ~more => ToSet(shown) = after
      /\ shown # <<>> => /\ Last(shown) \in after
                         /\ \A x \in ToSet(shown) : Rank[x] <= Rank[Last(shown)]
                         /\ \A x \in after : Rank[x] <= Rank[Last(shown)] => x \in ToSet(shown)
  <2> HIDE DEF after, K, n
  <2>1. Cardinality(after) \in Nat  BY <1>k, <1>6, KindRank, FS_Subset, FS_CardinalityType
  <2>2. /\ shown \in Seq(K) /\ Increasing(shown) /\ ToSet(shown) \subseteq after
        /\ n = None => Len(shown) = Cardinality(after)
        /\ ~(Len(shown) < Cardinality(after)) => ToSet(shown) = after
        /\ shown # <<>> => /\ Last(shown) \in after
                           /\ \A x \in ToSet(shown) : Rank[x] <= Rank[Last(shown)]
                           /\ \A x \in after : Rank[x] <= Rank[Last(shown)] => x \in ToSet(shown)
    <3>1. n \in Nat \cup {None} /\ K \in Kinds /\ after \in SUBSET K  BY <1>3, <1>k, <1>6
    <3> QED BY ONLY <3>1, ShownNames
  <2> HIDE DEF shown, n
  <2> QED BY <2>1, <2>2
<1>8. after = {x \in names : cut = None \/ Rank[x] > cut}  BY DEF After
<1>9. \A x : x \in names => x \in K  OBVIOUS
<1> HIDE DEF after, shown, more, cut, n, seen, K
<1>10. /\ seen \o shown \in Seq(K)
       /\ ToSet(seen \o shown) = ToSet(seen) \cup ToSet(shown)
       BY <1>4, <1>7, Joined
<1>i. ASSUME ~page'[p].bent PROVE Increasing(seen \o shown)
  <2>1. cut # None => \A i \in DOMAIN shown : Rank[shown[i]] > cut
        BY <1>7, <1>8 DEF ToSet
  <2>2. /\ \A x \in K : Rank[x] \in Nat
        /\ cut \in Nat \cup {None} /\ None \notin Nat
        /\ seen \in Seq(K) /\ Increasing(seen) /\ (cut = None => seen = <<>>)
        /\ (cut # None => \A i \in DOMAIN seen : Rank[seen[i]] <= cut)
        /\ shown \in Seq(K) /\ Increasing(shown)
        BY <1>k, <1>3, <1>4, <1>7, <1>i, <1>o
  <2> QED BY ONLY <2>1, <2>2, PagesJoin, SMTT(30)
<1>11. ASSUME NEW x \in must \ {l.repo}, l.do = "catalog" \/ Still(p)', ~page'[p].bent
       PROVE  x \in names /\ (x \notin after => x \in ToSet(seen))
  <2>1. x \in names  BY <1>11
  <2>2. x \notin after => cut # None /\ Rank[x] <= cut
    <3>1. Rank[x] \in Nat  BY <1>k, <1>9, <2>1
    <3> QED BY <1>3, <1>8, <2>1, <3>1
  <2> QED BY <1>5, <1>o, <1>11, <2>1, <2>2
<1>12. PageOK(p)'
  <2>1. page'[p].seen \in Seq(Repo \cup Tag \cup Manifest)
        BY <1>1, <1>k, <1>10, SeqMonotonic
  <2>2. page'[p].link # None => /\ more /\ shown # <<>>
                                /\ page'[p].link \in Nat /\ n # None
    <3>1. shown # <<>> => Decoded[Last(shown)] \in Nat  BY <1>k, <1>6, <1>7, NamesOrdered
    <3> QED BY <1>1, <1>7, <3>1
  <2>3. Query(task'[p].req, "n") = n /\ Asks(task'[p].req) = Asks(q)  BY <1>2 DEF n
  <2>4. Cut(p)' = page'[p].link  BY <1>2 DEF Cut
  <2>5. Asks(task[p].req)' = Asks(q)  BY <1>2 DEF Asks
  <2> QED BY <1>0, <1>1, <1>2, <1>3, <2>1, <2>2, <2>3, <2>4, <2>5 DEF PageOK, Paging
<1>13. SeenOK(p)'
  <2> SUFFICES ASSUME Paging(p)'
               PROVE  SeenOK(p)'
      BY DEF SeenOK
  <2>1. page'[p].link # None  BY <1>2 DEF Paging
  <2> DEFINE c == Rank[Last(shown)]
  <2>2. /\ more /\ shown # <<>> /\ c \in Nat /\ (~page'[p].bent => Cut(p)' = c)
        /\ Last(shown) \in after
        BY <1>1, <1>2, <1>k, <1>o, <1>6, <1>7, <2>1 DEF Cut
  <2> HIDE DEF c
  <2>3. ASSUME ~page'[p].bent PROVE \A x \in ToSet(seen) \cup ToSet(shown) : Rank[x] <= c
    <3>1. \A x \in ToSet(shown) : Rank[x] <= c  BY <1>7, <2>2 DEF c
    <3>2. ASSUME NEW x \in ToSet(seen) PROVE Rank[x] <= c
      <4>1. PICK i \in DOMAIN seen : seen[i] = x  BY DEF ToSet
      <4>2. cut # None
        <5>1. seen # <<>>  BY <4>1
        <5> QED BY <1>o, <2>3, <5>1
      <4>3. Rank[x] <= cut /\ cut < c  BY <1>o, <1>3, <1>8, <2>2, <2>3, <4>1, <4>2 DEF c
      <4>4. Rank[x] \in Nat
        <5>1. i \in 1..Len(seen)  BY <1>4, <4>1, LenProperties
        <5>2. x \in K  BY <1>4, <4>1, <5>1, ElementOfSeq
        <5> QED BY <1>k, <5>2
      <4> QED BY <1>3, <2>2, <4>2, <4>3, <4>4
    <3> QED BY <3>1, <3>2
  <2>4. ~page'[p].bent => \A i \in DOMAIN (seen \o shown) : Rank[(seen \o shown)[i]] <= c
        BY <1>10, <2>3 DEF ToSet
  <2>5. ASSUME ~page'[p].bent, l.do = "catalog" \/ Still(p)', NEW x \in must \ {l.repo},
               Rank[x] <= c
        PROVE  x \in ToSet(seen \o shown)
    <3>1. x \in after => x \in ToSet(shown)  BY <1>7, <2>2, <2>5 DEF c
    <3> QED BY <1>10, <1>11, <2>5, <3>1
  <2>6. Still(p)' => ToSet(seen \o shown) \subseteq may
    <3> SUFFICES ASSUME Still(p)' PROVE ToSet(seen \o shown) \subseteq may  OBVIOUS
    <3>1. ToSet(seen) \subseteq may  BY <1>4, <1>5
    <3>2. ToSet(shown) \subseteq may  BY <1>7, <1>8
    <3> QED BY <1>10, <3>1, <3>2
  <2>7. c # None  BY <1>k, <2>2
  <2>8. page'[p].seen = seen \o shown /\ page'[p].of = l  BY <1>1
  <2> QED BY <1>10, <1>i, <2>2, <2>4, <2>5, <2>6, <2>7, <2>8 DEF SeenOK, K
<1>14. BagOK(p)'  BY <1>2 DEF BagOK
<1>15. WatchOK(p)'  BY DEF Kept
<1>16. EndOK(p)'
  <2> SUFFICES ASSUME page'[p].over PROVE EndOK(p)'  BY DEF EndOK
  <2>1. ToSet(shown) = after  BY <1>1, <1>7
  <2>2. ~page'[p].bent /\ (l.do = "catalog" \/ Still(p)') =>
            must \ {l.repo} \subseteq ToSet(seen \o shown)
        BY <1>10, <1>11, <2>1
  <2>3. Still(p)' => ToSet(seen \o shown) \subseteq may
    <3> SUFFICES ASSUME Still(p)' PROVE ToSet(seen \o shown) \subseteq may  OBVIOUS
    <3>1. ToSet(seen) \subseteq may  BY <1>4, <1>5
    <3>2. ToSet(shown) \subseteq may  BY <1>7, <1>8
    <3> QED BY <1>10, <3>1, <3>2
  <2>4. page'[p].seen = seen \o shown /\ page'[p].of = l /\ page'[p].found  BY <1>1, <1>3
  <2> QED BY <1>10, <1>i, <2>2, <2>3, <2>4 DEF EndOK
<1> QED BY <1>12, <1>13, <1>14, <1>15, <1>16 DEF ClientOK

(* Only a page of p is another, and of the same listing.                   *)
LEMMA PagesOf ==
    ASSUME TasksOK, NEW p \in Task, Handle(p), NEW r \in Task
    PROVE  page'[r].of = page[r].of /\ (r # p => page'[r] = page[r] /\ task'[r] = task[r])
<1>1. page'[r].of = page[r].of /\ (r # p => page'[r] = page[r])
  <2>1. CASE \E names : Respond(p, names)  BY <2>1, RespondsTo
  <2>2. CASE page' = [page EXCEPT ![p] = [page[p] EXCEPT !.over = TRUE, !.found = FALSE]]
        BY <2>2 DEF TasksOK
  <2>3. CASE UNCHANGED page  BY <2>3
  <2>4. UNCHANGED page \/ catalog_page(p) \/ tags_list(p) \/ has_repo(p) \/ referrers_read(p)
        BY DEF Handle, Gate, dispatch, Abort, ReadOnly, manifest_put, manifest_delete,
            blob_delete, mount_exists, mount_read, mount_write, upload_post, upload_chunk,
            upload_finish, upload_finalize, upload_cancel, catalog, list_repos,
            referrers, repo_root_upsert, ListsRepos
  <2>5. catalog_page(p) \/ tags_list(p) \/ referrers_read(p) =>
            UNCHANGED page \/ \E names : Respond(p, names)
        BY DEF catalog_page, tags_list, referrers_read, ListsRepos
  <2>6. has_repo(p) => \/ \E names : Respond(p, names)
                       \/ page' = [page EXCEPT ![p] = [page[p] EXCEPT !.over = TRUE, !.found = FALSE]]
        BY DEF has_repo
  <2> QED BY <2>1, <2>2, <2>3, <2>4, <2>5, <2>6
<1>2. r # p => task'[r] = task[r]
  <2>1. Proceeds(p)  BY HandleProceeds
  <2>2. task' = task \/ task' = [task EXCEPT ![p] = task'[p]]  BY <2>1 DEF Proceeds, Gate
  <2> QED BY <2>2 DEF TasksOK
<1> QED BY <1>1, <1>2

ListingCall == {"list_repos", "has_repo", "tags_list", "referrers", "referrers_read"}

(* Steps that have nothing to do with a listing.                           *)
LEMMA PlainKeeps ==
    ASSUME TasksOK, NEW p \in Task, ClientOK(p), Kept(p), UNCHANGED page,
           \/ task[p].do \in Step /\ Answered(p)
           \/ \E repo : \E do \in Step \ ListingCall : task[p].do \in Step /\ Goes(p, do, repo)
           \/ dispatch(p)
    PROVE  ClientOK(p)'
<1>1. CASE task[p].do # "idle" /\ Answered(p)  BY <1>1, AnsweredTask, AnswerKeeps
<1>2. CASE \E repo : \E do \in Step \ ListingCall : task[p].do \in Step /\ Goes(p, do, repo)
  <2>1. PICK repo : \E do \in Step \ ListingCall : task[p].do \in Step /\ Goes(p, do, repo)  BY <1>2
  <2>0. PICK do \in Step \ ListingCall : task[p].do \in Step /\ Goes(p, do, repo)  BY <2>1
  <2>2. task'[p].do = do /\ task'[p].req = task[p].req  BY <2>0 DEF Goes, TasksOK, Shaped
  <2>3. BagOK(p)'  BY <2>0, <2>2 DEF BagOK, ListingCall
  <2> QED BY <2>0, <2>2, <2>3, IdleNoStep, GoesOn
<1>3. CASE dispatch(p) /\ ~Answered(p)
  <2>1. PICK h \in Handlers(task[p].req) : task' = [task EXCEPT ![p] =
            [Free EXCEPT !.do = h.do, !.repo = h.repo, !.ref = h.ref, !.root = resolve(h.repo),
                         !.req = task[p].req]]
        BY <1>3 DEF dispatch
  <2>2. /\ task'[p].do = h.do /\ task'[p].req = task[p].req /\ task'[p].repo = h.repo
        /\ task'[p].root = resolve(h.repo) /\ task'[p].bag = {}
        BY <2>1 DEF TasksOK, Free
  <2>3. h.do \in Step \ Inner  BY Steps DEF Handlers
  <2>4. resolve(task[p].repo)' = resolve(task'[p].repo)  BY <1>3 DEF dispatch, resolve
  <2>5. BagOK(p)'
    <3>1. task'[p].do \notin {"list_repos", "has_repo", "referrers_read"}  BY <2>2, <2>3 DEF Inner
    <3> QED BY <2>2, <2>4, <3>1 DEF BagOK
  <2>6. task[p].do = "auth" /\ page' = page  BY <1>3 DEF dispatch
  <2> QED BY <2>2, <2>3, <2>5, <2>6, IdleNoStep, GoesOn
<1>4. dispatch(p) => task[p].do # "idle"  BY DEF dispatch
<1> QED BY <1>1, <1>2, <1>3, <1>4, IdleNoStep

(* The roots of the rules are to be listed: each repository that was there *)
(* all the time is on one of them.                                         *)
LEMMA ListsKeeps ==
    ASSUME TasksOK, RulesOK, TypeInv, NEW p \in Task, ClientOK(p), Kept(p),
           NEW do \in {"list_repos", "has_repo"}, task[p].do \in Step, First(task[p].do) = First(do),
           ListsRepos(p, do), UNCHANGED <<rules, store>>,
           do = "has_repo" =>
               /\ task[p].repo \notin Tag
               /\ Still(p)' => watch'[p].must \subseteq {task[p].repo}
    PROVE  ClientOK(p)'
<1>1. /\ task'[p].do = do /\ task'[p].req = task[p].req /\ task'[p].repo = task[p].repo
      /\ task'[p].left = distinct_backends /\ task'[p].bag = {} /\ UNCHANGED page
      BY DEF ListsRepos, TasksOK, Shaped
<1>2. distinct_backends \subseteq Root /\ distinct_backends' = distinct_backends
      BY RootsOfRules DEF distinct_backends
<1>3. \A v : walk_repos(v)' = walk_repos(v)  BY DEF store, walk_repos
<1>4. /\ page[p].of # None /\ page[p].of.do = First(do) /\ page[p].of.repo = task[p].repo
  <2>1. First(do) \in Listings  BY ListingCalls
  <2>2. /\ page[p].of = [do |-> First(do), repo |-> task[p].repo, ref |-> task[p].ref]
        /\ page[p].of # None
        BY <2>1, ListingOf DEF ClientOK
  <2> QED BY <2>2
<1>5. \A x \in watch'[p].must : do = "list_repos" \/ x = task[p].repo =>
          \E v \in distinct_backends : x \in walk_repos(v)
  <2> DEFINE l == page[p].of  repos == UNION {walk_repos(v) : v \in distinct_backends}
  <2>1. watch'[p].must \subseteq Names(page[p].of)'  BY DEF Kept, WatchOK
  <2>2. Names(page[p].of)' = Names(l)
        BY <1>1, NamesKept DEF store
  <2>3. do = "list_repos" => Names(l) = repos
        BY <1>4, ListingCalls DEF Names
  <2>4. do = "has_repo" => Names(l) = list_tags(resolve(l.repo), l.repo) \cup ({l.repo} \cap repos)
        BY <1>4, ListingCalls DEF Names
  <2>5. list_tags(resolve(l.repo), l.repo) \subseteq Tag  BY DEF list_tags
  <2>6. \A x \in repos : \E v \in distinct_backends : x \in walk_repos(v)  OBVIOUS
  <2> HIDE DEF repos
  <2> QED BY <2>1, <2>2, <2>3, <2>4, <2>5, <2>6
<1>6. BagOK(p)'
  <2>1. CASE do = "list_repos"
    <3> QED BY <1>1, <1>2, <1>3, <1>5, <2>1 DEF BagOK
  <2>2. CASE do = "has_repo"
    <3> QED BY <1>1, <1>2, <1>3, <1>5, <2>2 DEF BagOK
  <2> QED BY <2>1, <2>2
<1> QED BY <1>1, <1>6, IdleNoStep, GoesOn

(* One more root has been listed.                                          *)
LEMMA ListReposKeeps ==
    ASSUME TasksOK, TypeInv, NEW p \in Task, ClientOK(p), Kept(p), list_repos(p)
    PROVE  ClientOK(p)'
<1>1. PICK v \in task[p].left :
          task' = [task EXCEPT ![p].left = task[p].left \ {v}, ![p].bag = task[p].bag \cup walk_repos(v)]
      BY DEF list_repos
<1>2. /\ task'[p].do = task[p].do /\ task'[p].req = task[p].req /\ task'[p].repo = task[p].repo
      /\ task'[p].left = task[p].left \ {v} /\ task'[p].bag = task[p].bag \cup walk_repos(v)
      BY <1>1 DEF TasksOK, Shaped
<1>3. task[p].do \in {"list_repos", "has_repo"} /\ UNCHANGED <<rules, store, page>>  BY DEF list_repos
<1>4. (\A w : walk_repos(w)' = walk_repos(w)) /\ distinct_backends' = distinct_backends
      BY <1>3 DEF store, distinct_backends, walk_repos
<1>5. /\ BagOK(p) /\ watch'[p].must \subseteq watch[p].must /\ watch[p].may \subseteq watch'[p].may
      /\ Still(p)' => Still(p)
      BY DEF ClientOK, Kept, Still
<1>6. v \in Root  BY <1>1, <1>3, <1>5 DEF BagOK
<1>7. CASE task[p].do = "list_repos"
  <2>1. walk_repos(v) \subseteq Repo  BY <1>6, WalkType
  <2>2. Still(p)' => walk_repos(v) \subseteq watch'[p].may
    <3> SUFFICES ASSUME Still(p)' PROVE walk_repos(v) \subseteq watch'[p].may  OBVIOUS
    <3>1. v \in distinct_backends  BY <1>5, <1>7 DEF BagOK
    <3>2. page[p].of # None /\ page[p].of.do = "catalog"
      <4>1. task[p].do \in Step /\ First(task[p].do) = "catalog" /\ "catalog" \in Listings
            BY <1>7, ListingCalls
      <4>2. /\ page[p].of = [do |-> "catalog", repo |-> task[p].repo, ref |-> task[p].ref]
            /\ page[p].of # None
            BY <4>1, ListingOf DEF ClientOK
      <4> QED BY <4>2
    <3>3. Names(page[p].of) = UNION {walk_repos(w) : w \in distinct_backends}  BY <3>2 DEF Names
    <3>4. Names(page[p].of) \subseteq watch[p].may  BY DEF ClientOK, WatchOK
    <3> QED BY <1>5, <3>1, <3>3, <3>4
  <2>3. \A x \in watch'[p].must :
            x \in task'[p].bag \/ \E w \in task'[p].left : x \in walk_repos(w)'
    <3> SUFFICES ASSUME NEW x \in watch'[p].must, x \notin task[p].bag, x \notin walk_repos(v)
                 PROVE  \E w \in task[p].left \ {v} : x \in walk_repos(w)
        BY <1>2, <1>4
    <3>1. PICK w \in task[p].left : x \in walk_repos(w)  BY <1>5, <1>7 DEF BagOK
    <3> QED BY <3>1
  <2>4. BagOK(p)'  BY <1>2, <1>4, <1>5, <1>7, <2>1, <2>2, <2>3 DEF BagOK
  <2> QED BY <1>2, <1>3, <1>7, <2>4, GoesOn
<1>8. CASE task[p].do = "has_repo"
  <2>1. ASSUME task'[p].repo \in watch'[p].must
        PROVE  task'[p].repo \in task'[p].bag \/ \E w \in task'[p].left : task'[p].repo \in walk_repos(w)'
    <3> SUFFICES ASSUME task[p].repo \notin task[p].bag, task[p].repo \notin walk_repos(v)
                 PROVE  \E w \in task[p].left \ {v} : task[p].repo \in walk_repos(w)
        BY <1>2, <1>4
    <3>1. PICK w \in task[p].left : task[p].repo \in walk_repos(w)  BY <1>2, <1>5, <1>8, <2>1 DEF BagOK
    <3> QED BY <3>1
  <2>2. BagOK(p)'  BY <1>2, <1>4, <1>5, <1>8, <2>1 DEF BagOK
  <2> QED BY <1>2, <1>3, <1>8, <2>2, GoesOn
<1> QED BY <1>3, <1>7, <1>8

LEMMA TagsKeep ==
    ASSUME TasksOK, RulesOK, TypeInv, NEW p \in Task, ClientOK(p), Kept(p), tags_list(p)
    PROVE  ClientOK(p)'
<1> DEFINE repo == task[p].repo  names == list_tags(At(p), repo)  l == page[p].of
<1>1. /\ task[p].do = "tags_list" /\ UNCHANGED <<rules, store>>
      /\ IF names = {} THEN ListsRepos(p, "has_repo") ELSE Respond(p, names)
      BY DEF tags_list
<1>2. task[p].do \in Step /\ First(task[p].do) = "tags_list" /\ "tags_list" \in Listings
      BY <1>1, ListingCalls
<1>3. l.do = "tags_list" /\ l.repo = repo /\ l # None
  <2>1. /\ l = [do |-> "tags_list", repo |-> repo, ref |-> task[p].ref]
        /\ l # None
        BY <1>2, ListingOf DEF ClientOK
  <2> QED BY <2>1
<1>4. repo \in Repo /\ repo \notin Tag
  <2>1. WellFormed(task[p].req) /\ Serves(task[p])  BY <1>2, IdleNoStep DEF TasksOK, TypeInv
  <2>2. repo \in Repo  BY <1>2, <2>1, ServesType DEF Naming
  <2> QED BY <2>2, NamesOrdered
<1>5. Still(p)' => Still(p) /\ At(p) = resolve(repo)
      BY <1>1 DEF ClientOK, BagOK, Kept, Still, At
<1>6. Names(l) = list_tags(resolve(repo), repo) \cup ({repo} \cap UNION {walk_repos(v) : v \in distinct_backends})
      BY <1>3 DEF Names
<1>7. watch'[p].must \subseteq Names(l) /\ Names(l) \subseteq watch'[p].may  BY <1>1, KeptNames
<1>8. names \in SUBSET Kind(l)  BY <1>3 DEF Kind, list_tags
<1>9. CASE names = {}
  <2>1. Still(p)' => watch'[p].must \subseteq {repo}  BY <1>5, <1>6, <1>7, <1>9
  <2>2. First("has_repo") = "tags_list"  BY ListingCalls
  <2> QED BY <1>1, <1>2, <1>4, <1>9, <2>1, <2>2, ListsKeeps
<1>10. CASE names # {}
  <2>1. Still(p)' => names \subseteq watch'[p].may  BY <1>5, <1>6, <1>7
  <2>2. Still(p)' => watch'[p].must \ {repo} \subseteq names  BY <1>5, <1>6, <1>7
  <2> QED BY <1>1, <1>2, <1>3, <1>8, <1>10, <2>1, <2>2, RespondKeeps
<1> QED BY <1>9, <1>10

LEMMA HasRepoKeeps ==
    ASSUME TasksOK, TypeInv, NEW p \in Task, ClientOK(p), Kept(p), has_repo(p)
    PROVE  ClientOK(p)'
<1> DEFINE repo == task[p].repo  l == page[p].of
<1>1. /\ task[p].do = "has_repo" /\ task[p].left = {}
      /\ IF repo \in task[p].bag THEN Respond(p, {})
         ELSE page' = [page EXCEPT ![p] = [page[p] EXCEPT !.over = TRUE, !.found = FALSE]] /\ Answered(p)
      BY DEF has_repo
<1>2. task[p].do \in Step /\ First(task[p].do) = "tags_list" /\ "tags_list" \in Listings
      BY <1>1, ListingCalls
<1>3. l.do = "tags_list" /\ l.repo = repo /\ l # None
  <2>1. /\ l = [do |-> "tags_list", repo |-> repo, ref |-> task[p].ref]
        /\ l # None
        BY <1>2, ListingOf DEF ClientOK
  <2> QED BY <2>1
<1>4. /\ watch'[p].must \subseteq watch[p].must /\ watch[p].may \subseteq watch'[p].may
      /\ Still(p)' => Still(p)
      BY DEF Kept, Still
<1>5. /\ Still(p)' => watch'[p].must \subseteq {repo}
      /\ repo \in watch'[p].must => repo \in task[p].bag
      BY <1>1, <1>4 DEF ClientOK, BagOK
<1>6. CASE repo \in task[p].bag
  <2>1. Respond(p, {})  BY <1>1, <1>6
  <2>2. l.do = "catalog" \/ Still(p)' => watch'[p].must \ {l.repo} \subseteq {}  BY <1>3, <1>5
  <2> QED BY <1>2, <2>1, <2>2, RespondKeeps
<1>7. CASE repo \notin task[p].bag
  <2>0. page'[p] = [page[p] EXCEPT !.over = TRUE, !.found = FALSE]  BY <1>1, <1>7 DEF TasksOK
  <2>1. /\ page'[p].over /\ ~page'[p].found /\ page'[p].of = l /\ page'[p].seen = page[p].seen
        /\ page'[p].link = page[p].link /\ page'[p].bent = page[p].bent
        BY <2>0 DEF TasksOK
  <2>2. task'[p].do = "idle" /\ task'[p].req = task[p].req  BY <1>1, <1>7, AnsweredTask
  <2>3. page'[p].link = None /\ Paging(p)  BY <1>2, <1>3, <2>1, IdleNoStep DEF ClientOK, PageOK, Paging
  <2>4. PageOK(p)'  BY <2>1, <2>2, <2>3 DEF ClientOK, PageOK, Paging
  <2>5. SeenOK(p)' /\ BagOK(p)'  BY <2>2, <2>3 DEF SeenOK, Paging, BagOK
  <2>6. EndOK(p)'
    <3>1. /\ ~page[p].bent => Increasing(page[p].seen)
          /\ Still(p) => ToSet(page[p].seen) \subseteq watch[p].may
          BY <2>3 DEF ClientOK, SeenOK
    <3> QED BY <1>3, <1>4, <1>5, <1>7, <2>1, <3>1 DEF EndOK
  <2>7. WatchOK(p)'  BY DEF Kept
  <2> QED BY <2>4, <2>5, <2>6, <2>7 DEF ClientOK
<1> QED BY <1>6, <1>7

LEMMA CatalogPageKeeps ==
    ASSUME TasksOK, TypeInv, NEW p \in Task, ClientOK(p), Kept(p), catalog_page(p)
    PROVE  ClientOK(p)'
<1> DEFINE names == task[p].bag  l == page[p].of
<1>1. task[p].do = "list_repos" /\ task[p].left = {} /\ Respond(p, names)  BY DEF catalog_page
<1>2. task[p].do \in Step /\ First(task[p].do) = "catalog" /\ "catalog" \in Listings
      BY <1>1, ListingCalls
<1>3. l.do = "catalog"
  <2>1. l = [do |-> "catalog", repo |-> task[p].repo, ref |-> task[p].ref]
        BY <1>2, ListingOf DEF ClientOK
  <2> QED BY <2>1
<1>4. /\ watch'[p].must \subseteq watch[p].must /\ watch[p].may \subseteq watch'[p].may
      /\ Still(p)' => Still(p)
      BY DEF Kept, Still
<1>5. /\ names \subseteq Repo /\ watch'[p].must \subseteq names
      /\ Still(p)' => names \subseteq watch'[p].may
      BY <1>1, <1>4 DEF ClientOK, BagOK
<1>6. names \in SUBSET Kind(l)  BY <1>3, <1>5 DEF Kind
<1> QED BY <1>1, <1>2, <1>5, <1>6, RespondKeeps

LEMMA ReferrersKeep ==
    ASSUME TasksOK, TypeInv, NEW p \in Task, ClientOK(p), Kept(p), referrers(p)
    PROVE  ClientOK(p)'
<1> DEFINE repo == task[p].repo  l == page[p].of
<1>1. /\ task[p].do = "referrers" /\ UNCHANGED <<rules, store, page>>
      BY DEF referrers
<1>2. /\ task'[p].do = "referrers_read" /\ task'[p].req = task[p].req
      /\ task'[p].repo = repo /\ task'[p].root = At(p) /\ task'[p].bag = task[p].bag
      /\ task'[p].left = list_manifest_digests(At(p), repo)
      BY DEF referrers, TasksOK, Shaped, At
<1>3. task[p].do \in Step /\ First(task[p].do) = "referrers" /\ "referrers" \in Listings
      BY <1>1, ListingCalls
<1>4. l.do = "referrers" /\ l.repo = repo /\ l.ref = task[p].ref /\ l # None
  <2>1. /\ l = [do |-> "referrers", repo |-> repo, ref |-> task[p].ref]
        /\ l # None
        BY <1>3, ListingOf DEF ClientOK
  <2> QED BY <2>1
<1>5. /\ Still(p)' => Still(p) /\ At(p) = resolve(repo)
      /\ task[p].bag = {}
      BY <1>1 DEF ClientOK, BagOK, Kept, Still, At
<1>6. watch'[p].must \subseteq Names(l)  BY <1>1, KeptNames
<1>7. Names(l) \subseteq list_manifest_digests(resolve(repo), repo)
      BY <1>4 DEF Names, Refers, list_manifest_digests
<1>8. list_manifest_digests(At(p), repo) \subseteq Manifest  BY DEF list_manifest_digests
<1>9. resolve(task[p].repo)' = resolve(repo)  BY <1>1, <1>2 DEF resolve
<1>10. BagOK(p)'  BY <1>2, <1>5, <1>6, <1>7, <1>8, <1>9 DEF BagOK
<1> QED BY <1>1, <1>2, <1>3, <1>10, IdleNoStep, GoesOn

LEMMA ReferrersReadKeeps ==
    ASSUME TasksOK, TypeInv, NEW p \in Task, ClientOK(p), Kept(p), referrers_read(p)
    PROVE  ClientOK(p)'
<1> DEFINE repo == task[p].repo  l == page[p].of
<1>1. /\ task[p].do = "referrers_read" /\ UNCHANGED <<rules, store>>  BY DEF referrers_read
<1>2. task[p].do \in Step /\ First(task[p].do) = "referrers" /\ "referrers" \in Listings
      BY <1>1, ListingCalls
<1>3. l.do = "referrers" /\ l.repo = repo /\ l.ref = task[p].ref /\ l # None
  <2>1. /\ l = [do |-> "referrers", repo |-> repo, ref |-> task[p].ref]
        /\ l # None
        BY <1>2, ListingOf DEF ClientOK
  <2> QED BY <2>1
<1>4. /\ Still(p)' => Still(p)
      /\ watch'[p].must \subseteq watch[p].must /\ watch[p].may \subseteq watch'[p].may
      BY DEF Kept, Still
<1>5. /\ task[p].left \subseteq Manifest /\ task[p].bag \subseteq Manifest
      /\ Still(p)' => /\ At(p) = resolve(repo) /\ task[p].bag \subseteq watch'[p].may
                      /\ watch'[p].must \subseteq task[p].bag \cup task[p].left
      BY <1>1, <1>4 DEF ClientOK, BagOK, At
<1>6. CASE task[p].left = {} /\ Respond(p, task[p].bag)
  <2>1. task[p].bag \in SUBSET Kind(l)  BY <1>3, <1>5 DEF Kind
  <2>2. Still(p)' => watch'[p].must \subseteq task[p].bag  BY <1>5, <1>6
  <2> QED BY <1>2, <1>3, <1>5, <1>6, <2>1, <2>2, RespondKeeps
<1>7. CASE ~(task[p].left = {} /\ Respond(p, task[p].bag))
  <2> DEFINE Found(d) == {e \in {d} : Refers(At(p), repo, e, task[p].ref)}
  <2>1. PICK d \in task[p].left : task' = [task EXCEPT
            ![p].left = task[p].left \ {d}, ![p].bag = task[p].bag \cup Found(d),
            ![p].root = resolve(repo)]
        BY <1>7 DEF referrers_read
  <2>2. UNCHANGED page  BY <1>7 DEF referrers_read
  <2> DEFINE found == Found(d)
  <2> HIDE DEF Found, found
  <2>3. /\ task'[p].do = task[p].do /\ task'[p].req = task[p].req /\ task'[p].repo = repo
        /\ task'[p].left = task[p].left \ {d} /\ task'[p].bag = task[p].bag \cup found
        /\ task'[p].root = resolve(repo)
        BY <2>1 DEF TasksOK, Shaped, found
  <2>4. \A e : e \in found <=> e = d /\ Refers(At(p), repo, e, task[p].ref)  BY DEF found, Found
  <2>5. Names(l) = {e \in Manifest : Refers(resolve(repo), repo, e, task[p].ref)}
        BY <1>3 DEF Names
  <2>6. watch'[p].must \subseteq Names(l) /\ Names(l) \subseteq watch'[p].may  BY <1>1, KeptNames
  <2>7. Still(p)' => found \subseteq watch'[p].may  BY <1>5, <2>4, <2>5, <2>6
  <2>8. Still(p)' => watch'[p].must \subseteq task'[p].bag \cup task'[p].left
        BY <1>5, <2>3, <2>4, <2>5, <2>6
  <2>9. resolve(task[p].repo)' = resolve(repo)  BY <1>1, <2>3 DEF resolve
  <2>10. found \subseteq Manifest  BY <1>5, <2>1, <2>4
  <2>11. BagOK(p)'  BY <1>1, <1>5, <2>3, <2>7, <2>8, <2>9, <2>10 DEF BagOK
  <2> QED BY <1>2, <2>2, <2>3, <2>11, IdleNoStep, GoesOn
<1> QED BY <1>6, <1>7

(* Whatever a handler does, what is shown to every client holds.           *)
LEMMA HandleKeeps ==
    ASSUME TasksOK, RulesOK, TypeInv, ListInv, NEW p \in Task, Handle(p), Watching, NEW r \in Task
    PROVE  ClientOK(r)'
<1>1. /\ page'[r].of = page[r].of /\ (r # p => page'[r] = page[r] /\ task'[r] = task[r])
      BY PagesOf
<1>2. Kept(r) /\ ClientOK(r)  BY <1>1, WatchingKeeps DEF ListInv
<1>3. CASE r # p \/ Gate(p)
  <2>1. task'[r] = task[r] /\ page'[r] = page[r]  BY <1>1, <1>3 DEF Gate
  <2>2. \A v \in Root : walk_repos(v) \subseteq walk_repos(v)'  BY KnownGrows, WalkGrows
  <2> QED BY <1>2, <2>1, <2>2, OthersKept
<1> SUFFICES ASSUME r = p, ~Gate(p) PROVE ClientOK(p)'  BY <1>3
<1>4. CASE dispatch(p)
  <2>1. UNCHANGED page  BY <1>4 DEF dispatch
  <2> QED BY <1>2, <1>4, <2>1, PlainKeeps
<1>5. CASE Abort(p) \/ ReadOnly(p) \/ manifest_put(p) \/ manifest_delete(p) \/ blob_delete(p)
           \/ mount_write(p) \/ upload_post(p) \/ upload_chunk(p) \/ upload_finalize(p)
           \/ upload_cancel(p) \/ repo_root_upsert(p)
  <2>1. Answered(p) /\ UNCHANGED page
        BY <1>5 DEF Abort, ReadOnly, manifest_put, manifest_delete, blob_delete, mount_write,
             upload_post, upload_chunk, upload_finalize, upload_cancel, repo_root_upsert, Writes
  <2>2. task[p].do \in Step
        BY <1>5, Steps DEF Abort, ReadOnly, manifest_put, manifest_delete, blob_delete, mount_write,
             upload_post, upload_chunk, upload_finalize, upload_cancel, repo_root_upsert, Inner, Reads
  <2> QED BY <1>2, <2>1, <2>2, PlainKeeps
<1>6. CASE mount_exists(p) \/ mount_read(p) \/ upload_finish(p)
  <2>1. /\ task[p].do \in {"upload_start", "mount_read", "upload_finish"} /\ UNCHANGED page
        /\ \/ Answered(p)
           \/ \E repo : \E do \in {"mount_read", "mount_write", "upload_post", "upload_finalize"} :
                  Goes(p, do, repo)
        BY <1>6 DEF mount_exists, mount_read, upload_finish
  <2>2. /\ {"upload_start", "mount_read", "upload_finish"} \subseteq Step
        /\ {"mount_read", "mount_write", "upload_post", "upload_finalize"} \subseteq Step \ ListingCall
        BY Steps DEF Inner, ListingCall
  <2>3. /\ task[p].do \in Step
        /\ Answered(p) \/ \E repo : \E do \in Step \ ListingCall : Goes(p, do, repo)
        BY <2>1, <2>2
  <2> QED BY <1>2, <2>1, <2>3, PlainKeeps
<1>7. CASE catalog(p)
  <2>1. task[p].do = "catalog" /\ ListsRepos(p, "list_repos") /\ UNCHANGED <<rules, store>>
        BY <1>7 DEF catalog
  <2>2. task[p].do \in Step /\ First(task[p].do) = First("list_repos")  BY <2>1, ListingCalls
  <2> QED BY <1>2, <2>1, <2>2, ListsKeeps
<1>8. CASE list_repos(p)  BY <1>2, <1>8, ListReposKeeps
<1>9. CASE catalog_page(p)  BY <1>2, <1>9, CatalogPageKeeps
<1>10. CASE tags_list(p)  BY <1>2, <1>10, TagsKeep
<1>11. CASE has_repo(p)  BY <1>2, <1>11, HasRepoKeeps
<1>12. CASE referrers(p)  BY <1>2, <1>12, ReferrersKeep
<1>13. CASE referrers_read(p)  BY <1>2, <1>13, ReferrersReadKeeps
<1> QED BY <1>4, <1>5, <1>6, <1>7, <1>8, <1>9, <1>10, <1>11, <1>12, <1>13 DEF Handle

(* A client that follows a link asks for the same listing after the last   *)
(* name it was shown.                                                      *)
LEMMA FollowKeeps ==
    ASSUME TasksOK, RulesOK, TypeInv, ListInv, NEW p \in Task, FollowLink(p), NEW r \in Task
    PROVE  ClientOK(r)'
<1> DEFINE old == task[p].req  req == [old EXCEPT !.q = [n |-> old.q.n, last |-> page[p].link]]
<1>1. /\ task' = [task EXCEPT ![p] = [Free EXCEPT !.do = "auth", !.req = req]]
      /\ page' = [page EXCEPT ![p].link = None] /\ Watching /\ UNCHANGED <<rules, store>>
      /\ task[p].do = "idle" /\ page[p].link # None
      BY DEF FollowLink, Begin
<1>2. /\ r # p => task'[r] = task[r] /\ page'[r] = page[r]
      /\ page'[r].of = page[r].of
      BY <1>1 DEF TasksOK
<1>3. Kept(r) /\ ClientOK(r)  BY <1>1, <1>2, WatchingKeeps DEF ListInv
<1>4. CASE r # p
  <2>1. \A v \in Root : walk_repos(v) \subseteq walk_repos(v)'  BY <1>1 DEF store, walk_repos
  <2> QED BY <1>2, <1>3, <1>4, <2>1, OthersKept
<1> SUFFICES ASSUME r = p PROVE ClientOK(p)'  BY <1>4
<1>5. /\ task'[p].do = "auth" /\ task'[p].req = req
      /\ page'[p].link = None /\ page'[p].of = page[p].of /\ page'[p].seen = page[p].seen
      /\ page'[p].over = page[p].over /\ page'[p].found = page[p].found
      /\ page'[p].bent = page[p].bent
      BY <1>1 DEF TasksOK, Free
<1>6. WellFormed(old)  BY <1>1 DEF TasksOK
<1>7. Handlers(req) = Handlers(old) /\ req.q = [n |-> old.q.n, last |-> page[p].link]
      BY <1>6, OtherQuery
<1>8. Query(req, "last") = page[p].link /\ Query(req, "n") = Query(old, "n")
  <2>1. Query(old, "n") # None  BY <1>1, <1>3 DEF ClientOK, PageOK
  <2>2. Query(old, "n") = old.q.n  BY <2>1 DEF Query
  <2> HIDE DEF req
  <2> QED BY <1>7, <2>2 DEF Query
<1> HIDE DEF req, old
<1>9. Asks(req) = Asks(old)  BY <1>7 DEF Asks
<1>10. Paging(p) /\ Paging(p)' /\ Cut(p) = page[p].link /\ Cut(p)' = page[p].link
      BY <1>1, <1>3, <1>5, <1>8 DEF ClientOK, PageOK, Paging, Cut
<1>11. PageOK(p)'
  <2>1. /\ page[p].of # None /\ page[p].seen \in Seq(Repo \cup Tag \cup Manifest)
        /\ None \notin Asks(old)
        /\ page[p].of \in IF Asks(old) = {} THEN {None} ELSE Asks(old)
        /\ ~page[p].over /\ page[p].found
        /\ Query(old, "n") \in Nat \cup {None} /\ page[p].link \in Nat \cup {None}
        BY <1>1, <1>3, <1>10 DEF ClientOK, PageOK, old
  <2>2. Asks(task[p].req)' = Asks(old)  BY <1>5, <1>9 DEF Asks
  <2> QED BY <1>5, <1>8, <1>9, <1>10, <2>1, <2>2 DEF PageOK
<1>12. Still(p)' => Still(p)  BY <1>3 DEF Kept, Still
<1>13. SeenOK(p)'
  <2>1. SeenOK(p)  BY <1>3 DEF ClientOK
  <2> QED BY <1>3, <1>5, <1>10, <1>12, <2>1 DEF SeenOK, Kept
<1>14. BagOK(p)'  BY <1>5 DEF BagOK
<1>15. EndOK(p)'
  <2>1. ~page[p].over  BY <1>1, <1>3 DEF ClientOK, PageOK
  <2> QED BY <1>5, <2>1 DEF EndOK
<1>16. WatchOK(p)'  BY <1>3 DEF Kept
<1> QED BY <1>11, <1>13, <1>14, <1>15, <1>16 DEF ClientOK

(* A request for a listing begins with what is there.                      *)
LEMMA ReceiveKeeps ==
    ASSUME TasksOK, RulesOK, TypeInv, ListInv, NEW p \in Task, NEW req \in Request[auth],
           Receive(p, req), NEW r \in Task
    PROVE  ClientOK(r)'
<1> DEFINE of == IF Asks(req) = {} THEN None ELSE CHOOSE h \in Asks(req) : TRUE
<1>1. /\ task' = [task EXCEPT ![p] = [Free EXCEPT !.do = "auth", !.req = req]]
      /\ page' = [page EXCEPT ![p] = [NoPage EXCEPT !.of = of]]
      /\ watch' = [watch EXCEPT ![p] = [must |-> Names(of), may |-> Names(of), moved |-> FALSE]]
      /\ UNCHANGED <<rules, store>>
      BY DEF Receive, Begin, Asks
<1> HIDE DEF of
<1>2. CASE r # p
  <2>1. task'[r] = task[r] /\ page'[r] = page[r] /\ watch'[r] = watch[r]
        BY <1>1, <1>2 DEF TasksOK, ListInv
  <2>2. Names(page[r].of) = Names(page'[r].of)  BY <2>1
  <2>3. Names(page[r].of)' = Names(page[r].of) /\ ~Moves(page[r].of)
    <3>1. UNCHANGED <<rules, docs, tags, known>>  BY <1>1 DEF store
    <3> QED BY <2>1, <3>1 DEF Names, Moves, list_tags, Refers, resolve, distinct_backends, walk_repos
  <2>4. ClientOK(r)  BY DEF ListInv
  <2>5. Kept(r)  BY <2>1, <2>3, <2>4 DEF Kept, WatchOK, ClientOK
  <2>6. \A v \in Root : walk_repos(v) \subseteq walk_repos(v)'  BY <1>1 DEF store, walk_repos
  <2> QED BY <2>1, <2>4, <2>5, <2>6, OthersKept
<1>3. CASE r = p
  <2>1. /\ task'[p].do = "auth" /\ task'[p].req = req
        BY <1>1 DEF TasksOK, Free
  <2>2. /\ page'[p].of = of /\ page'[p].seen = <<>> /\ page'[p].link = None
        /\ page'[p].over = FALSE /\ page'[p].found = TRUE
        BY <1>1 DEF TasksOK, NoPage
  <2>3. /\ watch'[p].must = Names(of) /\ watch'[p].may = Names(of) /\ watch'[p].moved = FALSE
        BY <1>1 DEF ListInv
  <2>4. /\ None \notin Asks(req)
        /\ \A h \in Asks(req) : Query(req, "last") = None /\ Query(req, "n") \in Nat \cup {None}
        BY ListingQueries DEF TasksOK, Asks
  <2>5. of \in IF Asks(req) = {} THEN {None} ELSE Asks(req)  BY DEF of
  <2>6. Asks(task[p].req)' = Asks(req)  BY <2>1 DEF Asks
  <2>7. Paging(p)' => /\ Query(req, "n") \in Nat \cup {None} /\ Cut(p)' = None
        BY <2>1, <2>2, <2>4, <2>5 DEF Paging, Cut
  <2>8. <<>> \in Seq(Repo \cup Tag \cup Manifest) /\ <<>> \in Seq(Kind(of))  BY EmptySeq
  <2>9. PageOK(p)'  BY <2>1, <2>2, <2>4, <2>5, <2>6, <2>7, <2>8 DEF PageOK
  <2>10. SeenOK(p)'
    <3>1. Increasing(<<>>) /\ ToSet(<<>>) = {}
      <4>1. DOMAIN <<>> = {}  OBVIOUS
      <4> QED BY <4>1 DEF Increasing, ToSet
    <3> QED BY <2>2, <2>7, <2>8, <3>1 DEF SeenOK
  <2>11. BagOK(p)'  BY <2>1 DEF BagOK
  <2>12. WatchOK(p)'
    <3>1. Names(page[p].of)' = Names(of)
      <4>1. UNCHANGED <<rules, docs, tags, known>>  BY <1>1 DEF store
      <4> QED BY <2>2, <4>1 DEF Names, list_tags, Refers, resolve, distinct_backends, walk_repos
    <3> QED BY <2>3, <3>1 DEF WatchOK
  <2>13. EndOK(p)'  BY <2>2 DEF EndOK
  <2> QED BY <1>3, <2>9, <2>10, <2>11, <2>12, <2>13 DEF ClientOK
<1> QED BY <1>2, <1>3

LEMMA ListInit == Init => ListInv
<1> SUFFICES ASSUME Init PROVE ListInv  OBVIOUS
<1>1. \A p \in Task : task[p] = Free /\ page[p] = NoPage
                      /\ watch[p] = [must |-> {}, may |-> {}, moved |-> FALSE]
      BY DEF Init
<1>2. DOMAIN watch = Task  BY DEF Init
<1>3. ASSUME NEW p \in Task PROVE ClientOK(p)
  <2>1. /\ task[p].do = "idle" /\ page[p].link = None /\ page[p].of = None
        /\ page[p].seen = <<>> /\ ~page[p].over
        BY <1>1 DEF Free, NoPage
  <2>2. PageOK(p)
    <3>1. <<>> \in Seq(Repo \cup Tag \cup Manifest)  BY EmptySeq
    <3> QED BY <2>1, <3>1 DEF PageOK, Paging
  <2>3. SeenOK(p) /\ BagOK(p) /\ EndOK(p)  BY <2>1 DEF SeenOK, Paging, BagOK, EndOK
  <2>4. WatchOK(p)
    <3>1. watch[p].must = {} /\ watch[p].may = {}  BY <1>1
    <3> QED BY <2>1, <3>1 DEF WatchOK, Names
  <2> QED BY <2>2, <2>3, <2>4 DEF ClientOK
<1> QED BY <1>2, <1>3 DEF ListInv

LEMMA ListNext == ServerInv /\ StoreInv /\ TypeInv /\ ListInv /\ [Next]_vars => ListInv'
<1> SUFFICES ASSUME ServerInv, StoreInv, TypeInv, ListInv, [Next]_vars PROVE ListInv'  OBVIOUS
<1>0. TasksOK /\ RulesOK  BY DEF ServerInv, StoreInv
<1>1. CASE \E p \in Task : \E req \in Request[auth] : Receive(p, req)
  <2>1. DOMAIN watch' = Task  BY <1>1 DEF Receive, ListInv
  <2> QED BY <1>0, <1>1, <2>1, ReceiveKeeps DEF ListInv
<1>2. CASE \E p \in Task : FollowLink(p)
  <2>1. DOMAIN watch' = Task  BY <1>2 DEF FollowLink, Watching
  <2> QED BY <1>0, <1>2, <2>1, FollowKeeps DEF ListInv
<1>3. CASE \E p \in Task : Handle(p) /\ Watching
  <2>1. DOMAIN watch' = Task  BY <1>3 DEF Watching
  <2> QED BY <1>0, <1>3, <2>1, HandleKeeps DEF ListInv
<1>4. CASE Ticks /\ Watching
  <2>1. UNCHANGED <<task, page, rules, store>>  BY <1>4 DEF Ticks
  <2>2. ASSUME NEW r \in Task PROVE ClientOK(r)'
    <3>1. Kept(r) /\ ClientOK(r)  BY <1>4, <2>1, WatchingKeeps DEF ListInv
    <3>2. \A v \in Root : walk_repos(v) \subseteq walk_repos(v)'  BY <2>1 DEF store, walk_repos
    <3> QED BY <1>0, <2>1, <3>1, <3>2, OthersKept
  <2>3. DOMAIN watch' = Task  BY <1>4 DEF Watching
  <2> QED BY <2>2, <2>3 DEF ListInv
<1>5. CASE UNCHANGED vars
  <2>1. UNCHANGED <<task, page, rules, blobs, docs, tags, known, watch>>
        BY <1>5 DEF vars, store
  <2>2. ASSUME NEW r \in Task PROVE ClientOK(r)'
    <3>1. Names(page[r].of)' = Names(page[r].of) /\ ~Moves(page[r].of)
          BY <2>1 DEF Names, Moves, list_tags, Refers, resolve, distinct_backends, walk_repos
    <3>2. ClientOK(r)  BY DEF ListInv
    <3>3. Kept(r)  BY <2>1, <3>1, <3>2 DEF Kept, WatchOK, ClientOK
    <3>4. \A v \in Root : walk_repos(v) \subseteq walk_repos(v)'  BY <2>1 DEF walk_repos
    <3> QED BY <1>0, <2>1, <3>2, <3>3, <3>4, OthersKept
  <2> QED BY <2>1, <2>2 DEF ListInv
<1> QED BY <1>1, <1>2, <1>3, <1>4, <1>5 DEF Next

LEMMA ListInductive == Spec => []ListInv
BY ListInit, ListNext, ServerInductive, StoreInductive, TypeInductive, PTL DEF Spec

(* A listing whose pages a client has followed to the end shows no name    *)
(* that never was there, and, as long as no link came back as another      *)
(* name, in order and once, every name that was there from its first       *)
(* request to its last, unless the repository moves or, for the catalog, a *)
(* root drops out of the rules; a repository there all the time is not     *)
(* unknown: what a call has found and where it has yet to look, or a page  *)
(* and its last name, leave out nothing that stays (catalog, tags_list,    *)
(* referrers). A repository is there as walk_repos lists it.               *)
THEOREM ListingsExact == Spec => []ListingExact
<1>1. ListInv => ListingExact
  <2> SUFFICES ASSUME ListInv, NEW p \in Task, page[p].over
               PROVE  LET seen == page[p].seen IN
                      /\ ~page[p].bent =>
                          /\ \A i, j \in DOMAIN seen : i < j => Rank[seen[i]] < Rank[seen[j]]
                          /\ page[p].of.do = "catalog" \/ ~watch[p].moved =>
                                watch[p].must \ {page[p].of.repo} \subseteq ToSet(seen)
                      /\ ~watch[p].moved => ToSet(seen) \subseteq watch[p].may
                      /\ ~page[p].found => page[p].of.repo \notin watch[p].must
      BY DEF ListingExact
  <2>1. EndOK(p)  BY DEF ListInv, ClientOK
  <2> QED BY <2>1 DEF EndOK, Increasing, Still
<1> QED BY <1>1, ListInductive, PTL

(* Every variable has its type: a request at the gate is of a task with no *)
(* repository yet, one with a handler is through the gate and works on a   *)
(* root, and what a listing must show it may show.                         *)
THEOREM TypeCorrect == Spec => []TypeOK
<1>1. ServerInv /\ StoreInv /\ TypeInv /\ ListInv => TypeOK
  <2> SUFFICES ASSUME ServerInv, StoreInv, TypeInv, ListInv PROVE TypeOK  OBVIOUS
  <2>1. GateType /\ auth \in Modes /\ TasksOK  BY DEF ServerInv, GateInv, TasksOK
  <2>2. rules \in Seq([pattern : Pattern, root : Root])  BY DEF StoreInv, RulesOK
  <2>3. /\ StoreType /\ sent \in 0..MaxRequests[auth]  BY DEF TypeInv
  <2>4. ASSUME NEW p \in Task
        PROVE  /\ task[p].do \in Step \cup {"idle", "auth"}
               /\ task[p].do = "idle" <=> gate[p].at = "idle"
               /\ task[p].do \in Step => gate[p].at = "open"
               /\ task[p].repo \in Repo \cup {<<>>}
               /\ page[p].seen \in Seq(Repo \cup Tag \cup Manifest)
               /\ task[p].root \in Root \cup {None}
               /\ task[p].do \in Step => task[p].root # None
               /\ watch[p].must \subseteq watch[p].may
    <3>1. PageOK(p) /\ WatchOK(p)  BY DEF ListInv, ClientOK
    <3>2. /\ task[p].do \notin Step => task[p].repo = <<>> /\ task[p].root = None
          /\ task[p].do = "idle" <=> gate[p].at = "idle"
          /\ Serves(task[p])
          BY DEF TypeInv
    <3>3. task[p].do \in Step => task[p].root \in Root /\ task[p].root # None
          BY ServerConstants DEF StoreInv
    <3>4. task[p].do \in Step => task[p].repo \in Repo \cup {<<>>}
          BY <2>1, <3>2, ServesType, IdleNoStep DEF TasksOK
    <3> QED BY <2>1, <3>1, <3>2, <3>3, <3>4 DEF TasksOK, PageOK, WatchOK
  <2> QED BY <2>1, <2>2, <2>3, <2>4 DEF TypeOK, StoreType
<1> QED BY <1>1, ServerInductive, StoreInductive, TypeInductive, ListInductive, PTL

=============================================================================
