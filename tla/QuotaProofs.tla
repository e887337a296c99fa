---------------------------- MODULE QuotaProofs ----------------------------
(* Sequential writers never exceed their limits, and overlapping ones are  *)
(* bounded, for every number of handlers, classes, blobs, volumes and      *)
(* addresses.                                                              *)
EXTENDS Quota, FiniteSetTheorems, TLAPS

(* The blob a handler is about to write again, and its bytes if a delete   *)
(* has come before it.                                                     *)
Returning(p) == IF req[p].blob \in blobs[rule.vol] THEN 0 ELSE Size[req[p].blob]

Sequential == disturbed \subseteq {"missed"}

(* While writes are sequential, one handler at most is in a write, on   *)
(* the backend the rule has; ...                                           *)
Alone ==
    /\ \A p, q \in Proc : pc[p] # "idle" /\ pc[q] # "idle" => p = q
    /\ \A p \in Proc : pc[p] # "idle" => req[p].be = rule

(* ... a fresh entry is never below the usage, but for a write that is not *)
(* counted yet or that is about to bring back what a delete took; ...      *)
CacheCovers ==
    cache[rule.at] # None /\ cache[rule.at].fresh =>
        /\ \A p \in Proc : pc[p] = "bump" =>
              used[rule.vol] <= cache[rule.at].value + Size[req[p].blob]
        /\ \A p \in Proc : pc[p] = "write" /\ ~req[p].new =>
              used[rule.vol] + Returning(p) <= cache[rule.at].value
        /\ (\A p \in Proc : pc[p] # "bump") => used[rule.vol] <= cache[rule.at].value

(* ... neither is a scan; and a write that was checked fits.               *)
ScanCovers ==
    \A p \in Proc :
        /\ pc[p] = "insert" => used[rule.vol] <= req[p].scan.bytes
        /\ pc[p] = "write" /\ req[p].new /\ Limit[req[p].repo] # None =>
              used[rule.vol] + Size[req[p].blob] <= Limit[req[p].repo]

Checked ==
    \A p \in Proc :
        /\ pc[p] \in {"status", "enforce", "scan", "insert", "bump"} => req[p].new
        /\ pc[p] \in {"scan", "insert"} => Limit[req[p].repo] # None

Undisturbed == Sequential => Alone /\ CacheCovers /\ ScanCovers /\ ~breach

Core == TypeOK /\ Checked /\ Undisturbed

(* A write is checked and counted with the bytes of its blob, unless an    *)
(* upload was read short.                                                  *)
Sized ==
    "short" \notin disturbed =>
        \A p \in Proc : pc[p] \notin {"idle", "status"} /\ req[p].new =>
            req[p].size = Size[req[p].blob]

IInv == Core /\ Sized

-----------------------------------------------------------------------------
(* What the types say of a request in flight.                              *)
LEMMA RequestFields ==
    ASSUME TypeOK, NEW p \in Proc, pc[p] # "idle"
    PROVE  /\ req[p] \in Request /\ req[p].repo \in Repo /\ req[p].blob \in Blob
           /\ req[p].be \in Backend /\ req[p].be.vol \in Volume /\ req[p].be.at \in Addr
           /\ req[p].scan \in Listing /\ req[p].scan.bytes \in Int
           /\ req[p].scan.listed \in SUBSET Blob /\ req[p].new \in BOOLEAN
           /\ req[p].size \in Nat /\ Size[req[p].blob] \in Nat
<1>1. req[p] \in Request  BY DEF TypeOK
<1> QED BY <1>1, ConstantsOK DEF Request, Backend, Listing

(* Requests as the steps make them and change them.                        *)
LEMMA RequestMade ==
    ASSUME NEW r \in Repo, NEW b \in Blob, NEW new \in BOOLEAN, NEW n \in Nat, NEW be \in Backend
    PROVE  [repo |-> r, blob |-> b, new |-> new, size |-> n, be |-> be, scan |-> NoListing] \in Request
BY DEF Request, NoListing, Listing

LEMMA RequestScan ==
    ASSUME NEW x \in Request, NEW s \in Listing
    PROVE  LET y == [x EXCEPT !.scan = s] IN
           /\ y \in Request /\ y.scan = s
           /\ y.repo = x.repo /\ y.blob = x.blob /\ y.new = x.new /\ y.size = x.size
           /\ y.be = x.be
BY DEF Request

LEMMA RequestSize ==
    ASSUME NEW x \in Request, NEW n \in Nat
    PROVE  LET y == [x EXCEPT !.size = n] IN
           /\ y \in Request /\ y.scan = x.scan /\ y.size = n
           /\ y.repo = x.repo /\ y.blob = x.blob /\ y.new = x.new /\ y.be = x.be
BY DEF Request

LEMMA RequestBackend ==
    ASSUME NEW x \in Request, NEW e \in Backend
    PROVE  LET y == [x EXCEPT !.be = e] IN
           /\ y \in Request /\ y.scan = x.scan
           /\ y.repo = x.repo /\ y.blob = x.blob /\ y.new = x.new /\ y.size = x.size
           /\ y.be = e
BY DEF Request

(* The initial state satisfies the invariant.                              *)
LEMMA IInvInit == Init => IInv
<1> SUFFICES ASSUME Init PROVE IInv  OBVIOUS
<1>a. rule \in Backend /\ cache \in [Addr -> Entry \cup {None}] /\ upsets \in 0..MaxUpsets
      BY ConstantsOK DEF Init, Backend
<1>b. /\ pc \in [Proc -> Suspended \cup {"idle"}] /\ req \in [Proc -> Request \cup {None}]
      /\ \A p \in Proc : req[p] = None <=> pc[p] = "idle"
      BY DEF Init
<1>c. blobs \in [Volume -> SUBSET Blob] /\ used \in [Volume -> Int]  BY DEF Init
<1>d. disturbed \subseteq Causes /\ breach \in BOOLEAN
      BY Zenon DEF Init
<1>1. TypeOK  BY <1>a, <1>b, <1>c, <1>d, Zenon DEF TypeOK
<1>2. \A p \in Proc : pc[p] = "idle"  BY DEF Init
<1>3. Checked  BY <1>2 DEF Checked
<1>4. Alone /\ ScanCovers  BY <1>2 DEF Alone, ScanCovers
<1>5. CacheCovers  BY ConstantsOK DEF CacheCovers, Init
<1>6. Sized  BY <1>2 DEF Sized
<1> QED BY <1>1, <1>3, <1>4, <1>5, <1>6 DEF Init, IInv, Core, Undisturbed

(* A write begins: it is the only one, or the writes overlap.              *)
LEMMA BeginStep ==
    ASSUME IInv, NEW p \in Proc, NEW r \in Repo, NEW b \in Blob, NEW n \in Nat,
           NEW check \in {"status", "enforce"}, Begin(p, r, b, n, check)
    PROVE  Core'
<1> USE ConstantsOK DEF IInv, Core
<1> DEFINE new == b \notin blobs[rule.vol]
           x == [repo |-> r, blob |-> b, new |-> new, size |-> IF new THEN n ELSE 0,
                 be |-> rule, scan |-> NoListing]
<1>n. new \in BOOLEAN /\ (IF new THEN n ELSE 0) \in Nat
  <2>1. new \in BOOLEAN  BY Zenon
  <2> QED BY <2>1
<1>r. x \in Request  BY <1>n, RequestMade DEF TypeOK
<1>0. x \in Request /\ x # None  BY <1>r
<1>1. /\ req' = [req EXCEPT ![p] = x]
      /\ pc' = [pc EXCEPT ![p] = IF x.new THEN check ELSE "write"]
      /\ pc[p] = "idle"
      /\ UNCHANGED <<blobs, used, rule, cache, upsets, breach>>
      BY DEF Begin, store
<1>2. TypeOK'
  <2>1. pc' \in [Proc -> Suspended \cup {"idle"}]  BY <1>1 DEF TypeOK, Suspended
  <2>2. req' \in [Proc -> Request \cup {None}]  BY <1>1, <1>0 DEF TypeOK
  <2>3. \A q \in Proc : req'[q] = None <=> pc'[q] = "idle"  BY <1>1, <1>0 DEF TypeOK
  <2>4. disturbed' \subseteq Causes  BY DEF Begin, TypeOK, Causes
  <2> QED BY <1>1, <2>1, <2>2, <2>3, <2>4 DEF TypeOK
<1>3. Checked'  BY <1>1 DEF Checked, TypeOK
<1>4. Undisturbed'
  <2> SUFFICES ASSUME Sequential' PROVE (Alone /\ CacheCovers /\ ScanCovers /\ ~breach)'
        BY DEF Undisturbed
  <2>1. Sequential /\ \A q \in Proc : pc[q] = "idle"  BY DEF Begin, InFlight, Sequential
  <2>2. \A q \in Proc : q # p => pc'[q] = "idle"  BY <1>1, <2>1 DEF TypeOK
  <2>3. req'[p] = x /\ pc'[p] = IF x.new THEN check ELSE "write"  BY <1>1 DEF TypeOK
  <2>4. Alone'  BY <1>1, <2>2, <2>3 DEF Alone
  <2>5. CacheCovers'
        BY <1>1, <2>1, <2>2, <2>3 DEF Undisturbed, CacheCovers, Returning, TypeOK, Entry, Backend
  <2>6. ScanCovers'  BY <1>1, <2>2, <2>3 DEF ScanCovers
  <2> QED BY <1>1, <2>1, <2>4, <2>5, <2>6 DEF Undisturbed
<1> QED BY <1>2, <1>3, <1>4

(* A handler that goes on, or ends, keeps the types.                       *)
HandlersOK ==
    /\ pc \in [Proc -> Suspended \cup {"idle"}]
    /\ req \in [Proc -> Request \cup {None}]
    /\ \A p \in Proc : req[p] = None <=> pc[p] = "idle"

LEMMA MoveTypes ==
    ASSUME TypeOK, NEW p \in Proc, NEW to \in Suspended, NEW x \in Request,
           pc' = [pc EXCEPT ![p] = to], req' = [req EXCEPT ![p] = x]
    PROVE  HandlersOK'
BY ConstantsOK DEF TypeOK, HandlersOK, Suspended

LEMMA FinishTypes == ASSUME TypeOK, NEW p \in Proc, Finish(p) PROVE HandlersOK'
BY ConstantsOK DEF TypeOK, HandlersOK, Finish

(* Undisturbed, a handler in a write is the only one, and writes to the    *)
(* backend of the rule.                                                    *)
LEMMA OnlyOne ==
    ASSUME IInv, Sequential, NEW p \in Proc, pc[p] # "idle"
    PROVE  /\ \A q \in Proc : q # p => pc[q] = "idle"
           /\ req[p].be = rule
BY DEF IInv, Core, Undisturbed, Alone

(* A handler that ends leaves the invariant, if what it wrote is counted.  *)
LEMMA FinishStep ==
    ASSUME IInv, NEW p \in Proc, pc[p] # "idle", Finish(p),
           UNCHANGED <<blobs, used, rule, cache, upsets, breach>>,
           disturbed' \subseteq Causes,
           Sequential' => Sequential /\ pc[p] # "bump"
    PROVE  Core'
<1> USE DEF IInv, Core
<1>1. TypeOK'  BY FinishTypes DEF HandlersOK, TypeOK
<1>2. \A q \in Proc : q # p => pc'[q] = pc[q] /\ req'[q] = req[q]  BY DEF Finish, TypeOK
<1>3. pc'[p] = "idle"  BY DEF Finish, TypeOK
<1>4. Checked'  BY <1>2, <1>3 DEF Checked
<1>5. Undisturbed'
  <2> SUFFICES ASSUME Sequential' PROVE (Alone /\ CacheCovers /\ ScanCovers /\ ~breach)'
        BY DEF Undisturbed
  <2>1. \A q \in Proc : pc'[q] = "idle"  BY <1>2, <1>3, OnlyOne
  <2>2. \A q \in Proc : pc[q] # "bump"  BY OnlyOne
  <2>3. CacheCovers'  BY <2>1, <2>2 DEF Undisturbed, CacheCovers
  <2> QED BY <2>1, <2>3 DEF Undisturbed, Alone, ScanCovers
<1> QED BY <1>1, <1>4, <1>5

(* A check lets a write pass only if it fits what the check has found; if  *)
(* that covers the usage, so does the invariant.                           *)
LEMMA DecideStep ==
    ASSUME IInv, NEW p \in Proc, NEW usage \in Int, Decide(p, usage),
           pc[p] \in {"enforce", "insert"}, Limit[req[p].repo] # None,
           UNCHANGED <<blobs, used, rule, upsets, disturbed, breach>>,
           cache' \in [Addr -> Entry \cup {None}],
           Sequential => used[rule.vol] <= usage,
           Sequential => (cache'[rule.at] # None /\ cache'[rule.at].fresh
                                => used[rule.vol] <= cache'[rule.at].value)
    PROVE  Core'
<1> USE ConstantsOK DEF IInv, Core
<1> DEFINE x == [req[p] EXCEPT !.scan = NoListing]
<1>f. /\ req[p] \in Request /\ req[p].repo \in Repo /\ Size[req[p].blob] \in Nat
      /\ req[p].new /\ req[p].size \in Nat /\ Limit[req[p].repo] \in Nat
      BY RequestFields DEF Checked
<1>x. /\ x \in Request /\ x.new = req[p].new /\ x.repo = req[p].repo
      /\ x.blob = req[p].blob /\ x.be = req[p].be
  <2>1. NoListing \in Listing  BY DEF NoListing, Listing
  <2> QED BY <1>f, <2>1, RequestScan, ZenonT(40)
<1>1. \/ Finish(p)
      \/ /\ pc' = [pc EXCEPT ![p] = "write"] /\ req' = [req EXCEPT ![p] = x]
         /\ usage + req[p].size <= Limit[req[p].repo]
      BY <1>f DEF Decide
<1> HIDE DEF x
<1>2. HandlersOK'  BY <1>1, <1>x, FinishTypes, MoveTypes DEF Suspended
<1>3. TypeOK'  BY <1>2 DEF HandlersOK, TypeOK
<1>4. /\ \A q \in Proc : q # p => pc'[q] = pc[q] /\ req'[q] = req[q]
      /\ \/ pc'[p] = "idle"
         \/ /\ pc'[p] = "write" /\ req'[p] = x
            /\ usage + req[p].size <= Limit[req[p].repo]
      BY <1>1 DEF Finish, TypeOK
<1>5. Checked'  BY <1>4 DEF Checked
<1>6. Undisturbed'
  <2> SUFFICES ASSUME Sequential PROVE (Alone /\ CacheCovers /\ ScanCovers /\ ~breach)'
        BY DEF Undisturbed, Sequential
  <2>1. \A q \in Proc : q # p => pc'[q] = "idle"  BY <1>4, OnlyOne
  <2>2. Alone'  BY <1>4, <1>x, <2>1, OnlyOne DEF Alone
  <2>3. CacheCovers'  BY <1>4, <1>x, <1>f, <2>1 DEF CacheCovers
  <2>u. used[rule.vol] \in Int  BY DEF TypeOK, Backend
  <2>s. req[p].size = Size[req[p].blob]  BY <1>f DEF Sequential, Sized
  <2>4. ScanCovers'  BY <1>4, <1>x, <1>f, <2>1, <2>u, <2>s DEF ScanCovers
  <2> QED BY <2>2, <2>3, <2>4 DEF Undisturbed
<1> QED BY <1>3, <1>5, <1>6

(* The size of an upload is read: short of its blob, or undisturbed.       *)
LEMMA StatusStep == ASSUME IInv, NEW p \in Proc, upload_status(p) PROVE Core'
<1> USE ConstantsOK DEF IInv, Core
<1>0. pc[p] = "status" /\ UNCHANGED <<blobs, used, rule, cache, breach>>
      BY DEF upload_status, store
<1>f. req[p] \in Request /\ req[p].new /\ Size[req[p].blob] \in Nat
      BY <1>0, RequestFields DEF Checked
<1>1. PICK n \in 0..Size[req[p].blob] :
        /\ req' = [req EXCEPT ![p].size = n]
        /\ \/ UNCHANGED <<upsets, disturbed>>
           \/ upsets < MaxUpsets /\ upsets' = upsets + 1 /\ disturbed' = disturbed \cup {"short"}
      BY DEF upload_status
<1>c. upsets' \in 0..MaxUpsets /\ disturbed' \subseteq Causes /\ disturbed \subseteq disturbed'
      BY <1>1 DEF TypeOK, Causes
<1> DEFINE x == [req[p] EXCEPT !.size = n]
<1>x. /\ x \in Request /\ x.repo = req[p].repo /\ x.blob = req[p].blob
      /\ x.new = req[p].new /\ x.be = req[p].be
  <2>1. n \in Nat  BY <1>f
  <2> QED BY <1>f, <2>1, RequestSize, ZenonT(40)
<1>2. pc' = [pc EXCEPT ![p] = "enforce"] /\ req' = [req EXCEPT ![p] = x]
      BY <1>1 DEF upload_status
<1> HIDE DEF x
<1>3. HandlersOK'  BY <1>2, <1>x, MoveTypes DEF Suspended
<1>4. TypeOK'  BY <1>0, <1>c, <1>3 DEF HandlersOK, TypeOK
<1>5. /\ \A q \in Proc : q # p => pc'[q] = pc[q] /\ req'[q] = req[q]
      /\ pc'[p] = "enforce" /\ req'[p] = x
      BY <1>2 DEF TypeOK
<1>6. Checked'  BY <1>f, <1>x, <1>5 DEF Checked
<1>7. Undisturbed'
  <2> SUFFICES ASSUME Sequential PROVE (Alone /\ CacheCovers /\ ScanCovers /\ ~breach)'
        BY <1>c DEF Undisturbed, Sequential
  <2>1. \A q \in Proc : q # p => pc'[q] = "idle"  BY <1>0, <1>5, OnlyOne
  <2>2. Alone'  BY <1>0, <1>5, <1>x, <2>1, OnlyOne DEF Alone
  <2>3. \A q \in Proc : pc[q] # "bump"  BY <1>0, OnlyOne
  <2>4. CacheCovers'  BY <1>0, <1>5, <2>1, <2>3 DEF CacheCovers, Undisturbed
  <2>5. ScanCovers'  BY <1>5, <2>1 DEF ScanCovers
  <2> QED BY <1>0, <2>2, <2>4, <2>5 DEF Undisturbed
<1> QED BY <1>4, <1>6, <1>7

(* A write is checked: against a fresh entry it fits only if it fits the   *)
(* usage, because nothing is written and not counted.                      *)
LEMMA EnforceStep == ASSUME IInv, NEW p \in Proc, enforce(p) PROVE Core'
<1> USE ConstantsOK DEF IInv, Core
<1>0. pc[p] = "enforce" /\ UNCHANGED <<blobs, used, rule, cache, upsets, disturbed, breach>>
      BY DEF enforce, store, history
<1>f. req[p] \in Request /\ req[p].repo \in Repo /\ req[p].new
      BY <1>0, RequestFields DEF Checked
<1>r. rule \in Backend /\ rule.at \in Addr /\ rule.vol \in Volume  BY DEF TypeOK, Backend
<1>1. CASE Limit[req[p].repo] # None /\ cache[rule.at] # None /\ cache[rule.at].fresh
  <2>1. Decide(p, cache[rule.at].value)  BY <1>1 DEF enforce
  <2>2. cache[rule.at].value \in Int  BY <1>1, <1>r DEF TypeOK, Entry
  <2>3. Sequential => used[rule.vol] <= cache[rule.at].value
    <3> SUFFICES ASSUME Sequential PROVE used[rule.vol] <= cache[rule.at].value  OBVIOUS
    <3>1. \A q \in Proc : pc[q] # "bump"  BY <1>0, OnlyOne
    <3> QED BY <1>1, <3>1 DEF Undisturbed, CacheCovers
  <2>4. cache' \in [Addr -> Entry \cup {None}]  BY <1>0 DEF TypeOK
  <2> QED BY <1>0, <1>1, <2>1, <2>2, <2>3, <2>4, DecideStep
<1>2. CASE ~(Limit[req[p].repo] # None /\ cache[rule.at] # None /\ cache[rule.at].fresh)
  <2> DEFINE y == [req[p] EXCEPT !.be = rule]
  <2>1. /\ y \in Request /\ y.repo = req[p].repo /\ y.blob = req[p].blob
        /\ y.new = req[p].new /\ y.be = rule
        BY <1>f, <1>r, RequestBackend, Zenon
  <2>2. PICK to \in {"write", "scan"}, x \in {req[p], y} :
          /\ pc' = [pc EXCEPT ![p] = to] /\ req' = [req EXCEPT ![p] = x]
          /\ to = "write" => Limit[req[p].repo] = None
          /\ to = "scan" => Limit[req[p].repo] # None
    <3>1. CASE Limit[req[p].repo] = None
      <4>1. pc' = [pc EXCEPT ![p] = "write"] /\ req' = [req EXCEPT ![p] = req[p]]
            BY <3>1 DEF enforce, Goto, TypeOK
      <4> QED BY <3>1, <4>1
    <3>2. CASE Limit[req[p].repo] # None
      <4>1. pc' = [pc EXCEPT ![p] = "scan"] /\ req' = [req EXCEPT ![p] = y]
            BY <1>2, <3>2 DEF enforce
      <4> QED BY <3>2, <4>1
    <3> QED BY <3>1, <3>2
  <2> HIDE DEF y
  <2>3. x \in Request /\ x.repo = req[p].repo /\ x.blob = req[p].blob /\ x.new = req[p].new
        BY <2>1, <1>f
  <2>4. HandlersOK'  BY <2>2, <2>3, MoveTypes DEF Suspended
  <2>5. TypeOK'  BY <1>0, <2>4 DEF HandlersOK, TypeOK
  <2>6. /\ \A q \in Proc : q # p => pc'[q] = pc[q] /\ req'[q] = req[q]
        /\ pc'[p] = to /\ req'[p] = x
        BY <2>2 DEF TypeOK
  <2>7. Checked'
    <3>1. \A q \in Proc : q # p => /\ pc'[q] \in {"status", "enforce", "scan", "insert", "bump"} => req'[q].new
                                   /\ pc'[q] \in {"scan", "insert"} => Limit[req'[q].repo] # None
          BY <2>6 DEF Checked
    <3>2. x.new /\ (to \in {"scan", "insert"} => Limit[x.repo] # None)  BY <1>f, <2>2, <2>3
    <3> QED BY <2>6, <3>1, <3>2 DEF Checked
  <2>8. Undisturbed'
    <3> SUFFICES ASSUME Sequential PROVE (Alone /\ CacheCovers /\ ScanCovers /\ ~breach)'
          BY <1>0 DEF Undisturbed, Sequential
    <3>1. \A q \in Proc : q # p => pc'[q] = "idle"  BY <1>0, <2>6, OnlyOne
    <3>2. x.be = rule  BY <1>0, <2>1, OnlyOne
    <3>3. Alone'  BY <1>0, <2>6, <3>1, <3>2 DEF Alone
    <3>4. \A q \in Proc : pc[q] # "bump"  BY <1>0, OnlyOne
    <3>5. CacheCovers'  BY <1>0, <1>f, <2>2, <2>3, <2>6, <3>1, <3>4 DEF CacheCovers, Undisturbed
    <3>6. ScanCovers'  BY <1>0, <2>2, <2>3, <2>6, <3>1 DEF ScanCovers
    <3> QED BY <1>0, <3>3, <3>5, <3>6 DEF Undisturbed
  <2> QED BY <2>5, <2>7, <2>8
<1> QED BY <1>1, <1>2

(* The scan is the usage, and stays it while no other request writes.      *)
LEMMA ScanStep == ASSUME IInv, NEW p \in Proc, Scan(p) PROVE Core'
<1> USE ConstantsOK DEF IInv, Core
<1>0. pc[p] = "scan" /\ UNCHANGED <<blobs, used, rule, cache, upsets, disturbed, breach>>
      BY DEF Scan, store, history
<1>f. /\ req[p] \in Request /\ req[p].new /\ Limit[req[p].repo] # None
      /\ req[p].be.vol \in Volume
      BY <1>0, RequestFields DEF Checked
<1>u. used[req[p].be.vol] \in Int /\ blobs[req[p].be.vol] \in SUBSET Blob  BY <1>f DEF TypeOK
<1> DEFINE s == [listed |-> blobs[req[p].be.vol], bytes |-> used[req[p].be.vol]]
           x == [req[p] EXCEPT !.scan = s]
<1>s. s \in Listing /\ s.bytes = used[req[p].be.vol]  BY <1>u DEF Listing
<1>x. /\ x \in Request /\ x.scan = s /\ x.repo = req[p].repo
      /\ x.blob = req[p].blob /\ x.new = req[p].new /\ x.be = req[p].be
      BY <1>f, <1>s, RequestScan, ZenonT(40)
<1>1. pc' = [pc EXCEPT ![p] = "insert"] /\ req' = [req EXCEPT ![p] = x]  BY DEF Scan
<1> HIDE DEF x, s
<1>2. HandlersOK'  BY <1>1, <1>x, MoveTypes DEF Suspended
<1>3. TypeOK'  BY <1>0, <1>2 DEF HandlersOK, TypeOK
<1>4. /\ \A q \in Proc : q # p => pc'[q] = pc[q] /\ req'[q] = req[q]
      /\ pc'[p] = "insert" /\ req'[p] = x
      BY <1>1 DEF TypeOK
<1>5. Checked'  BY <1>f, <1>x, <1>4 DEF Checked
<1>6. Undisturbed'
  <2> SUFFICES ASSUME Sequential PROVE (Alone /\ CacheCovers /\ ScanCovers /\ ~breach)'
        BY <1>0 DEF Undisturbed, Sequential
  <2>1. \A q \in Proc : q # p => pc'[q] = "idle"  BY <1>0, <1>4, OnlyOne
  <2>2. x.be = rule  BY <1>0, <1>x, OnlyOne
  <2>3. Alone'  BY <1>0, <1>4, <2>1, <2>2 DEF Alone
  <2>4. \A q \in Proc : pc[q] # "bump"  BY <1>0, OnlyOne
  <2>5. CacheCovers'  BY <1>0, <1>4, <2>1, <2>4 DEF CacheCovers, Undisturbed
  <2>6. ScanCovers'  BY <1>0, <1>u, <1>s, <1>x, <1>4, <2>1, <2>2 DEF ScanCovers
  <2> QED BY <1>0, <2>3, <2>5, <2>6 DEF Undisturbed
<1> QED BY <1>3, <1>5, <1>6

(* The entry put into the cache covers the usage as the scan does.         *)
LEMMA InsertStep == ASSUME IInv, NEW p \in Proc, Insert(p) PROVE Core'
<1> USE ConstantsOK DEF IInv, Core
<1>0. pc[p] = "insert" /\ UNCHANGED <<blobs, used, rule, upsets, disturbed, breach>>
      BY DEF Insert, store, history
<1>f. req[p].scan.bytes \in Int /\ req[p].be.at \in Addr /\ Limit[req[p].repo] # None
      BY <1>0, RequestFields DEF Checked
<1> DEFINE e == [value |-> req[p].scan.bytes, fresh |-> TRUE]
<1>e. e \in Entry /\ e.value = req[p].scan.bytes  BY <1>f DEF Entry
<1>1. cache' = [cache EXCEPT ![req[p].be.at] = e] /\ Decide(p, req[p].scan.bytes)  BY DEF Insert
<1> HIDE DEF e
<1>2. cache' \in [Addr -> Entry \cup {None}]  BY <1>1, <1>e DEF TypeOK
<1>3. Sequential => used[rule.vol] <= req[p].scan.bytes  BY <1>0 DEF Undisturbed, ScanCovers
<1>4. Sequential => used[rule.vol] <= cache'[rule.at].value
  <2> SUFFICES ASSUME Sequential PROVE used[rule.vol] <= cache'[rule.at].value  OBVIOUS
  <2>1. req[p].be = rule  BY <1>0, OnlyOne
  <2>2. cache'[rule.at] = e  BY <1>1, <1>f, <2>1 DEF TypeOK
  <2> QED BY <1>3, <1>e, <2>2
<1> QED BY <1>0, <1>f, <1>1, <1>2, <1>3, <1>4, DecideStep

(* A checked write fits; one of a blob that was there brings back at most  *)
(* what a delete has taken since.                                          *)
LEMMA WriteStep == ASSUME IInv, NEW p \in Proc, Write(p) PROVE Core'
<1> USE ConstantsOK DEF IInv, Core
<1> DEFINE v == rule.vol
           more == Returning(p)
           max == Limit[req[p].repo]
<1>0. /\ pc[p] = "write" /\ UNCHANGED <<rule, cache, upsets, disturbed>>
      /\ blobs' = [blobs EXCEPT ![v] = @ \cup {req[p].blob}]
      /\ used' = [used EXCEPT ![v] = @ + more]
      /\ breach' = (breach \/ (req[p].new /\ max # None /\ used[v] + more > max))
      BY DEF Write, Returning
<1>f. /\ req[p] \in Request /\ req[p].blob \in Blob /\ req[p].repo \in Repo
      /\ Size[req[p].blob] \in Nat /\ max \in Nat \cup {None}
      BY <1>0, RequestFields
<1>v. v \in Volume /\ used[v] \in Int  BY DEF TypeOK, Backend
<1>m. more \in Nat /\ more <= Size[req[p].blob]  BY <1>f DEF Returning
<1> HIDE DEF more, max
<1>u. used'[v] = used[v] + more  BY <1>0, <1>v DEF TypeOK
<1>1. \/ req[p].new /\ pc' = [pc EXCEPT ![p] = "bump"] /\ req' = [req EXCEPT ![p] = req[p]]
      \/ ~req[p].new /\ Finish(p)
      BY DEF Write, Goto, TypeOK
<1>2. HandlersOK'  BY <1>f, <1>1, MoveTypes, FinishTypes DEF Suspended
<1>3. TypeOK'
  <2>1. blobs' \in [Volume -> SUBSET Blob]  BY <1>0, <1>f DEF TypeOK
  <2>2. used' \in [Volume -> Int]  BY <1>0, <1>m, <1>v DEF TypeOK
  <2>3. breach' \in BOOLEAN  BY <1>0, Zenon
  <2> QED BY <1>0, <1>2, <2>1, <2>2, <2>3 DEF HandlersOK, TypeOK
<1>4. /\ \A q \in Proc : q # p => pc'[q] = pc[q] /\ req'[q] = req[q]
      /\ \/ req[p].new /\ pc'[p] = "bump" /\ req'[p] = req[p]
         \/ ~req[p].new /\ pc'[p] = "idle"
      BY <1>1 DEF Finish, TypeOK
<1>5. Checked'  BY <1>4 DEF Checked
<1>6. Undisturbed'
  <2> SUFFICES ASSUME Sequential PROVE (Alone /\ CacheCovers /\ ScanCovers /\ ~breach)'
        BY <1>0 DEF Undisturbed, Sequential
  <2>1. \A q \in Proc : q # p => pc[q] = "idle" /\ pc'[q] = "idle"  BY <1>0, <1>4, OnlyOne
  <2>2. req[p].be = rule  BY <1>0, OnlyOne
  <2>3. Alone'  BY <1>0, <1>4, <2>1, <2>2 DEF Alone
  <2>4. \A q \in Proc : pc[q] # "bump"  BY <1>0, <2>1
  <2>5. CacheCovers'
    <3> SUFFICES ASSUME cache[rule.at] # None, cache[rule.at].fresh
                 PROVE  /\ \A q \in Proc : pc'[q] = "bump" =>
                              used'[v] <= cache[rule.at].value + Size[req'[q].blob]
                        /\ \A q \in Proc : pc'[q] # "write"
                        /\ (\A q \in Proc : pc'[q] # "bump") => used'[v] <= cache[rule.at].value
          BY <1>0 DEF CacheCovers
    <3>1. cache[rule.at].value \in Int  BY DEF TypeOK, Entry, Backend
    <3>2. used[v] <= cache[rule.at].value  BY <2>4 DEF Undisturbed, CacheCovers
    <3>3. ~req[p].new => used[v] + more <= cache[rule.at].value
          BY <1>0 DEF Undisturbed, CacheCovers, more
    <3>4. \A q \in Proc : pc'[q] # "write"  BY <1>4, <2>1
    <3>5. CASE req[p].new
          BY <1>4, <1>u, <1>m, <1>f, <1>v, <2>1, <3>1, <3>2, <3>4, <3>5
    <3>6. CASE ~req[p].new
          BY <1>4, <1>u, <2>1, <3>3, <3>4, <3>6
    <3> QED BY <3>5, <3>6
  <2>6. ScanCovers'  BY <1>4, <2>1 DEF ScanCovers
  <2>7. ~breach'
    <3>1. req[p].new /\ max # None => used[v] + Size[req[p].blob] <= max
          BY <1>0 DEF Undisturbed, ScanCovers, max
    <3>2. ~(req[p].new /\ max # None /\ used[v] + more > max)
          BY <1>f, <1>m, <1>v, <3>1
    <3> QED BY <1>0, <3>2 DEF Undisturbed
  <2> QED BY <2>3, <2>5, <2>6, <2>7
<1> QED BY <1>3, <1>5, <1>6

(* Counting the write makes its entry cover the usage again.               *)
LEMMA BumpStep == ASSUME IInv, NEW p \in Proc, bump(p) PROVE Core'
<1> USE ConstantsOK DEF IInv, Core
<1>0. /\ pc[p] = "bump" /\ Finish(p)
      /\ UNCHANGED <<blobs, used, rule, upsets, disturbed, breach>>
      /\ cache' = IF cache[rule.at] = None THEN cache
                  ELSE [cache EXCEPT ![rule.at].value = @ + req[p].size]
      BY DEF bump, store, history
<1>f. req[p].size \in Nat  BY <1>0, RequestFields
<1>a. rule.at \in Addr /\ used[rule.vol] \in Int  BY DEF TypeOK, Backend
<1>c. /\ cache' \in [Addr -> Entry \cup {None}]
      /\ cache'[rule.at] # None =>
            /\ cache[rule.at] # None
            /\ cache'[rule.at].fresh = cache[rule.at].fresh
            /\ cache'[rule.at].value = cache[rule.at].value + req[p].size
  <2>1. CASE cache[rule.at] = None  BY <1>0, <2>1 DEF TypeOK
  <2>2. CASE cache[rule.at] # None
    <3> DEFINE e == [cache[rule.at] EXCEPT !.value = @ + req[p].size]
    <3>1. cache[rule.at] \in Entry  BY <1>a, <2>2 DEF TypeOK
    <3>2. e \in Entry /\ e.fresh = cache[rule.at].fresh
          /\ e.value = cache[rule.at].value + req[p].size
          BY <1>f, <3>1 DEF Entry
    <3>3. cache' = [cache EXCEPT ![rule.at] = e]  BY <1>0, <2>2
    <3> HIDE DEF e
    <3> QED BY <1>a, <2>2, <3>2, <3>3 DEF TypeOK
  <2> QED BY <2>1, <2>2
<1>1. TypeOK'  BY <1>0, <1>c, FinishTypes DEF HandlersOK, TypeOK
<1>2. pc'[p] = "idle" /\ \A q \in Proc : q # p => pc'[q] = pc[q] /\ req'[q] = req[q]
      BY <1>0 DEF Finish, TypeOK
<1>3. Checked'  BY <1>2 DEF Checked
<1>4. Undisturbed'
  <2> SUFFICES ASSUME Sequential PROVE (Alone /\ CacheCovers /\ ScanCovers /\ ~breach)'
        BY <1>0 DEF Undisturbed, Sequential
  <2>1. \A q \in Proc : pc'[q] = "idle"  BY <1>0, <1>2, OnlyOne
  <2>s. req[p].size = Size[req[p].blob]  BY <1>0 DEF Sequential, Sized, Checked
  <2>2. CacheCovers'  BY <1>0, <1>c, <2>1, <2>s DEF CacheCovers, Undisturbed
  <2> QED BY <1>0, <2>1, <2>2 DEF Undisturbed, Alone, ScanCovers
<1> QED BY <1>1, <1>3, <1>4

(* A write that ends before it is counted disturbs, any other does not.    *)
LEMMA DropStep == ASSUME IInv, NEW p \in Proc, Drop(p) PROVE Core'
<1> USE ConstantsOK DEF IInv, Core
<1>0. pc[p] # "idle" /\ Finish(p) /\ UNCHANGED <<blobs, used, rule, cache, breach>>
      BY DEF Drop, store
<1>1. CASE pc[p] # "bump"
  <2>1. UNCHANGED <<upsets, disturbed>>  BY <1>1 DEF Drop
  <2> QED BY <1>0, <1>1, <2>1, FinishStep DEF TypeOK, Sequential
<1>2. CASE pc[p] = "bump"
  <2>1. upsets < MaxUpsets /\ upsets' = upsets + 1 /\ disturbed' = disturbed \cup {"drop"}
        BY <1>2 DEF Drop
  <2>2. TypeOK'  BY <1>0, <2>1, FinishTypes DEF HandlersOK, TypeOK, Causes
  <2>3. Checked'  BY <1>0 DEF Checked, Finish, TypeOK
  <2> QED BY <2>1, <2>2, <2>3 DEF Undisturbed, Sequential
<1> QED BY <1>1, <1>2

(* A delete lowers the usage by as much as what a write may bring back, or *)
(* a scan may miss.                                                        *)
LEMMA DeleteStep ==
    ASSUME IInv, NEW b \in Blob, NEW missing \in SUBSET Proc, blob_delete(b, missing)
    PROVE  Core'
<1> USE ConstantsOK DEF IInv, Core
<1>0. /\ b \in blobs[rule.vol]
      /\ blobs' = [blobs EXCEPT ![rule.vol] = @ \ {b}]
      /\ used' = [used EXCEPT ![rule.vol] = @ - Size[b]]
      /\ req' = [p \in Proc |-> IF p \in missing
                                THEN [req[p] EXCEPT !.scan = [listed |-> @.listed \ {b},
                                                              bytes |-> @.bytes - Size[b]]]
                                ELSE req[p]]
      /\ UNCHANGED <<rule, cache, pc, breach>>
      BY DEF blob_delete
<1>s. Size[b] \in Nat /\ rule.vol \in Volume /\ used[rule.vol] \in Int  BY DEF TypeOK, Backend
<1>u. used'[rule.vol] = used[rule.vol] - Size[b]  BY <1>0, <1>s DEF TypeOK
<1>d. /\ upsets' \in 0..MaxUpsets /\ disturbed' \subseteq disturbed \cup {"missed"}
      /\ disturbed \subseteq disturbed'
      BY DEF blob_delete, TypeOK
<1>r. ASSUME NEW p \in Proc, pc[p] # "idle"
      PROVE  /\ req'[p] \in Request /\ req'[p] # None
             /\ req'[p].repo = req[p].repo /\ req'[p].blob = req[p].blob
             /\ req'[p].new = req[p].new /\ req'[p].be = req[p].be
             /\ req'[p].scan.bytes \in {req[p].scan.bytes, req[p].scan.bytes - Size[b]}
  <2>1. req[p] \in Request /\ req[p].scan.bytes \in Int /\ req[p].scan.listed \in SUBSET Blob
        BY <1>r, RequestFields
  <2>2. CASE p \notin missing  BY <1>0, <2>1, <2>2
  <2>3. CASE p \in missing
    <3> DEFINE s == [listed |-> req[p].scan.listed \ {b}, bytes |-> req[p].scan.bytes - Size[b]]
               y == [req[p] EXCEPT !.scan = s]
    <3>1. s \in Listing /\ s.bytes = req[p].scan.bytes - Size[b]  BY <1>s, <2>1 DEF Listing
    <3>2. req'[p] = y  BY <1>0, <2>3
    <3>3. /\ y \in Request /\ y.scan = s
          /\ y.repo = req[p].repo /\ y.blob = req[p].blob /\ y.new = req[p].new /\ y.be = req[p].be
          BY <2>1, <3>1, RequestScan, Zenon
    <3> HIDE DEF y, s
    <3> QED BY <3>1, <3>2, <3>3
  <2> QED BY <2>2, <2>3
<1>i. \A p \in Proc : pc[p] = "idle" => req'[p] = req[p]
  <2>1. \A p \in missing : pc[p] = "insert"  BY DEF blob_delete, Misses
  <2> QED BY <1>0, <2>1
<1>1. TypeOK'
  <2>1. blobs' \in [Volume -> SUBSET Blob]  BY <1>0 DEF TypeOK
  <2>2. used' \in [Volume -> Int]  BY <1>0, <1>s DEF TypeOK
  <2>3. req' \in [Proc -> Request \cup {None}]
    <3>1. \A p \in Proc : req'[p] \in Request \cup {None}  BY <1>r, <1>i DEF TypeOK
    <3>2. DOMAIN req' = Proc /\ req' = [p \in Proc |-> req'[p]]  BY <1>0
    <3> QED BY <3>1, <3>2
  <2>4. \A p \in Proc : req'[p] = None <=> pc'[p] = "idle"  BY <1>0, <1>r, <1>i DEF TypeOK
  <2> QED BY <1>0, <1>d, <2>1, <2>2, <2>3, <2>4 DEF TypeOK, Causes
<1>2. Checked'  BY <1>0, <1>r DEF Checked
<1>3. Undisturbed'
  <2> SUFFICES ASSUME Sequential PROVE (Alone /\ CacheCovers /\ ScanCovers /\ ~breach)'
        BY <1>d DEF Undisturbed, Sequential
  <2>1. \A p \in Proc : pc[p] # "idle" => /\ Size[req[p].blob] \in Nat /\ req[p].scan.bytes \in Int
                                           /\ Limit[req[p].repo] \in Nat \cup {None}
        BY RequestFields
  <2>2. blobs'[rule.vol] = blobs[rule.vol] \ {b}  BY <1>0, <1>s DEF TypeOK
  <2>3. ASSUME NEW p \in Proc, pc[p] # "idle"
        PROVE  /\ Returning(p)' \in Int /\ Returning(p) \in Int
               /\ Returning(p)' <= Returning(p) + Size[b]
    <3>1. CASE req[p].blob = b
          BY <1>0, <1>s, <1>r, <2>1, <2>2, <2>3, <3>1 DEF Returning
    <3>2. CASE req[p].blob # b
          BY <1>0, <1>s, <1>r, <2>1, <2>2, <2>3, <3>2 DEF Returning
    <3> QED BY <3>1, <3>2
  <2>4. CacheCovers'
    <3> SUFFICES ASSUME cache[rule.at] # None, cache[rule.at].fresh
                 PROVE  /\ \A p \in Proc : pc[p] = "bump" =>
                              used'[rule.vol] <= cache[rule.at].value + Size[req'[p].blob]
                        /\ \A p \in Proc : pc[p] = "write" /\ ~req'[p].new =>
                              used'[rule.vol] + Returning(p)' <= cache[rule.at].value
                        /\ (\A p \in Proc : pc[p] # "bump") => used'[rule.vol] <= cache[rule.at].value
          BY <1>0 DEF CacheCovers
    <3>0. cache[rule.at].value \in Int  BY DEF TypeOK, Entry, Backend
    <3>1. ASSUME NEW p \in Proc, pc[p] = "bump"
          PROVE  used'[rule.vol] <= cache[rule.at].value + Size[req'[p].blob]
      <4>1. used[rule.vol] <= cache[rule.at].value + Size[req[p].blob]
            BY <3>1 DEF Undisturbed, CacheCovers
      <4> QED BY <1>u, <1>s, <1>r, <2>1, <3>0, <3>1, <4>1
    <3>2. ASSUME NEW p \in Proc, pc[p] = "write", ~req'[p].new
          PROVE  used'[rule.vol] + Returning(p)' <= cache[rule.at].value
      <4>1. used[rule.vol] + Returning(p) <= cache[rule.at].value
            BY <1>r, <3>2 DEF Undisturbed, CacheCovers
      <4>2. /\ Returning(p)' \in Int /\ Returning(p) \in Int
            /\ Returning(p)' <= Returning(p) + Size[b]
            BY <2>3, <3>2
      <4> QED BY <1>u, <1>s, <3>0, <4>1, <4>2
    <3>3. (\A p \in Proc : pc[p] # "bump") => used'[rule.vol] <= cache[rule.at].value
          BY <1>u, <1>s, <3>0 DEF Undisturbed, CacheCovers
    <3> QED BY <3>1, <3>2, <3>3
  <2>5. ScanCovers'
    <3>1. ASSUME NEW p \in Proc, pc[p] = "insert" PROVE used'[rule.vol] <= req'[p].scan.bytes
      <4>1. used[rule.vol] <= req[p].scan.bytes  BY <3>1 DEF Undisturbed, ScanCovers
      <4> QED BY <1>u, <1>s, <1>r, <2>1, <3>1, <4>1
    <3>2. ASSUME NEW p \in Proc, pc[p] = "write", req'[p].new, Limit[req'[p].repo] # None
          PROVE  used'[rule.vol] + Size[req'[p].blob] <= Limit[req'[p].repo]
      <4>1. used[rule.vol] + Size[req[p].blob] <= Limit[req[p].repo]
            BY <1>r, <3>2 DEF Undisturbed, ScanCovers
      <4> QED BY <1>u, <1>s, <1>r, <2>1, <3>2, <4>1
    <3> QED BY <1>0, <3>1, <3>2 DEF ScanCovers
  <2>6. Alone'  BY <1>0, <1>r DEF Undisturbed, Alone
  <2> QED BY <1>0, <2>4, <2>5, <2>6 DEF Undisturbed
<1> QED BY <1>1, <1>2, <1>3

(* What else happens around the writes.                                    *)
LEMMA AroundStep ==
    ASSUME IInv,
           \/ \E a \in Addr : Expire(a)
           \/ \E v \in Volume, a \in Addr : Repoint(v, a)
    PROVE  Core'
<1> USE ConstantsOK DEF IInv, Core
<1>1. ASSUME NEW a \in Addr, Expire(a) PROVE Core'
  <2> DEFINE e == [cache[a] EXCEPT !.fresh = FALSE]
  <2>0. /\ cache[a] # None /\ cache' = [cache EXCEPT ![a] = e]
        /\ UNCHANGED <<blobs, used, rule, pc, req, upsets, disturbed, breach>>
        BY <1>1 DEF Expire, store, handlers, history
  <2>1. cache[a] \in Entry  BY <2>0 DEF TypeOK
  <2>2. e \in Entry /\ e.fresh = FALSE  BY <2>1 DEF Entry
  <2> HIDE DEF e
  <2>3. TypeOK'  BY <2>0, <2>2 DEF TypeOK
  <2>4. cache'[rule.at] = IF rule.at = a THEN e ELSE cache[rule.at]  BY <2>0 DEF TypeOK, Backend
  <2>5. CacheCovers => CacheCovers'  BY <2>0, <2>2, <2>4 DEF CacheCovers, Returning
  <2> QED BY <2>0, <2>3, <2>5 DEF Checked, Undisturbed, Sequential, Alone, ScanCovers
<1>2. ASSUME NEW v \in Volume, NEW a \in Addr, Repoint(v, a) PROVE Core'
  <2>0. /\ rule' = [vol |-> v, at |-> a] /\ upsets < MaxUpsets /\ upsets' = upsets + 1
        /\ UNCHANGED <<blobs, used, cache, pc, req, breach>>
        /\ disturbed' = disturbed \cup (IF InFlight = {} THEN {} ELSE {"repoint"})
                                  \cup (IF cache[a] = None THEN {} ELSE {"address"})
        BY <1>2 DEF Repoint, store, handlers
  <2>1. TypeOK'  BY <2>0 DEF TypeOK, Backend, Causes
  <2>2. Undisturbed'
    <3> SUFFICES ASSUME Sequential' PROVE (Alone /\ CacheCovers /\ ScanCovers /\ ~breach)'
          BY DEF Undisturbed
    <3>1. Sequential /\ InFlight = {} /\ cache[a] = None  BY <2>0 DEF Sequential
    <3>2. \A p \in Proc : pc'[p] = "idle"  BY <2>0, <3>1 DEF InFlight
    <3>3. cache'[rule'.at] = None  BY <2>0, <3>1
    <3> QED BY <2>0, <3>1, <3>2, <3>3 DEF Undisturbed, Alone, CacheCovers, ScanCovers
  <2> QED BY <2>0, <2>1, <2>2 DEF Checked
<1> QED BY <1>1, <1>2

-----------------------------------------------------------------------------
(* The size is read once, before the check, and is as good as that.        *)
LEMMA SizedStep == ASSUME IInv, [Next]_vars PROVE Sized'
<1> USE ConstantsOK DEF IInv, Core
<1> DEFINE Kept == disturbed \subseteq disturbed' /\ \A q \in Proc :
              pc'[q] \notin {"idle", "status"} /\ req'[q].new =>
                  /\ pc[q] \notin {"idle", "status"} /\ req[q].new
                  /\ req'[q].size = req[q].size /\ req'[q].blob = req[q].blob
<1>k. ASSUME Kept PROVE Sized'  BY <1>k DEF Sized
<1>s. ASSUME NEW p \in Proc, pc[p] \notin {"idle", "status"}, disturbed' = disturbed,
             \/ Finish(p)
             \/ \E x \in Request, to \in Suspended :
                    /\ pc' = [pc EXCEPT ![p] = to] /\ req' = [req EXCEPT ![p] = x]
                    /\ x.new = req[p].new /\ x.size = req[p].size /\ x.blob = req[p].blob
      PROVE  Sized'
  <2>1. Kept  BY <1>s DEF Finish, TypeOK
  <2> QED BY <1>k, <2>1
<1>1. ASSUME NEW p \in Proc, NEW r \in Repo, NEW b \in Blob,
             blob_write(p, r, b) \/ upload_finalize(p, r, b)
      PROVE  Sized'
  <2>1. PICK n \in Nat, check \in {"status", "enforce"} :
          Begin(p, r, b, n, check) /\ (check = "enforce" => n = Size[b])
        BY <1>1 DEF blob_write, upload_finalize
  <2> DEFINE new == b \notin blobs[rule.vol]
             x == [repo |-> r, blob |-> b, new |-> new, size |-> IF new THEN n ELSE 0,
                   be |-> rule, scan |-> NoListing]
  <2>2. /\ req' = [req EXCEPT ![p] = x] /\ pc' = [pc EXCEPT ![p] = IF new THEN check ELSE "write"]
        /\ disturbed \subseteq disturbed'
        BY <2>1 DEF Begin
  <2>3. x.new = new /\ x.blob = b /\ (new => x.size = n)  OBVIOUS
  <2> HIDE DEF x
  <2>4. /\ req'[p] = x /\ pc'[p] = IF new THEN check ELSE "write"
        /\ \A q \in Proc : q # p => pc'[q] = pc[q] /\ req'[q] = req[q]
        BY <2>2 DEF TypeOK
  <2> QED BY <2>1, <2>2, <2>3, <2>4 DEF Sized
<1>2. ASSUME NEW p \in Proc, upload_status(p) PROVE Sized'
  <2>1. req[p] \in Request  BY <1>2, RequestFields DEF upload_status
  <2>2. PICK n \in 0..Size[req[p].blob] :
          /\ req' = [req EXCEPT ![p] = [req[p] EXCEPT !.size = n]]
          /\ n # Size[req[p].blob] => "short" \in disturbed'
          /\ disturbed \subseteq disturbed'
        BY <1>2 DEF upload_status
  <2>3. [req[p] EXCEPT !.size = n].size = n /\ [req[p] EXCEPT !.size = n].blob = req[p].blob
        BY <2>1 DEF Request
  <2>4. /\ req'[p].size = n /\ req'[p].blob = req[p].blob
        /\ \A q \in Proc : q # p => pc'[q] = pc[q] /\ req'[q] = req[q]
        BY <1>2, <2>2, <2>3 DEF upload_status, TypeOK
  <2> QED BY <2>2, <2>4 DEF Sized
<1>d. ASSUME NEW p \in Proc, NEW usage, pc[p] \in {"enforce", "insert"}, Decide(p, usage),
             disturbed' = disturbed
      PROVE  Sized'
  <2> DEFINE x == [req[p] EXCEPT !.scan = NoListing]
  <2>1. req[p] \in Request /\ NoListing \in Listing  BY <1>d, RequestFields DEF NoListing, Listing
  <2>2. x \in Request /\ x.new = req[p].new /\ x.size = req[p].size /\ x.blob = req[p].blob
        BY <2>1, RequestScan, Zenon
  <2>3. \/ Finish(p)
        \/ pc' = [pc EXCEPT ![p] = "write"] /\ req' = [req EXCEPT ![p] = x]
        BY <1>d DEF Decide
  <2> HIDE DEF x
  <2> QED BY <1>d, <1>s, <2>2, <2>3 DEF Suspended
<1>3. ASSUME NEW p \in Proc, enforce(p) PROVE Sized'
  <2>0. pc[p] = "enforce" /\ disturbed' = disturbed  BY <1>3 DEF enforce, history
  <2>1. req[p] \in Request /\ rule \in Backend  BY <2>0, RequestFields DEF TypeOK
  <2>2. CASE Limit[req[p].repo] = None
    <3>1. pc' = [pc EXCEPT ![p] = "write"] /\ req' = [req EXCEPT ![p] = req[p]]
          BY <1>3, <2>2 DEF enforce, Goto, TypeOK
    <3> QED BY <1>s, <2>0, <2>1, <3>1 DEF Suspended
  <2>3. CASE Limit[req[p].repo] # None /\ cache[rule.at] # None /\ cache[rule.at].fresh
        BY <1>3, <1>d, <2>0, <2>3 DEF enforce
  <2>4. CASE Limit[req[p].repo] # None /\ ~(cache[rule.at] # None /\ cache[rule.at].fresh)
    <3> DEFINE y == [req[p] EXCEPT !.be = rule]
    <3>1. y \in Request /\ y.new = req[p].new /\ y.size = req[p].size /\ y.blob = req[p].blob
          BY <2>1, RequestBackend, Zenon
    <3>2. pc' = [pc EXCEPT ![p] = "scan"] /\ req' = [req EXCEPT ![p] = y]
          BY <1>3, <2>4 DEF enforce
    <3> HIDE DEF y
    <3> QED BY <1>s, <2>0, <3>1, <3>2 DEF Suspended
  <2> QED BY <2>2, <2>3, <2>4
<1>4. ASSUME NEW p \in Proc, Scan(p) PROVE Sized'
  <2>0. pc[p] = "scan" /\ disturbed' = disturbed  BY <1>4 DEF Scan, history
  <2>1. req[p] \in Request /\ req[p].be.vol \in Volume  BY <2>0, RequestFields
  <2> DEFINE l == [listed |-> blobs[req[p].be.vol], bytes |-> used[req[p].be.vol]]
             x == [req[p] EXCEPT !.scan = l]
  <2>2. l \in Listing  BY <2>1 DEF Listing, TypeOK
  <2>3. x \in Request /\ x.new = req[p].new /\ x.size = req[p].size /\ x.blob = req[p].blob
        BY <2>1, <2>2, RequestScan, Zenon
  <2>4. pc' = [pc EXCEPT ![p] = "insert"] /\ req' = [req EXCEPT ![p] = x]  BY <1>4 DEF Scan
  <2> HIDE DEF x, l
  <2> QED BY <1>s, <2>0, <2>3, <2>4 DEF Suspended
<1>5. ASSUME NEW p \in Proc, Insert(p) PROVE Sized'
      BY <1>5, <1>d DEF Insert, history
<1>6. ASSUME NEW p \in Proc, Write(p) PROVE Sized'
  <2>1. req[p] \in Request /\ pc[p] = "write" /\ disturbed' = disturbed
        BY <1>6, RequestFields DEF Write
  <2>2. \/ Finish(p)
        \/ pc' = [pc EXCEPT ![p] = "bump"] /\ req' = [req EXCEPT ![p] = req[p]]
        BY <1>6 DEF Write, Goto, TypeOK
  <2> QED BY <1>s, <2>1, <2>2 DEF Suspended
<1>7. ASSUME NEW p \in Proc, bump(p) PROVE Sized'  BY <1>7, <1>s DEF bump, history
<1>8. ASSUME NEW p \in Proc, Drop(p) PROVE Sized'
  <2>1. Kept  BY <1>8 DEF Drop, Finish, TypeOK
  <2> QED BY <1>k, <2>1
<1>9. ASSUME NEW b \in Blob, NEW missing \in SUBSET Proc, blob_delete(b, missing) PROVE Sized'
  <2>1. disturbed \subseteq disturbed' /\ pc' = pc  BY <1>9 DEF blob_delete
  <2>2. ASSUME NEW q \in Proc, pc[q] # "idle"
        PROVE  req'[q].new = req[q].new /\ req'[q].size = req[q].size /\ req'[q].blob = req[q].blob
    <3>1. req[q] \in Request  BY <2>2, RequestFields
    <3>2. \/ req'[q] = req[q]
          \/ \E l : req'[q] = [req[q] EXCEPT !.scan = l]
          BY <1>9 DEF blob_delete
    <3> QED BY <3>1, <3>2 DEF Request
  <2> QED BY <2>1, <2>2 DEF Sized
<1>10. ASSUME \/ UNCHANGED vars
              \/ \E a \in Addr : Expire(a)
              \/ \E v \in Volume, a \in Addr : Repoint(v, a)
       PROVE  Sized'
  <2>1. disturbed \subseteq disturbed' /\ UNCHANGED <<pc, req>>
        BY <1>10 DEF vars, handlers, history, Expire, Repoint
  <2> QED BY <2>1 DEF Sized
<1> QED BY <1>1, <1>2, <1>3, <1>4, <1>5, <1>6, <1>7, <1>8, <1>9, <1>10 DEF Next

(* Every step keeps the invariant.                                         *)
LEMMA IInvStep == IInv /\ [Next]_vars => IInv'
<1> SUFFICES ASSUME IInv, [Next]_vars PROVE Core'  BY SizedStep DEF IInv
<1>1. ASSUME NEW p \in Proc, NEW r \in Repo, NEW b \in Blob, blob_write(p, r, b) \/ upload_finalize(p, r, b)
      PROVE  Core'
      BY <1>1, BeginStep, ConstantsOK DEF blob_write, upload_finalize
<1>2. ASSUME NEW p \in Proc,
             upload_status(p) \/ enforce(p) \/ Scan(p) \/ Insert(p) \/ Write(p) \/ bump(p) \/ Drop(p)
      PROVE  Core'
      BY <1>2, StatusStep, EnforceStep, ScanStep, InsertStep, WriteStep, BumpStep, DropStep
<1>3. CASE UNCHANGED vars
      BY <1>3 DEF vars, store, handlers, history, IInv, Core, TypeOK, Checked, Undisturbed,
                  Sequential, Alone, CacheCovers, ScanCovers, Returning
<1>4. CASE \E b \in Blob, missing \in SUBSET Proc : blob_delete(b, missing)  BY <1>4, DeleteStep
<1> QED BY <1>1, <1>2, <1>3, <1>4, AroundStep DEF Next

(* QuotaStorage keeps a burst of sequential pushes honest: a write that    *)
(* was checked exceeds its limit only if writes overlapped, one was        *)
(* dropped uncounted, or the rule or an address changed under them.        *)
THEOREM Honest == Spec => []SequentialHonest
<1>1. IInv => SequentialHonest  BY DEF IInv, Core, Undisturbed, Sequential, SequentialHonest
<1> QED BY <1>1, IInvInit, IInvStep, PTL DEF Spec

(* The types, of the handlers' requests and the cache among them.          *)
THEOREM QuotaTypes == Spec => []TypeOK
<1>1. IInv => TypeOK  BY DEF IInv, Core
<1> QED BY <1>1, IInvInit, IInvStep, PTL DEF Spec

-----------------------------------------------------------------------------
(* What overlapping writes alone can do. The volume is seen as one fill    *)
(* for each handler. A scan that found room may be put into the cache      *)
(* however late, so it keeps a fill free until it is; when it goes into    *)
(* the cache, that fill is what the entry, too low by then, lets pass.     *)

(* The bytes of a set of blobs: as many as the pairs of a blob and an      *)
(* index into it.                                                          *)
Pieces(C) == {x \in Blob \X Nat : x[1] \in C /\ x[2] < Size[x[1]]}
Bytes(C) == Cardinality(Pieces(C))

(* Nothing but overlaps has come between the steps of a write.             *)
Calm == disturbed \subseteq {"overlap"}

(* L bounds the limits, which every class then has, and S the sizes; ...   *)
Within(L, S) ==
    /\ \A r \in Repo : Limit[r] # None /\ Limit[r] <= L
    /\ \A b \in Blob : Size[b] <= S

(* ... and there are finitely many handlers and blobs.                     *)
Setting(L, S) ==
    /\ IsFiniteSet(Proc) /\ IsFiniteSet(Blob)
    /\ L \in Nat /\ S \in Nat /\ Within(L, S)

(* What a handler may add by itself: what its limit allows, and a blob for *)
(* each of the others, with whom it may pass one check together.           *)
N == Cardinality(Proc)
Fill(L, S) == L + (N - 1) * S

(* The blobs of some handlers, and the handlers at some stages.            *)
BlobsOf(A) == {req[p].blob : p \in A}
At(stages) == {p \in Proc : pc[p] \in stages}

(* Handlers whose new blob is not in the cached usage, the blobs that are  *)
(* or will be on the volume, and those of them that the cache should have  *)
(* counted.                                                                *)
Uncounted == {p \in At({"write", "bump"}) : req[p].new}
Reach == blobs[rule.vol] \cup BlobsOf(At({"write"}))
Counted == (blobs[rule.vol] \cup BlobsOf({p \in At({"write"}) : ~req[p].new})) \ BlobsOf(At({"bump"}))

(* Scans that found room. Each may go into the cache yet, and so each      *)
(* keeps a fill of the volume to itself, except that one of them is as low *)
(* as what is there.                                                       *)
Low(L) == {p \in At({"insert"}) : req[p].scan.bytes <= L}
Spare(L) == IF Low(L) = {} THEN {0} ELSE {req[p].scan.bytes : p \in Low(L)}
Held(L) == Cardinality(Low(L))

(* The entry of the backend the rule has.                                  *)
Fresh == cache[rule.at] # None /\ cache[rule.at].fresh
Found == cache[rule.at].value

(* Handlers in a write measure the backend of the rule, the usage is that  *)
(* of the blobs, and scans and entries are usages. A fresh entry has been  *)
(* put there by a handler that is past its scan, and whoever comes after   *)
(* it does not scan.                                                       *)
Aligned == \A p \in Proc : pc[p] # "idle" => req[p].be = rule
Exact == \A v \in Volume : used[v] = Bytes(blobs[v])
Plausible ==
    /\ \A p \in At({"insert"}) : req[p].scan.bytes >= 0
    /\ cache[rule.at] # None => Found >= 0
    /\ Fresh => \E p \in Proc : pc[p] \notin {"scan", "insert"}

(* What is on a volume, what may come to it, and what a fresh entry that   *)
(* may let a write pass has not counted.                                   *)
DiskFits(L, S) == \A v \in Volume : Bytes(blobs[v]) <= N * Fill(L, S)
ReachFits(L, S) == \E s \in Spare(L) : Bytes(Reach) <= (N - Held(L)) * Fill(L, S) + s
CacheFits(L, S) ==
    Fresh /\ Found <= L =>
        \E s \in Spare(L) : Bytes(Counted) <= Found + (N - Held(L) - 1) * Fill(L, S) + s + Held(L) * S

Bounded(L, S) ==
    /\ Aligned /\ Exact /\ Plausible
    /\ DiskFits(L, S) /\ ReachFits(L, S) /\ CacheFits(L, S)

(* The invariant, for all bounds of the limits and sizes.                  *)
BoundInv == \A L, S \in Nat : Calm /\ Within(L, S) => Bounded(L, S)

(* No blob of the set has more than S bytes.                               *)
LEMMA BytesBound ==
    ASSUME IsFiniteSet(Blob), NEW S \in Nat, \A b \in Blob : Size[b] <= S, NEW C \in SUBSET Blob
    PROVE  IsFiniteSet(Pieces(C)) /\ Bytes(C) \in Nat /\ Bytes(C) <= Cardinality(C) * S
<1> USE ConstantsOK
<1>1. IsFiniteSet(C) /\ IsFiniteSet(0 .. S - 1) /\ Cardinality(0 .. S - 1) = S
  <2>1. IsFiniteSet(C)  BY FS_Subset
  <2>2. 0 \in Int /\ S - 1 \in Int  OBVIOUS
  <2> QED BY <2>1, <2>2, FS_Interval
<1>2. Pieces(C) \subseteq C \X (0 .. S - 1)  BY DEF Pieces
<1>3. IsFiniteSet(C \X (0 .. S - 1)) /\ Cardinality(C \X (0 .. S - 1)) = Cardinality(C) * S
      BY <1>1, FS_Product
<1>4. IsFiniteSet(Pieces(C)) /\ Cardinality(Pieces(C)) <= Cardinality(C) * S
      BY <1>2, <1>3, FS_Subset
<1> QED BY <1>4, FS_CardinalityType DEF Bytes

(* More blobs are more bytes, and no more than the sum.                    *)
LEMMA BytesMore ==
    ASSUME IsFiniteSet(Blob), NEW S \in Nat, \A b \in Blob : Size[b] <= S,
           NEW C \in SUBSET Blob, NEW D \in SUBSET Blob
    PROVE  /\ Bytes(C \cup D) <= Bytes(C) + Bytes(D)
           /\ C \subseteq D => Bytes(C) <= Bytes(D)
<1>1. /\ IsFiniteSet(Pieces(C)) /\ Bytes(C) \in Nat /\ IsFiniteSet(Pieces(D)) /\ Bytes(D) \in Nat
      BY BytesBound
<1>2. Pieces(C \cup D) = Pieces(C) \cup Pieces(D)  BY DEF Pieces
<1>3. Cardinality(Pieces(C) \cup Pieces(D)) =
        Cardinality(Pieces(C)) + Cardinality(Pieces(D)) - Cardinality(Pieces(C) \cap Pieces(D))
      BY <1>1, FS_Union
<1>4. Cardinality(Pieces(C) \cap Pieces(D)) \in Nat  BY <1>1, FS_Intersection, FS_CardinalityType
<1>5. ASSUME C \subseteq D PROVE Bytes(C) <= Bytes(D)
  <2>1. Pieces(C) \subseteq Pieces(D)  BY <1>5 DEF Pieces
  <2> QED BY <1>1, <2>1, FS_Subset DEF Bytes
<1>6. Bytes(C \cup D) = Bytes(C) + Bytes(D) - Cardinality(Pieces(C) \cap Pieces(D))
      BY <1>2, <1>3 DEF Bytes
<1> QED BY <1>1, <1>4, <1>5, <1>6

(* No blobs have no bytes, ...                                             *)
LEMMA BytesNone == Bytes({}) = 0
<1>1. Pieces({}) = {}  BY DEF Pieces
<1> QED BY <1>1, FS_EmptySet DEF Bytes

(* ... one has its size, ...                                               *)
LEMMA BytesOne ==
    ASSUME NEW b \in Blob
    PROVE  IsFiniteSet(Pieces({b})) /\ Bytes({b}) = Size[b]
<1> USE ConstantsOK
<1>1. Size[b] \in Nat /\ IsFiniteSet(0 .. Size[b] - 1) /\ Cardinality(0 .. Size[b] - 1) = Size[b]
  <2>1. 0 \in Int /\ Size[b] - 1 \in Int /\ Size[b] \in Nat  OBVIOUS
  <2> QED BY <2>1, FS_Interval
<1> DEFINE f == [i \in 0 .. Size[b] - 1 |-> <<b, i>>]
<1>2. f \in Bijection(0 .. Size[b] - 1, Pieces({b}))
  <2>1. f \in [0 .. Size[b] - 1 -> Pieces({b})]  BY <1>1 DEF Pieces
  <2>2. \A i, j \in 0 .. Size[b] - 1 : f[i] = f[j] => i = j  OBVIOUS
  <2>3. \A x \in Pieces({b}) : x[2] \in 0 .. Size[b] - 1 /\ x = f[x[2]]  BY <1>1 DEF Pieces
  <2> HIDE DEF f
  <2>4. \A x \in Pieces({b}) : \E i \in 0 .. Size[b] - 1 : f[i] = x  BY <2>3
  <2> QED BY <2>1, <2>2, <2>4 DEF Bijection, Injection, Surjection, IsInjective
<1>3. ExistsBijection(0 .. Size[b] - 1, Pieces({b}))  BY <1>2 DEF ExistsBijection
<1> QED BY <1>1, <1>3, FS_Bijection DEF Bytes

(* ... and one more adds its size.                                         *)
LEMMA BytesAdd ==
    ASSUME IsFiniteSet(Blob), NEW S \in Nat, \A b \in Blob : Size[b] <= S,
           NEW C \in SUBSET Blob, NEW b \in Blob, b \notin C
    PROVE  Bytes(C \cup {b}) = Bytes(C) + Size[b]
<1>1. IsFiniteSet(Pieces(C)) /\ Bytes(C) \in Nat  BY BytesBound
<1>2. IsFiniteSet(Pieces({b})) /\ Bytes({b}) = Size[b] /\ Size[b] \in Nat  BY BytesOne, ConstantsOK
<1>3. Pieces(C \cup {b}) = Pieces(C) \cup Pieces({b}) /\ Pieces(C) \cap Pieces({b}) = {}
      BY DEF Pieces
<1>4. Cardinality(Pieces(C) \cup Pieces({b})) =
        Cardinality(Pieces(C)) + Cardinality(Pieces({b})) - Cardinality(Pieces(C) \cap Pieces({b}))
      BY <1>1, <1>2, FS_Union
<1>5. Bytes(C \cup {b}) = Cardinality(Pieces(C)) + Cardinality(Pieces({b})) - Cardinality(Pieces(C) \cap Pieces({b}))
      BY <1>3, <1>4 DEF Bytes
<1>6. Cardinality(Pieces(C) \cap Pieces({b})) = 0  BY <1>3, FS_EmptySet, Zenon
<1>7. Bytes(C \cup {b}) = Bytes(C) + Bytes({b}) - 0  BY <1>5, <1>6, Zenon DEF Bytes
<1> QED BY <1>1, <1>2, <1>7

-----------------------------------------------------------------------------
(* Arithmetic with products: n handlers, h of them with a low scan, fills  *)
(* of K.                                                                   *)
LEMMA Times ==
    ASSUME NEW m \in Nat, NEW x \in Int, NEW y \in Int, x <= y
    PROVE  m * x <= m * y
OBVIOUS

(* A product with one factor more.                                         *)
LEMMA OneMore ==
    ASSUME NEW m \in Int, NEW k \in Int, NEW x \in Int, k = m + 1
    PROVE  k * x = m * x + x  /\ m * x \in Int /\ k * x \in Int
OBVIOUS

(* A fill is no less than the limit, nor, with two handlers, than a blob   *)
(* more.                                                                   *)
LEMMA FillBounds ==
    ASSUME NEW n \in Nat, n >= 1, NEW L \in Nat, NEW S \in Nat, NEW K, K = L + (n - 1) * S
    PROVE  K \in Nat /\ L <= K /\ (n >= 2 => S <= K /\ L + S <= K)
<1>1. (n - 1) * S \in Nat  OBVIOUS
<1>2. n >= 2 => 1 * S <= (n - 1) * S
  <2>1. S * 1 <= S * (n - 1) \/ n < 2  BY Times
  <2> QED BY <2>1
<1> QED BY <1>1, <1>2

(* A write of z bytes passes a check of c, with u others uncounted.        *)
LEMMA PassSum ==
    ASSUME NEW n \in Nat, NEW h \in Nat, NEW u \in Nat, u + h + 1 <= n,
           NEW L \in Nat, NEW S \in Nat, NEW K \in Int, K = L + (n - 1) * S,
           NEW c \in Int, NEW s \in Int, NEW z \in Int, c + z <= L,
           NEW C \in Int, C <= c + (n - h - 1) * K + s + h * S,
           NEW R \in Int, R <= C + z + u * S
    PROVE  R <= (n - h) * K + s
<1>1. (n - h) * K = (n - h - 1) * K + K  BY OneMore
<1>2. u * S <= (n - h - 1) * S  BY Times
<1>3. (n - h - 1) * S + h * S = (n - 1) * S  OBVIOUS
<1>4. (n - h - 1) * K \in Int /\ u * S \in Int /\ h * S \in Int /\ (n - 1) * S \in Int /\ (n - h - 1) * S \in Int OBVIOUS
<1> QED BY <1>1, <1>2, <1>3, <1>4

(* A scan of u bytes, with w writes under way, keeps a fill.               *)
LEMMA ScanSum ==
    ASSUME NEW n \in Nat, NEW h \in Nat, NEW w \in Nat, w + h + 1 <= n,
           NEW L \in Nat, NEW S \in Nat, NEW K \in Int, K = L + (n - 1) * S,
           NEW u \in Int, NEW R \in Int, R <= u + w * S
    PROVE  R <= (n - (h + 1)) * K + u
<1>1. K \in Nat /\ (n >= 2 => S <= K)  BY FillBounds
<1>2. CASE w = 0
  <2>1. w * S = 0 /\ (n - (h + 1)) * K >= 0 /\ (n - (h + 1)) * K \in Int  BY <1>1, <1>2
  <2> QED BY <2>1
<1>3. CASE w # 0
  <2>1. w * S <= w * K  BY <1>1, <1>3, Times
  <2>2. K * w <= K * (n - (h + 1))  BY <1>1, Times
  <2>3. w * S \in Int /\ w * K = K * w /\ (n - (h + 1)) * K = K * (n - (h + 1)) /\ K * w \in Int /\ K * (n - (h + 1)) \in Int
        BY <1>1
  <2> QED BY <2>1, <2>2, <2>3
<1> QED BY <1>2, <1>3

(* The same for what the entry does not count, with a handler past its     *)
(* scan.                                                                   *)
LEMMA ScanCacheSum ==
    ASSUME NEW n \in Nat, NEW h \in Nat, NEW w \in Nat, w + h + 1 <= n, h + 2 <= n,
           NEW L \in Nat, NEW S \in Nat, NEW K \in Int, K = L + (n - 1) * S,
           NEW c \in Nat, NEW u \in Int, NEW C \in Int, C <= u + w * S
    PROVE  C <= c + (n - (h + 1) - 1) * K + u + (h + 1) * S
<1>1. K \in Nat /\ S <= K  BY FillBounds
<1>2. w * S <= (n - h - 2) * S + S
  <2>1. S * w <= S * (n - h - 1)  BY Times
  <2>2. (n - h - 1) * S = (n - h - 2) * S + S  BY OneMore
  <2> QED BY <2>1, <2>2
<1>3. (n - h - 2) * S <= (n - h - 2) * K  BY <1>1, Times
<1>4. (h + 1) * S = h * S + S /\ h * S >= 0 /\ h * S \in Int  BY OneMore
<1>5. (n - h - 2) * S \in Int /\ (n - h - 2) * K \in Int /\ w * S \in Int
      /\ (n - (h + 1) - 1) * K = (n - h - 2) * K
      BY <1>1
<1> QED BY <1>2, <1>3, <1>4, <1>5

(* A scan of x bytes gives its fill back, to a write of z bytes or for     *)
(* good.                                                                   *)
LEMMA LeaveSum ==
    ASSUME NEW n \in Nat, n >= 1, NEW h \in Int, NEW L \in Nat, NEW S \in Nat, NEW K \in Int, K = L + (n - 1) * S,
           NEW x \in Nat, NEW t \in Nat, NEW s \in Int, s = t \/ s = x,
           NEW z \in Nat, x + z <= L,
           NEW R \in Int, R <= (n - h) * K + s + z
    PROVE  /\ R <= (n - (h - 1)) * K + t
           /\ z = 0 /\ h >= 1 => R <= x + (n - (h - 1) - 1) * K + t + (h - 1) * S
<1>1. K \in Nat /\ L <= K  BY FillBounds
<1>2. (n - (h - 1)) * K = (n - h) * K + K /\ (n - h) * K \in Int  BY OneMore
<1>3. (n - (h - 1) - 1) * K = (n - h) * K  OBVIOUS
<1>4. h >= 1 => (h - 1) * S \in Nat  OBVIOUS
<1> QED BY <1>1, <1>2, <1>3, <1>4

(* The same for what the entry does not count.                             *)
LEMMA LeaveCacheSum ==
    ASSUME NEW n \in Nat, n >= 2, NEW h \in Int, NEW L \in Nat, NEW S \in Nat, NEW K \in Int, K = L + (n - 1) * S,
           NEW x \in Nat, x <= L, NEW t \in Nat, NEW s \in Int, s = t \/ s = x,
           NEW c \in Int, NEW C \in Int, C <= c + (n - h - 1) * K + s + h * S
    PROVE  C <= c + (n - (h - 1) - 1) * K + t + (h - 1) * S
<1>1. K \in Nat /\ L + S <= K  BY FillBounds
<1>2. (n - (h - 1) - 1) * K = (n - h - 1) * K + K /\ (n - h - 1) * K \in Int  BY OneMore
<1>3. h * S = (h - 1) * S + S /\ (h - 1) * S \in Int  BY OneMore
<1> QED BY <1>1, <1>2, <1>3

(* With all fills given back, no more than n of them are used.             *)
LEMMA AllSum ==
    ASSUME NEW n \in Nat, NEW h \in Nat, h <= n, NEW L \in Nat, NEW S \in Nat, NEW K, K = L + (n - 1) * S,
           NEW s \in Nat, s <= L, h = 0 => s = 0,
           NEW R \in Int, R <= (n - h) * K + s
    PROVE  R <= n * K
<1>0. (n - h) * K = n * K - h * K /\ n * K \in Int /\ h * K \in Int
  <2>1. K \in Int  OBVIOUS
  <2> QED BY <2>1
<1>1. CASE h = 0
  <2>1. h * K = 0  BY <1>1, <1>0
  <2> QED BY <1>0, <1>1, <2>1
<1>2. CASE h >= 1
  <2>1. K \in Nat /\ L <= K  BY <1>2, FillBounds
  <2>2. K * 1 <= K * h  BY <1>2, <2>1, Times
  <2>3. K * h = h * K  BY <2>1
  <2> QED BY <1>0, <2>1, <2>2, <2>3
<1> QED BY <1>1, <1>2

-----------------------------------------------------------------------------
(* Handlers have one blob each.                                            *)
LEMMA BlobsOfBound ==
    ASSUME TypeOK, IsFiniteSet(Proc), NEW A \in SUBSET InFlight
    PROVE  /\ BlobsOf(A) \in SUBSET Blob
           /\ IsFiniteSet(A) /\ Cardinality(A) \in Nat
           /\ IsFiniteSet(BlobsOf(A)) /\ Cardinality(BlobsOf(A)) \in Nat
           /\ Cardinality(BlobsOf(A)) <= Cardinality(A)
<1>1. \A p \in A : p \in Proc /\ req[p].blob \in Blob  BY RequestFields DEF InFlight
<1>2. IsFiniteSet(A) /\ Cardinality(A) \in Nat
  <2>1. A \in SUBSET Proc  BY <1>1
  <2> QED BY <2>1, FS_Subset, FS_CardinalityType
<1> DEFINE f == [p \in A |-> req[p].blob]
<1>3. f \in Surjection(A, BlobsOf(A))  BY DEF Surjection, BlobsOf
<1>4. IsFiniteSet(BlobsOf(A)) /\ Cardinality(BlobsOf(A)) <= Cardinality(A)
      BY <1>2, <1>3, FS_Surjection
<1>5. Cardinality(BlobsOf(A)) \in Nat  BY <1>4, FS_CardinalityType
<1> QED BY <1>1, <1>2, <1>4, <1>5 DEF BlobsOf

(* Handlers that are counted apart are no more than all.                   *)
LEMMA Apart ==
    ASSUME IsFiniteSet(Proc), NEW A \in SUBSET Proc, NEW B \in SUBSET Proc, A \cap B = {}
    PROVE  /\ N \in Nat /\ Cardinality(A) \in Nat /\ Cardinality(B) \in Nat
           /\ Cardinality(A) + Cardinality(B) <= N
           /\ \A p \in Proc \ (A \cup B) : Cardinality(A) + Cardinality(B) + 1 <= N
           /\ \A p, q \in Proc \ (A \cup B) : p # q => Cardinality(A) + Cardinality(B) + 2 <= N
<1>1. /\ IsFiniteSet(A) /\ IsFiniteSet(B)
      /\ Cardinality(A) \in Nat /\ Cardinality(B) \in Nat /\ N \in Nat
      BY FS_Subset, FS_CardinalityType DEF N
<1>2. IsFiniteSet(A \cup B) /\ Cardinality(A \cup B) = Cardinality(A) + Cardinality(B)
  <2>1. Cardinality(A \cup B) = Cardinality(A) + Cardinality(B) - Cardinality(A \cap B)
        BY <1>1, FS_Union
  <2>2. Cardinality(A \cap B) = 0  BY FS_EmptySet
  <2>3. IsFiniteSet(A \cup B)  BY <1>1, FS_Union
  <2> QED BY <1>1, <2>1, <2>2, <2>3
<1>3. \A X \in SUBSET Proc : Cardinality(X) <= N  BY FS_Subset DEF N
<1>4. ASSUME NEW p \in Proc \ (A \cup B)
      PROVE  /\ IsFiniteSet(A \cup B \cup {p})
             /\ Cardinality(A \cup B \cup {p}) = Cardinality(A) + Cardinality(B) + 1
      BY <1>2, <1>4, FS_AddElement
<1>5. ASSUME NEW p \in Proc \ (A \cup B), NEW q \in Proc \ (A \cup B), p # q
      PROVE  Cardinality(A \cup B \cup {p} \cup {q}) = Cardinality(A) + Cardinality(B) + 2
  <2>1. q \notin A \cup B \cup {p}  BY <1>5
  <2>2. Cardinality((A \cup B \cup {p}) \cup {q}) = Cardinality(A \cup B \cup {p}) + 1
        BY <1>4, <2>1, FS_AddElement
  <2> QED BY <1>1, <1>4, <2>2
<1>6. A \cup B \in SUBSET Proc  OBVIOUS
<1>7. Cardinality(A) + Cardinality(B) <= N  BY <1>2, <1>3, <1>6
<1>8. \A p \in Proc \ (A \cup B) : Cardinality(A) + Cardinality(B) + 1 <= N
  <2> TAKE p \in Proc \ (A \cup B)
  <2>1. A \cup B \cup {p} \in SUBSET Proc  OBVIOUS
  <2> QED BY <1>3, <1>4, <2>1
<1>9. \A p, q \in Proc \ (A \cup B) : p # q => Cardinality(A) + Cardinality(B) + 2 <= N
  <2> TAKE p, q \in Proc \ (A \cup B)
  <2>1. A \cup B \cup {p} \cup {q} \in SUBSET Proc  OBVIOUS
  <2> QED BY <1>3, <1>5, <2>1
<1> QED BY <1>1, <1>7, <1>8, <1>9

(* What the parts of the invariant speak of.                               *)
Measured(L) ==
    /\ N \in Nat /\ Held(L) \in Nat /\ Held(L) <= N
    /\ Low(L) \in SUBSET Proc /\ Spare(L) # {}
    /\ \A s \in Spare(L) : s \in Nat /\ s <= L
    /\ Reach \in SUBSET Blob /\ Counted \in SUBSET Blob
    /\ Fresh => Found \in Nat
    /\ rule.vol \in Volume /\ blobs[rule.vol] \in SUBSET Blob

(* The types of what the invariant speaks of, ...                          *)
LEMMA Measures ==
    ASSUME TypeOK, IsFiniteSet(Proc), NEW L \in Nat, Plausible
    PROVE  Measured(L)
<1>1. Low(L) \in SUBSET Proc  BY DEF Low, At
<1>2. N \in Nat /\ Held(L) \in Nat /\ Held(L) <= N
  <2>1. Low(L) \cap {} = {} /\ {} \in SUBSET Proc  OBVIOUS
  <2> HIDE <2>1
  <2>2. N \in Nat /\ Held(L) \in Nat /\ Cardinality({}) \in Nat /\ Held(L) + Cardinality({}) <= N
        BY <1>1, <2>1, Apart DEF Held
  <2> QED BY <2>2
<1>3. \A s \in Spare(L) : s \in Nat /\ s <= L
  <2>1. \A p \in Low(L) : req[p].scan.bytes \in Nat /\ req[p].scan.bytes <= L
        BY RequestFields DEF Low, At, Plausible
  <2> QED BY <2>1 DEF Spare
<1>4. Spare(L) # {}  BY DEF Spare
<1>5. rule.vol \in Volume /\ rule.at \in Addr /\ blobs[rule.vol] \in SUBSET Blob  BY DEF TypeOK, Backend
<1>6. At({"write"}) \in SUBSET InFlight /\ {p \in At({"write"}) : ~req[p].new} \in SUBSET InFlight
      BY DEF At, InFlight
<1>7. Reach \in SUBSET Blob /\ Counted \in SUBSET Blob
      BY <1>5, <1>6, BlobsOfBound DEF Reach, Counted
<1>8. Fresh => Found \in Nat  BY <1>5 DEF TypeOK, Fresh, Found, Plausible, Entry
<1> QED BY <1>1, <1>2, <1>3, <1>4, <1>5, <1>7, <1>8 DEF Measured

(* Handlers add no more than S each.                                       *)
LEMMA BytesOf ==
    ASSUME TypeOK, NEW L, NEW S, Setting(L, S), NEW A \in SUBSET InFlight, NEW C \in SUBSET Blob,
           NEW D \in SUBSET Blob, D \subseteq C \cup BlobsOf(A)
    PROVE  /\ Bytes(D) \in Nat /\ Bytes(C) \in Nat /\ Cardinality(A) \in Nat
           /\ Bytes(D) <= Bytes(C) + Cardinality(A) * S
<1>0. IsFiniteSet(Proc) /\ IsFiniteSet(Blob) /\ S \in Nat /\ \A b \in Blob : Size[b] <= S
      BY DEF Setting, Within
<1>1. /\ BlobsOf(A) \in SUBSET Blob /\ Cardinality(A) \in Nat /\ Cardinality(BlobsOf(A)) \in Nat
      /\ Cardinality(BlobsOf(A)) <= Cardinality(A)
      BY <1>0, BlobsOfBound
<1>2. C \cup BlobsOf(A) \in SUBSET Blob  BY <1>1
<1>3. /\ Bytes(D) \in Nat /\ Bytes(C) \in Nat /\ Bytes(BlobsOf(A)) \in Nat /\ Bytes(C \cup BlobsOf(A)) \in Nat
      /\ Bytes(BlobsOf(A)) <= Cardinality(BlobsOf(A)) * S
      BY <1>0, <1>1, <1>2, BytesBound
<1>4. Bytes(D) <= Bytes(C \cup BlobsOf(A))  BY <1>0, <1>2, BytesMore
<1>5. Bytes(C \cup BlobsOf(A)) <= Bytes(C) + Bytes(BlobsOf(A))  BY <1>0, <1>1, BytesMore
<1>6. S * Cardinality(BlobsOf(A)) <= S * Cardinality(A)  BY <1>0, <1>1, Times
<1>7. Cardinality(BlobsOf(A)) * S <= Cardinality(A) * S
      /\ Cardinality(A) * S \in Int /\ Cardinality(BlobsOf(A)) * S \in Int
      BY <1>0, <1>1, <1>6
<1> DEFINE x == Cardinality(A) * S
           y == Cardinality(BlobsOf(A)) * S
<1>8. y <= x /\ x \in Int /\ y \in Int /\ Bytes(BlobsOf(A)) <= y  BY <1>3, <1>7
<1> HIDE DEF x, y
<1>9. Bytes(D) <= Bytes(C) + x  BY <1>3, <1>4, <1>5, <1>8
<1> QED BY <1>1, <1>3, <1>9 DEF x

(* ... and those after a step.                                             *)
LEMMA MeasuresThen ==
    IsFiniteSet(Proc) => \A L \in Nat : TypeOK' /\ Plausible' => Measured(L)'
<1>1. IsFiniteSet(Proc) => \A L \in Nat : TypeOK /\ Plausible => Measured(L)  BY Measures
<1>2. (IsFiniteSet(Proc) => \A L \in Nat : TypeOK /\ Plausible => Measured(L))'  BY <1>1, PTL
<1> QED BY <1>2

(* A step that takes no scan away and brings neither a blob nor a lower    *)
(* entry keeps what may come.                                              *)
LEMMA FrameStep ==
    ASSUME TypeOK, TypeOK', NEW L, NEW S, Setting(L, S), Bounded(L, S), Plausible',
           \A p \in Proc : p \in Low(L) <=> p \in Low(L)',
           \A p \in Low(L) : req'[p].scan.bytes = req[p].scan.bytes,
           Reach' \subseteq Reach,
           Fresh' /\ Found' <= L =>
               Fresh /\ Found <= L /\ Bytes(Counted') - Found' <= Bytes(Counted) - Found
    PROVE  ReachFits(L, S)' /\ CacheFits(L, S)'
<1>0. IsFiniteSet(Proc) /\ IsFiniteSet(Blob) /\ L \in Nat /\ S \in Nat /\ \A b \in Blob : Size[b] <= S
      BY DEF Setting, Within
<1>1. Low(L)' = Low(L)  BY DEF Low, At
<1>2. Spare(L)' = Spare(L) /\ Held(L)' = Held(L)  BY <1>1 DEF Spare, Held
<1>3. /\ N \in Nat /\ Held(L) \in Nat /\ Reach \in SUBSET Blob /\ Counted \in SUBSET Blob
      /\ Fresh => Found \in Nat
      /\ \A s \in Spare(L) : s \in Nat
      BY <1>0, Measures DEF Bounded, Measured
<1>4. Reach' \in SUBSET Blob /\ Counted' \in SUBSET Blob /\ (Fresh' => Found' \in Nat)
      BY <1>0, MeasuresThen DEF Measured
<1>5. Bytes(Reach') <= Bytes(Reach) /\ Bytes(Reach') \in Nat /\ Bytes(Reach) \in Nat
      /\ Bytes(Counted) \in Nat /\ Bytes(Counted') \in Nat
      BY <1>0, <1>3, <1>4, BytesMore, BytesBound
<1>6. Fill(L, S) \in Int  BY <1>0, <1>3 DEF Fill
<1>7. ReachFits(L, S)'
  <2>1. PICK s \in Spare(L) : Bytes(Reach) <= (N - Held(L)) * Fill(L, S) + s
        BY DEF Bounded, ReachFits
  <2>2. (N - Held(L)) * Fill(L, S) \in Int  BY <1>3, <1>6
  <2>3. Bytes(Reach') <= (N - Held(L)) * Fill(L, S) + s  BY <1>3, <1>5, <2>1, <2>2
  <2> QED BY <1>2, <2>3 DEF ReachFits
<1>8. CacheFits(L, S)'
  <2> SUFFICES ASSUME Fresh', Found' <= L
               PROVE  \E s \in Spare(L) : Bytes(Counted') <= Found' + (N - Held(L) - 1) * Fill(L, S) + s + Held(L) * S
        BY <1>2 DEF CacheFits
  <2>1. Fresh /\ Found <= L /\ Bytes(Counted') - Found' <= Bytes(Counted) - Found  OBVIOUS
  <2>2. PICK s \in Spare(L) : Bytes(Counted) <= Found + (N - Held(L) - 1) * Fill(L, S) + s + Held(L) * S
        BY <2>1 DEF Bounded, CacheFits
  <2>3. (N - Held(L) - 1) * Fill(L, S) \in Int /\ Held(L) * S \in Int  BY <1>0, <1>3, <1>6
  <2>4. Bytes(Counted') <= Found' + (N - Held(L) - 1) * Fill(L, S) + s + Held(L) * S
        BY <1>3, <1>4, <1>5, <2>1, <2>2, <2>3
  <2> QED BY <2>4
<1> QED BY <1>7, <1>8

(* What is on the volume of the rule is no more than what may come to it,  *)
(* ...                                                                     *)
LEMMA ReachDisk ==
    ASSUME TypeOK, NEW L, NEW S, Setting(L, S), Plausible, ReachFits(L, S)
    PROVE  Bytes(blobs[rule.vol]) <= N * Fill(L, S)
<1>0. IsFiniteSet(Proc) /\ IsFiniteSet(Blob) /\ L \in Nat /\ S \in Nat /\ \A b \in Blob : Size[b] <= S
      BY DEF Setting, Within
<1>3. /\ N \in Nat /\ Held(L) \in Nat /\ Held(L) <= N /\ Reach \in SUBSET Blob
      /\ \A s \in Spare(L) : s \in Nat /\ s <= L
      /\ blobs[rule.vol] \in SUBSET Blob /\ Low(L) \in SUBSET Proc
      BY <1>0, Measures DEF Measured
<1>4. Bytes(Reach) \in Nat /\ Bytes(blobs[rule.vol]) \in Nat /\ Bytes(blobs[rule.vol]) <= Bytes(Reach)
  <2>1. blobs[rule.vol] \subseteq Reach  BY DEF Reach
  <2> QED BY <1>0, <1>3, <2>1, BytesMore, BytesBound
<1>5. PICK s \in Spare(L) : Bytes(Reach) <= (N - Held(L)) * Fill(L, S) + s  BY DEF ReachFits
<1>6. Held(L) = 0 => s = 0
  <2>1. IsFiniteSet(Low(L))  BY <1>0, <1>3, FS_Subset
  <2>2. Held(L) = 0 => Low(L) = {}  BY <2>1, FS_EmptySet DEF Held
  <2> QED BY <2>2 DEF Spare
<1> DEFINE K == Fill(L, S)
           h == Held(L)
<1>7. K = L + (N - 1) * S  BY DEF Fill
<1>8. h \in Nat /\ h <= N /\ (h = 0 => s = 0) /\ Bytes(Reach) <= (N - h) * K + s  BY <1>3, <1>5, <1>6
<1>9. s \in Nat /\ s <= L /\ Bytes(Reach) \in Int  BY <1>3, <1>4
<1> HIDE DEF K, h
<1>10. Bytes(Reach) <= N * K  BY <1>0, <1>3, <1>7, <1>8, <1>9, AllSum
<1>11. N * K \in Int  BY <1>0, <1>3, <1>7
<1> QED BY <1>4, <1>10, <1>11 DEF K

(* ... after a step too, ...                                               *)
LEMMA ReachDiskThen ==
    \A L, S : Setting(L, S) /\ TypeOK' /\ Plausible' /\ ReachFits(L, S)'
              => Bytes(blobs'[rule'.vol]) <= N * Fill(L, S)
<1>1. \A L, S : Setting(L, S) /\ TypeOK /\ Plausible /\ ReachFits(L, S)
                => Bytes(blobs[rule.vol]) <= N * Fill(L, S)
      BY ReachDisk
<1>2. (\A L, S : Setting(L, S) /\ TypeOK /\ Plausible /\ ReachFits(L, S)
                => Bytes(blobs[rule.vol]) <= N * Fill(L, S))'
      BY <1>1, PTL
<1> QED BY <1>2

(* ... and so a step that keeps the one keeps the other.                   *)
LEMMA DiskStep ==
    ASSUME TypeOK', NEW L, NEW S, Setting(L, S), Plausible', ReachFits(L, S)', DiskFits(L, S),
           \A v \in Volume : v # rule'.vol => blobs'[v] = blobs[v]
    PROVE  DiskFits(L, S)'
<1>1. Bytes(blobs'[rule'.vol]) <= N * Fill(L, S)  BY ReachDiskThen
<1> QED BY <1>1 DEF DiskFits

-----------------------------------------------------------------------------
(* A step of one handler that writes nothing, has no low scan before or    *)
(* after, and reaches for no blob that is not there.                       *)
LEMMA SmallStep ==
    ASSUME IInv, IInv', NEW L, NEW S, Setting(L, S), Bounded(L, S), NEW p \in Proc,
           UNCHANGED <<blobs, used, rule>>, Plausible',
           \A q \in Proc : q # p => pc'[q] = pc[q] /\ req'[q] = req[q],
           pc'[p] # "idle" => req'[p].be = rule,
           p \notin Low(L), p \notin Low(L)',
           pc'[p] = "write" => ~req'[p].new /\ req'[p].blob \in blobs[rule.vol],
           Fresh' /\ Found' <= L =>
               /\ Fresh /\ Found <= L
               /\ IF pc[p] = "bump" THEN Found' = Found + Size[req[p].blob] ELSE Found' = Found
    PROVE  Bounded(L, S)'
<1> USE DEF IInv, Core
<1>0. IsFiniteSet(Proc) /\ IsFiniteSet(Blob) /\ L \in Nat /\ S \in Nat /\ \A b \in Blob : Size[b] <= S
      BY DEF Setting, Within
<1>1. \A q \in Proc : q \in Low(L) <=> q \in Low(L)'  BY DEF Low, At
<1>2. \A q \in Low(L) : req'[q].scan.bytes = req[q].scan.bytes  BY DEF Low, At
<1>3. Reach' \subseteq Reach  BY DEF Reach, BlobsOf, At
<1>4. Counted' \subseteq Counted \cup (IF pc[p] = "bump" THEN {req[p].blob} ELSE {})
      BY DEF Counted, BlobsOf, At
<1>m. /\ Counted \in SUBSET Blob /\ Counted' \in SUBSET Blob /\ (Fresh => Found \in Nat)
      BY <1>0, Measures, MeasuresThen DEF Bounded, Measured
<1>n. Bytes(Counted) \in Nat /\ Bytes(Counted') \in Nat  BY <1>0, <1>m, BytesBound
<1>5. Fresh' /\ Found' <= L =>
        Fresh /\ Found <= L /\ Bytes(Counted') - Found' <= Bytes(Counted) - Found
  <2> SUFFICES ASSUME Fresh', Found' <= L
               PROVE  Fresh /\ Found <= L /\ Bytes(Counted') - Found' <= Bytes(Counted) - Found
        OBVIOUS
  <2>1. Fresh /\ Found <= L /\ Found \in Nat  BY <1>m
  <2>2. CASE pc[p] # "bump"
    <3>1. Bytes(Counted') <= Bytes(Counted)  BY <1>0, <1>4, <1>m, <2>2, BytesMore
    <3> QED BY <1>n, <2>1, <2>2, <3>1
  <2>3. CASE pc[p] = "bump"
    <3>1. req[p].blob \in Blob /\ Size[req[p].blob] \in Nat  BY <2>3, RequestFields
    <3>2. Bytes({req[p].blob}) = Size[req[p].blob]  BY <3>1, BytesOne
    <3>3. {req[p].blob} \in SUBSET Blob /\ Counted \cup {req[p].blob} \in SUBSET Blob  BY <1>m, <3>1
    <3>4. Counted' \subseteq Counted \cup {req[p].blob}  BY <1>4, <2>3
    <3>5. Bytes(Counted') <= Bytes(Counted \cup {req[p].blob})  BY <1>0, <1>m, <3>3, <3>4, BytesMore
    <3>6. Bytes(Counted \cup {req[p].blob}) <= Bytes(Counted) + Bytes({req[p].blob})
          BY <1>0, <1>m, <3>3, BytesMore
    <3>7. Bytes(Counted \cup {req[p].blob}) \in Nat  BY <1>0, <3>3, BytesBound
    <3>8. Found' = Found + Size[req[p].blob]  BY <2>3
    <3> QED BY <1>n, <2>1, <3>1, <3>2, <3>5, <3>6, <3>7, <3>8
  <2> QED BY <2>2, <2>3
<1>6. ReachFits(L, S)' /\ CacheFits(L, S)'  BY <1>1, <1>2, <1>3, <1>5, FrameStep
<1>7. DiskFits(L, S)'  BY <1>6, DiskStep DEF Bounded
<1>8. Aligned' /\ Exact'  BY DEF Bounded, Aligned, Exact
<1> QED BY <1>6, <1>7, <1>8 DEF Bounded

(* A write begins: a blob that is there is reached for already.            *)
LEMMA BeginBound ==
    ASSUME IInv, IInv', NEW L, NEW S, Setting(L, S), Bounded(L, S),
           NEW p \in Proc, NEW r \in Repo, NEW b \in Blob, NEW n \in Nat,
           NEW check \in {"status", "enforce"}, Begin(p, r, b, n, check)
    PROVE  Bounded(L, S)'
<1> USE DEF IInv, Core
<1>0. /\ pc[p] = "idle" /\ UNCHANGED <<blobs, used, rule, cache>>
      /\ pc'[p] \in {check, "write"} /\ req'[p].be = rule /\ req'[p].blob = b
      /\ pc'[p] = "write" => ~req'[p].new /\ b \in blobs[rule.vol]
      /\ \A q \in Proc : q # p => pc'[q] = pc[q] /\ req'[q] = req[q]
      BY DEF Begin, store, TypeOK
<1>1. Fresh' = Fresh /\ Found' = Found  BY <1>0 DEF Fresh, Found
<1>2. p \notin Low(L) /\ p \notin Low(L)'  BY <1>0 DEF Low, At
<1>3. Plausible'
  <2>1. \A q \in At({"insert"})' : q \in At({"insert"}) /\ req'[q] = req[q]  BY <1>0 DEF At
  <2>2. pc'[p] \notin {"scan", "insert"}  BY <1>0
  <2> QED BY <1>0, <1>1, <2>1, <2>2 DEF Bounded, Plausible
<1> QED BY <1>0, <1>1, <1>2, <1>3, SmallStep

(* The size of an upload is read: nothing that is bounded changes.         *)
LEMMA StatusBound ==
    ASSUME IInv, IInv', NEW L, NEW S, Setting(L, S), Bounded(L, S), NEW p \in Proc, upload_status(p)
    PROVE  Bounded(L, S)'
<1> USE DEF IInv, Core
<1>0. pc[p] = "status" /\ pc' = [pc EXCEPT ![p] = "enforce"] /\ UNCHANGED <<blobs, used, rule, cache>>
      BY DEF upload_status, store
<1>1. /\ pc'[p] = "enforce" /\ req'[p].be = req[p].be
      /\ \A q \in Proc : q # p => pc'[q] = pc[q] /\ req'[q] = req[q]
  <2>1. req[p] \in Request  BY <1>0, RequestFields
  <2>2. PICK n : req' = [req EXCEPT ![p] = [req[p] EXCEPT !.size = n]]  BY DEF upload_status
  <2>3. [req[p] EXCEPT !.size = n].be = req[p].be  BY <2>1 DEF Request
  <2> QED BY <1>0, <2>2, <2>3 DEF TypeOK
<1>2. req'[p].be = rule  BY <1>0, <1>1 DEF Bounded, Aligned
<1>3. Fresh' = Fresh /\ Found' = Found  BY <1>0 DEF Fresh, Found
<1>4. p \notin Low(L) /\ p \notin Low(L)'  BY <1>0, <1>1 DEF Low, At
<1>5. Plausible'
  <2>1. \A q \in At({"insert"})' : q \in At({"insert"}) /\ req'[q] = req[q]  BY <1>1 DEF At
  <2>2. pc'[p] \notin {"scan", "insert"}  BY <1>1
  <2> QED BY <1>0, <1>3, <2>1, <2>2 DEF Bounded, Plausible
<1> QED BY <1>0, <1>1, <1>2, <1>3, <1>4, <1>5, SmallStep

(* A handler ends that has neither a low scan nor an uncounted write.      *)
LEMMA EndBound ==
    ASSUME IInv, IInv', NEW L, NEW S, Setting(L, S), Bounded(L, S),
           NEW p \in Proc, pc[p] # "idle", pc[p] # "bump", p \notin Low(L), Finish(p),
           UNCHANGED <<blobs, used, rule>>,
           cache'[rule.at] # None => Found' >= 0,
           Fresh' /\ Found' <= L => Fresh /\ Found' = Found
    PROVE  Bounded(L, S)'
<1> USE DEF IInv, Core
<1>0. pc'[p] = "idle" /\ \A q \in Proc : q # p => pc'[q] = pc[q] /\ req'[q] = req[q]
      BY DEF Finish, TypeOK
<1>2. p \notin Low(L)'  BY <1>0 DEF Low, At
<1>3. Plausible'
  <2>1. \A q \in At({"insert"})' : q \in At({"insert"}) /\ req'[q] = req[q]  BY <1>0 DEF At
  <2> QED BY <1>0, <2>1 DEF Bounded, Plausible
<1> QED BY <1>0, <1>2, <1>3, SmallStep

(* A write is counted: the entry rises by what is counted now.             *)
LEMMA BumpBound ==
    ASSUME IInv, IInv', NEW L, NEW S, Setting(L, S), Bounded(L, S), Calm,
           NEW p \in Proc, bump(p)
    PROVE  Bounded(L, S)'
<1> USE ConstantsOK DEF IInv, Core
<1>0. /\ pc[p] = "bump" /\ Finish(p) /\ UNCHANGED <<blobs, used, rule>>
      /\ cache' = IF cache[rule.at] = None THEN cache
                  ELSE [cache EXCEPT ![rule.at].value = @ + req[p].size]
      BY DEF bump, store
<1>s. req[p].size = Size[req[p].blob]  BY <1>0 DEF Calm, Sized, Checked
<1>f. Size[req[p].blob] \in Nat  BY <1>0, RequestFields
<1>a. rule.at \in Addr  BY DEF TypeOK, Backend
<1>1. pc'[p] = "idle" /\ \A q \in Proc : q # p => pc'[q] = pc[q] /\ req'[q] = req[q]
      BY <1>0 DEF Finish, TypeOK
<1>2. p \notin Low(L) /\ p \notin Low(L)'  BY <1>0, <1>1 DEF Low, At
<1>3. cache'[rule.at] # None =>
        /\ cache[rule.at] # None /\ Found >= 0 /\ Found \in Int
        /\ cache'[rule.at].fresh = cache[rule.at].fresh
        /\ Found' = Found + Size[req[p].blob]
  <2>1. CASE cache[rule.at] = None  BY <1>0, <2>1
  <2>2. CASE cache[rule.at] # None
    <3> DEFINE e == [cache[rule.at] EXCEPT !.value = @ + Size[req[p].blob]]
    <3>1. cache[rule.at] \in Entry  BY <1>a, <2>2 DEF TypeOK
    <3>2. e.fresh = cache[rule.at].fresh /\ e.value = cache[rule.at].value + Size[req[p].blob]
          BY <1>f, <3>1 DEF Entry
    <3>3. cache' = [cache EXCEPT ![rule.at] = e]  BY <1>0, <1>s, <2>2
    <3>4. Found >= 0  BY <2>2 DEF Bounded, Plausible
    <3>5. Found \in Int  BY <3>1 DEF Found, Entry
    <3> HIDE DEF e
    <3>6. cache'[rule.at] = e  BY <1>a, <3>3 DEF TypeOK
    <3> QED BY <1>0, <2>2, <3>2, <3>4, <3>5, <3>6 DEF Found
  <2> QED BY <2>1, <2>2
<1>4. Plausible'
  <2>1. \A q \in At({"insert"})' : q \in At({"insert"}) /\ req'[q] = req[q]  BY <1>1 DEF At
  <2>2. cache'[rule'.at] # None => Found' >= 0  BY <1>0, <1>f, <1>3
  <2>3. pc'[p] \notin {"scan", "insert"}  BY <1>1
  <2> QED BY <2>1, <2>2, <2>3 DEF Bounded, Plausible
<1>5. Fresh' /\ Found' <= L => Fresh /\ Found <= L /\ Found' = Found + Size[req[p].blob]
  <2>1. L \in Nat  BY DEF Setting
  <2>2. Fresh' => Fresh /\ cache'[rule.at] # None  BY <1>0, <1>3 DEF Fresh
  <2> QED BY <1>f, <1>3, <2>1, <2>2
<1> QED BY <1>0, <1>1, <1>2, <1>4, <1>5, SmallStep

(* An entry that is not fresh lets nothing pass.                           *)
LEMMA ExpireBound ==
    ASSUME IInv, IInv', NEW L, NEW S, Setting(L, S), Bounded(L, S), NEW a \in Addr, Expire(a)
    PROVE  Bounded(L, S)'
<1> USE DEF IInv, Core
<1>0. /\ cache[a] # None /\ cache' = [cache EXCEPT ![a].fresh = FALSE]
      /\ UNCHANGED <<blobs, used, rule, pc, req>>
      BY DEF Expire, store, handlers
<1>1. cache'[rule.at] # None => cache[rule.at] # None /\ Found' = Found
  <2>1. cache[a] \in Entry /\ rule.at \in Addr  BY <1>0 DEF TypeOK, Backend
  <2> DEFINE e == [cache[a] EXCEPT !.fresh = FALSE]
  <2>2. e.value = cache[a].value  BY <2>1 DEF Entry
  <2>3. cache' = [cache EXCEPT ![a] = e]  BY <1>0
  <2> HIDE DEF e
  <2> QED BY <1>0, <2>1, <2>2, <2>3 DEF Found, TypeOK
<1>2. Fresh' => Fresh
  <2>1. cache[a] \in Entry /\ rule.at \in Addr  BY <1>0 DEF TypeOK, Backend
  <2> QED BY <1>0, <2>1 DEF Fresh, TypeOK, Entry
<1>3. Plausible'  BY <1>0, <1>1, <1>2 DEF Bounded, Plausible, At
<1>4. Reach' = Reach /\ Counted' = Counted /\ Low(L)' = Low(L)
      BY <1>0 DEF Reach, Counted, Low, BlobsOf, At
<1>5. Fresh' => cache'[rule'.at] # None  BY DEF Fresh
<1>n. IsFiniteSet(Proc) /\ IsFiniteSet(Blob) /\ L \in Nat /\ S \in Nat /\ \A c \in Blob : Size[c] <= S
      BY DEF Setting, Within
<1>c. Counted \in SUBSET Blob /\ (Fresh => Found \in Nat)
      BY <1>n, Measures DEF Bounded, Measured
<1>d. Bytes(Counted) \in Nat  BY <1>c, <1>n, BytesBound
<1>e. Fresh' /\ Found' <= L =>
        Fresh /\ Found <= L /\ Bytes(Counted') - Found' <= Bytes(Counted) - Found
      BY <1>1, <1>2, <1>4, <1>5, <1>c, <1>d, <1>0
<1>f. Reach' \subseteq Reach /\ \A p \in Proc : p \in Low(L) <=> p \in Low(L)'  BY <1>4
<1>6. ReachFits(L, S)' /\ CacheFits(L, S)'  BY <1>0, <1>3, <1>e, <1>f, FrameStep
<1>7. DiskFits(L, S)'  BY <1>0, <1>3, <1>6, DiskStep DEF Bounded
<1> QED BY <1>0, <1>3, <1>6, <1>7 DEF Bounded, Aligned, Exact

(* The usage follows the blobs.                                            *)
LEMMA ExactStep ==
    ASSUME TypeOK, NEW L, NEW S, Setting(L, S), Exact, NEW b \in Blob
    PROVE  /\ blobs' = [blobs EXCEPT ![rule.vol] = @ \cup {b}]
              /\ used' = [used EXCEPT ![rule.vol] = @ + IF b \in blobs[rule.vol] THEN 0 ELSE Size[b]]
              => Exact'
           /\ b \in blobs[rule.vol] /\ blobs' = [blobs EXCEPT ![rule.vol] = @ \ {b}]
              /\ used' = [used EXCEPT ![rule.vol] = @ - Size[b]]
              => Exact'
<1> USE ConstantsOK
<1> DEFINE v == rule.vol
<1>0. IsFiniteSet(Blob) /\ S \in Nat /\ \A c \in Blob : Size[c] <= S  BY DEF Setting, Within
<1>1. v \in Volume /\ blobs[v] \in SUBSET Blob /\ used[v] = Bytes(blobs[v]) /\ Size[b] \in Nat
      /\ used[v] \in Int
      BY DEF TypeOK, Backend, Exact
<1>2. ASSUME blobs' = [blobs EXCEPT ![v] = @ \cup {b}],
             used' = [used EXCEPT ![v] = @ + IF b \in blobs[v] THEN 0 ELSE Size[b]]
      PROVE  Exact'
  <2>1. blobs'[v] = blobs[v] \cup {b} /\ used'[v] = used[v] + IF b \in blobs[v] THEN 0 ELSE Size[b]
        BY <1>1, <1>2 DEF TypeOK
  <2>2. used'[v] = Bytes(blobs'[v])
    <3>1. CASE b \in blobs[v]
      <4>1. blobs'[v] = blobs[v] /\ used'[v] = used[v]  BY <1>1, <2>1, <3>1
      <4> QED BY <1>1, <4>1
    <3>2. CASE b \notin blobs[v]
      <4>1. Bytes(blobs[v] \cup {b}) = Bytes(blobs[v]) + Size[b]  BY <1>0, <1>1, <3>2, BytesAdd
      <4> QED BY <1>1, <2>1, <3>2, <4>1
    <3> QED BY <3>1, <3>2
  <2> QED BY <1>2, <2>2 DEF Exact, TypeOK
<1>3. ASSUME b \in blobs[v], blobs' = [blobs EXCEPT ![v] = @ \ {b}],
             used' = [used EXCEPT ![v] = @ - Size[b]]
      PROVE  Exact'
  <2>1. blobs'[v] = blobs[v] \ {b} /\ used'[v] = used[v] - Size[b]
        BY <1>1, <1>3 DEF TypeOK
  <2>2. used'[v] = Bytes(blobs'[v])
    <3>1. blobs[v] \ {b} \in SUBSET Blob /\ b \notin blobs[v] \ {b} /\ (blobs[v] \ {b}) \cup {b} = blobs[v]
          BY <1>1, <1>3
    <3>2. Bytes((blobs[v] \ {b}) \cup {b}) = Bytes(blobs[v] \ {b}) + Size[b]
          BY <1>0, <3>1, BytesAdd
    <3>3. Bytes(blobs[v] \ {b}) \in Nat  BY <1>0, <3>1, BytesBound
    <3>4. Bytes(blobs[v]) = Bytes(blobs[v] \ {b}) + Size[b]  BY <3>1, <3>2
    <3>5. Bytes(blobs[v] \ {b}) = used[v] - Size[b]  BY <1>1, <3>3, <3>4
    <3> QED BY <2>1, <3>5
  <2> QED BY <1>3, <2>2 DEF Exact, TypeOK
<1> QED BY <1>2, <1>3

(* A write brings what was reached for, and it is to be counted from now   *)
(* on.                                                                     *)
LEMMA WriteBound ==
    ASSUME IInv, IInv', NEW L, NEW S, Setting(L, S), Bounded(L, S), NEW p \in Proc, Write(p)
    PROVE  Bounded(L, S)'
<1> USE DEF IInv, Core
<1> DEFINE b == req[p].blob
<1>0. /\ pc[p] = "write" /\ UNCHANGED <<rule, cache>>
      /\ blobs' = [blobs EXCEPT ![rule.vol] = @ \cup {b}]
      /\ used' = [used EXCEPT ![rule.vol] = @ + IF b \in blobs[rule.vol] THEN 0 ELSE Size[b]]
      /\ IF req[p].new THEN Goto(p, "bump") ELSE Finish(p)
      BY DEF Write
<1>1. /\ \A q \in Proc : q # p => pc'[q] = pc[q] /\ req'[q] = req[q]
      /\ \/ pc'[p] = "bump" /\ req'[p] = req[p] /\ req[p].new
         \/ pc'[p] = "idle" /\ ~req[p].new
      BY <1>0 DEF Goto, Finish, TypeOK
<1>b. b \in Blob /\ rule.vol \in Volume  BY <1>0, RequestFields DEF TypeOK, Backend
<1>2. /\ blobs'[rule.vol] = blobs[rule.vol] \cup {b}
      /\ \A v \in Volume : v # rule.vol => blobs'[v] = blobs[v]
      BY <1>0, <1>b DEF TypeOK
<1>3. Exact'  BY <1>0, <1>b, ExactStep DEF Bounded
<1>4. Fresh' = Fresh /\ Found' = Found /\ cache'[rule'.at] = cache[rule.at]  BY <1>0 DEF Fresh, Found
<1>5. Plausible'
  <2>1. \A q \in At({"insert"})' : q \in At({"insert"}) /\ req'[q] = req[q]  BY <1>1 DEF At
  <2>2. pc'[p] \notin {"scan", "insert"}  BY <1>1
  <2> QED BY <1>4, <2>1, <2>2 DEF Bounded, Plausible
<1>6. Reach' \subseteq Reach  BY <1>0, <1>1, <1>2 DEF Reach, BlobsOf, At
<1>7. Counted' \subseteq Counted
  <2>1. CASE req[p].new
    <3>1. pc'[p] = "bump" /\ req'[p].blob = b /\ pc[p] = "write"  BY <1>0, <1>1, <2>1
    <3>2. p \in At({"bump"})' /\ b \in BlobsOf(At({"bump"}))'  BY <3>1 DEF At, BlobsOf
    <3>3. At({"bump"}) \subseteq At({"bump"})' /\ \A q \in At({"bump"}) : req'[q] = req[q]
          BY <1>0, <1>1 DEF At
    <3> QED BY <1>0, <1>1, <1>2, <2>1, <3>2, <3>3 DEF Counted, BlobsOf, At
  <2>2. CASE ~req[p].new
    <3>1. pc'[p] = "idle"  BY <1>1, <2>2
    <3>2. p \in At({"write"})  BY <1>0 DEF At
    <3> QED BY <1>0, <1>1, <1>2, <2>2, <3>1, <3>2 DEF Counted, BlobsOf, At
  <2> QED BY <2>1, <2>2
<1>8. \A q \in Proc : q \in Low(L) <=> q \in Low(L)'  BY <1>0, <1>1 DEF Low, At
<1>9. \A q \in Low(L) : req'[q].scan.bytes = req[q].scan.bytes  BY <1>0, <1>1 DEF Low, At
<1>n. IsFiniteSet(Proc) /\ IsFiniteSet(Blob) /\ L \in Nat /\ S \in Nat /\ \A c \in Blob : Size[c] <= S
      BY DEF Setting, Within
<1>c. Counted \in SUBSET Blob /\ Counted' \in SUBSET Blob /\ (Fresh => Found \in Nat)
      BY <1>5, <1>n, Measures, MeasuresThen DEF Bounded, Measured
<1>10. Bytes(Counted') <= Bytes(Counted) /\ Bytes(Counted) \in Nat /\ Bytes(Counted') \in Nat
      BY <1>7, <1>c, <1>n, BytesMore, BytesBound
<1>11. ReachFits(L, S)' /\ CacheFits(L, S)'
      BY <1>4, <1>5, <1>6, <1>8, <1>9, <1>10, <1>c, FrameStep
<1>12. DiskFits(L, S)'  BY <1>0, <1>2, <1>5, <1>11, DiskStep DEF Bounded
<1>13. Aligned'  BY <1>0, <1>1 DEF Bounded, Aligned
<1> QED BY <1>3, <1>5, <1>11, <1>12, <1>13 DEF Bounded

(* A delete that no scan misses lowers what it touches.                    *)
LEMMA DeleteBound ==
    ASSUME IInv, IInv', NEW L, NEW S, Setting(L, S), Bounded(L, S),
           NEW b \in Blob, blob_delete(b, {})
    PROVE  Bounded(L, S)'
<1> USE DEF IInv, Core
<1>0. /\ b \in blobs[rule.vol]
      /\ blobs' = [blobs EXCEPT ![rule.vol] = @ \ {b}]
      /\ used' = [used EXCEPT ![rule.vol] = @ - Size[b]]
      /\ UNCHANGED <<rule, cache, pc>>
      /\ \A p \in Proc : req'[p] = req[p]
      BY DEF blob_delete
<1>b. rule.vol \in Volume  BY DEF TypeOK, Backend
<1>1. /\ blobs'[rule.vol] = blobs[rule.vol] \ {b}
      /\ \A v \in Volume : v # rule.vol => blobs'[v] = blobs[v]
      BY <1>0, <1>b DEF TypeOK
<1>2. Exact'  BY <1>0, <1>b, ExactStep DEF Bounded
<1>3. Plausible'  BY <1>0 DEF Bounded, Plausible, Found, Fresh, At
<1>4. Reach' \subseteq Reach /\ Counted' \subseteq Counted
      BY <1>0, <1>1 DEF Reach, Counted, BlobsOf, At
<1>5. /\ \A p \in Proc : p \in Low(L) <=> p \in Low(L)'
      /\ \A p \in Low(L) : req'[p].scan.bytes = req[p].scan.bytes
      BY <1>0 DEF Low, At
<1>6. Fresh' = Fresh /\ Found' = Found  BY <1>0 DEF Fresh, Found
<1>n. IsFiniteSet(Proc) /\ IsFiniteSet(Blob) /\ L \in Nat /\ S \in Nat /\ \A c \in Blob : Size[c] <= S
      BY DEF Setting, Within
<1>c. Counted \in SUBSET Blob /\ Counted' \in SUBSET Blob /\ (Fresh => Found \in Nat)
      BY <1>3, <1>n, Measures, MeasuresThen DEF Bounded, Measured
<1>7. Bytes(Counted') <= Bytes(Counted) /\ Bytes(Counted) \in Nat /\ Bytes(Counted') \in Nat
      BY <1>4, <1>c, <1>n, BytesMore, BytesBound
<1>8. Fresh' /\ Found' <= L =>
        Fresh /\ Found <= L /\ Bytes(Counted') - Found' <= Bytes(Counted) - Found
      BY <1>6, <1>7, <1>c
<1>9. ReachFits(L, S)' /\ CacheFits(L, S)'  BY <1>3, <1>4, <1>5, <1>8, FrameStep
<1>10. DiskFits(L, S)'  BY <1>0, <1>1, <1>3, <1>9, DiskStep DEF Bounded
<1>11. Aligned'  BY <1>0 DEF Bounded, Aligned
<1> QED BY <1>2, <1>3, <1>9, <1>10, <1>11 DEF Bounded

(* A rule repointed between the writes finds no entry and no scans.        *)
LEMMA RepointBound ==
    ASSUME IInv, IInv', NEW L, NEW S, Setting(L, S), Bounded(L, S), Calm',
           NEW v \in Volume, NEW a \in Addr, Repoint(v, a)
    PROVE  Bounded(L, S)'
<1> USE DEF IInv, Core
<1>0. /\ rule' = [vol |-> v, at |-> a] /\ UNCHANGED <<blobs, used, cache, pc, req>>
      /\ cache[a] = None /\ InFlight = {}
      BY DEF Repoint, store, handlers, Calm
<1>1. \A p \in Proc : pc'[p] = "idle"  BY <1>0 DEF InFlight
<1>2. ~Fresh' /\ cache'[rule'.at] = None /\ rule'.vol = v  BY <1>0 DEF Fresh
<1>3. Plausible'  BY <1>1, <1>2 DEF Plausible, At
<1>4. Low(L)' = {} /\ Reach' = blobs[v]  BY <1>0, <1>1 DEF Low, Reach, At, BlobsOf
<1>5. Spare(L)' = {0} /\ Held(L)' = 0  BY <1>4, FS_EmptySet DEF Spare, Held
<1>n. IsFiniteSet(Proc) /\ IsFiniteSet(Blob) /\ L \in Nat /\ S \in Nat /\ \A c \in Blob : Size[c] <= S
      BY DEF Setting, Within
<1>6. N \in Nat  BY <1>n, FS_CardinalityType DEF N
<1>7. ReachFits(L, S)'
  <2>1. Bytes(blobs[v]) <= N * Fill(L, S)  BY DEF Bounded, DiskFits
  <2>2. Fill(L, S) \in Int  BY <1>6, <1>n DEF Fill
  <2>3. (N - 0) * Fill(L, S) + 0 = N * Fill(L, S)  BY <1>6, <2>2
  <2> QED BY <1>4, <1>5, <2>1, <2>3 DEF ReachFits
<1>8. CacheFits(L, S)'  BY <1>2 DEF CacheFits
<1>9. DiskFits(L, S)'  BY <1>0, <1>3, <1>7, DiskStep DEF Bounded
<1>10. Aligned' /\ Exact'  BY <1>0, <1>1 DEF Bounded, Aligned, Exact
<1> QED BY <1>3, <1>7, <1>8, <1>9, <1>10 DEF Bounded

(* A low scan ends: what was to spare is to spare still, or was that scan. *)
LEMMA LowLeaves ==
    ASSUME IInv, IInv', NEW L, NEW S, Setting(L, S), Plausible, NEW p \in Low(L),
           pc'[p] # "insert",
           \A q \in Proc : q # p => pc'[q] = pc[q] /\ req'[q] = req[q]
    PROVE  /\ Held(L)' = Held(L) - 1 /\ Held(L) \in Nat /\ Held(L) >= 1
           /\ req[p].scan.bytes \in Nat /\ req[p].scan.bytes <= L
           /\ \A s \in Spare(L) : \E t \in Spare(L)' : t \in Nat /\ (s = t \/ s = req[p].scan.bytes)
<1> USE DEF IInv, Core
<1>1. Low(L)' = Low(L) \ {p}  BY DEF Low, At
<1>n. IsFiniteSet(Proc) /\ L \in Nat  BY DEF Setting
<1>2. IsFiniteSet(Low(L))
  <2>1. Low(L) \in SUBSET Proc  BY DEF Low, At
  <2> QED BY <1>n, <2>1, FS_Subset
<1>3. Held(L)' = Held(L) - 1 /\ Held(L) \in Nat
      BY <1>1, <1>2, FS_RemoveElement, FS_CardinalityType DEF Held
<1>4. Held(L) >= 1
  <2>1. Held(L) # 0  BY <1>2, FS_EmptySet DEF Held
  <2> QED BY <1>3, <2>1
<1>5. \A q \in Low(L) : req[q].scan.bytes \in Nat /\ req[q].scan.bytes <= L
      BY <1>n, RequestFields DEF Low, At, Plausible
<1>6. \A q \in Low(L)' : q \in Low(L) /\ req'[q].scan.bytes = req[q].scan.bytes
      BY <1>1 DEF Low, At
<1>7. ASSUME NEW s \in Spare(L)
      PROVE  \E t \in Spare(L)' : t \in Nat /\ (s = t \/ s = req[p].scan.bytes)
  <2>1. PICK q \in Low(L) : s = req[q].scan.bytes  BY DEF Spare
  <2>2. CASE q # p
    <3>1. q \in Low(L)' /\ req'[q].scan.bytes = s  BY <1>1, <1>6, <2>1, <2>2
    <3>2. s \in Spare(L)'  BY <3>1 DEF Spare
    <3> QED BY <1>5, <2>1, <3>2
  <2>3. CASE q = p
    <3>1. CASE Low(L)' = {}
      <4>1. 0 \in Spare(L)'  BY <3>1 DEF Spare
      <4> QED BY <2>1, <2>3, <4>1
    <3>2. CASE Low(L)' # {}
      <4>1. PICK r \in Low(L)' : TRUE  BY <3>2
      <4>2. req'[r].scan.bytes \in Spare(L)' /\ req'[r].scan.bytes \in Nat
            BY <1>5, <1>6, <4>1 DEF Spare
      <4> QED BY <2>1, <2>3, <4>2
    <3> QED BY <3>1, <3>2
  <2> QED BY <2>2, <2>3
<1> QED BY <1>3, <1>4, <1>5, <1>7

(* The fill that was kept for it may be used up, and what it was checked   *)
(* for.                                                                    *)
LEMMA LowReach ==
    ASSUME IInv, IInv', NEW L, NEW S, Setting(L, S), Bounded(L, S), NEW p \in Low(L),
           pc'[p] # "insert", rule' = rule,
           \A q \in Proc : q # p => pc'[q] = pc[q] /\ req'[q] = req[q],
           NEW z \in Nat, req[p].scan.bytes + z <= L,
           Reach' \in SUBSET Blob, Bytes(Reach') <= Bytes(Reach) + z
    PROVE  ReachFits(L, S)'
<1> USE DEF IInv, Core
<1>n. IsFiniteSet(Proc) /\ IsFiniteSet(Blob) /\ L \in Nat /\ S \in Nat /\ \A c \in Blob : Size[c] <= S
      BY DEF Setting, Within
<1>1. /\ Held(L)' = Held(L) - 1 /\ Held(L) \in Nat /\ Held(L) >= 1
      /\ req[p].scan.bytes \in Nat
      /\ \A s \in Spare(L) : \E t \in Spare(L)' : t \in Nat /\ (s = t \/ s = req[p].scan.bytes)
      BY LowLeaves DEF Bounded
<1>2. N \in Nat /\ Held(L) <= N /\ Reach \in SUBSET Blob /\ (\A s \in Spare(L) : s \in Nat)
      BY <1>n, Measures DEF Bounded, Measured
<1>3. Bytes(Reach) \in Nat /\ Bytes(Reach') \in Nat  BY <1>n, <1>2, BytesBound
<1>4. PICK s \in Spare(L) : Bytes(Reach) <= (N - Held(L)) * Fill(L, S) + s
      BY DEF Bounded, ReachFits
<1>5. PICK t \in Spare(L)' : t \in Nat /\ (s = t \/ s = req[p].scan.bytes)  BY <1>1
<1> DEFINE K == Fill(L, S)
           h == Held(L)
           x == req[p].scan.bytes
           R == Bytes(Reach')
           O == Bytes(Reach)
<1>6. /\ K = L + (N - 1) * S /\ h \in Int /\ N >= 1 /\ x \in Nat /\ x + z <= L
      /\ s \in Int /\ (s = t \/ s = x) /\ R \in Int /\ O \in Int
      /\ O <= (N - h) * K + s /\ R <= O + z
      BY <1>1, <1>2, <1>3, <1>4, <1>5 DEF Fill
<1> HIDE DEF K, h, x, R, O
<1>7. K \in Int /\ (N - h) * K \in Int
  <2>1. K \in Int  BY <1>n, <1>2, <1>6
  <2> QED BY <1>2, <1>6, <2>1
<1>8. R <= (N - h) * K + s + z  BY <1>6, <1>7
<1>9. R <= (N - (h - 1)) * K + t  BY <1>n, <1>2, <1>5, <1>6, <1>7, <1>8, LeaveSum
<1>10. Bytes(Reach') <= (N - Held(L)') * Fill(L, S) + t  BY <1>1, <1>9 DEF R, h, K
<1> QED BY <1>5, <1>10 DEF ReachFits

(* A handler is dropped; with a low scan, it gives its fill back.          *)
LEMMA DropBound ==
    ASSUME IInv, IInv', NEW L, NEW S, Setting(L, S), Bounded(L, S), Calm', NEW p \in Proc, Drop(p)
    PROVE  Bounded(L, S)'
<1> USE DEF IInv, Core
<1>0. pc[p] # "idle" /\ pc[p] # "bump" /\ Finish(p) /\ UNCHANGED <<blobs, used, rule, cache>>
      BY DEF Drop, store, Calm
<1>a. Fresh' = Fresh /\ Found' = Found /\ cache'[rule'.at] = cache[rule.at]  BY <1>0 DEF Fresh, Found
<1>1. CASE p \notin Low(L)
  <2>1. cache'[rule.at] # None => Found' >= 0  BY <1>0, <1>a DEF Bounded, Plausible
  <2> QED BY <1>0, <1>1, <1>a, <2>1, EndBound
<1>2. CASE p \in Low(L)
  <2>0. /\ pc[p] = "insert" /\ pc'[p] = "idle"
        /\ \A q \in Proc : q # p => pc'[q] = pc[q] /\ req'[q] = req[q]
        BY <1>0, <1>2 DEF Finish, TypeOK, Low, At
  <2>n. IsFiniteSet(Proc) /\ IsFiniteSet(Blob) /\ L \in Nat /\ S \in Nat /\ \A c \in Blob : Size[c] <= S
        BY DEF Setting, Within
  <2>1. Plausible'
    <3>1. \A q \in At({"insert"})' : q \in At({"insert"}) /\ req'[q] = req[q]  BY <2>0 DEF At
    <3> QED BY <1>a, <2>0, <3>1 DEF Bounded, Plausible
  <2>2. Reach' \subseteq Reach /\ Counted' \subseteq Counted
        BY <1>0, <2>0 DEF Reach, Counted, BlobsOf, At
  <2>3. /\ N \in Nat /\ Held(L) \in Nat /\ (\A s \in Spare(L) : s \in Nat) /\ (Fresh => Found \in Nat)
        /\ Reach \in SUBSET Blob /\ Counted \in SUBSET Blob /\ Reach' \in SUBSET Blob /\ Counted' \in SUBSET Blob
        BY <2>n, <2>1, Measures, MeasuresThen DEF Bounded, Measured
  <2>4. /\ Bytes(Reach') <= Bytes(Reach) /\ Bytes(Reach) \in Nat /\ Bytes(Reach') \in Nat
        /\ Bytes(Counted') <= Bytes(Counted) /\ Bytes(Counted) \in Nat /\ Bytes(Counted') \in Nat
        BY <2>n, <2>2, <2>3, BytesMore, BytesBound
  <2>5. /\ Held(L)' = Held(L) - 1
        /\ req[p].scan.bytes \in Nat /\ req[p].scan.bytes <= L
        /\ \A s \in Spare(L) : \E t \in Spare(L)' : t \in Nat /\ (s = t \/ s = req[p].scan.bytes)
        BY <1>2, <2>0, LowLeaves DEF Bounded
  <2>6. ReachFits(L, S)'
    <3>1. req[p].scan.bytes + 0 <= L /\ Bytes(Reach') <= Bytes(Reach) + 0 /\ pc'[p] # "insert"
          BY <2>0, <2>4, <2>5
    <3>2. 0 \in Nat  OBVIOUS
    <3> QED BY <1>0, <1>2, <2>0, <2>3, <3>1, <3>2, LowReach
  <2>7. CacheFits(L, S)'
    <3> SUFFICES ASSUME Fresh, Found <= L
                 PROVE  \E t \in Spare(L)' :
                          Bytes(Counted') <= Found + (N - Held(L)' - 1) * Fill(L, S) + t + Held(L)' * S
          BY <1>a DEF CacheFits
    <3>1. N >= 2
      <4>1. PICK q \in Proc : pc[q] \notin {"scan", "insert"}  BY DEF Bounded, Plausible
      <4>2. p # q  BY <2>0, <4>1
      <4>3. {} \in SUBSET Proc /\ {} \cap {} = {} /\ p \in Proc \ ({} \cup {}) /\ q \in Proc \ ({} \cup {})
            OBVIOUS
      <4>4. Cardinality({}) + Cardinality({}) + 2 <= N  BY <2>n, <4>2, <4>3, Apart
      <4> QED BY <2>3, <4>4, FS_EmptySet
    <3>2. PICK s \in Spare(L) : Bytes(Counted) <= Found + (N - Held(L) - 1) * Fill(L, S) + s + Held(L) * S
          BY DEF Bounded, CacheFits
    <3>3. PICK t \in Spare(L)' : t \in Nat /\ (s = t \/ s = req[p].scan.bytes)  BY <2>5
    <3> DEFINE K == Fill(L, S)
               h == Held(L)
               x == req[p].scan.bytes
               C == Bytes(Counted')
               O == Bytes(Counted)
               c == Found
    <3>4. /\ K = L + (N - 1) * S /\ h \in Int /\ x \in Nat /\ x <= L /\ s \in Int /\ (s = t \/ s = x)
          /\ C \in Int /\ O \in Int /\ c \in Int /\ C <= O
          /\ O <= c + (N - h - 1) * K + s + h * S
          BY <2>3, <2>4, <2>5, <3>2, <3>3 DEF Fill
    <3> HIDE DEF K, h, x, C, O, c
    <3>5. K \in Int /\ (N - h - 1) * K \in Int /\ h * S \in Int
      <4>1. K \in Int  BY <2>n, <2>3, <3>4
      <4> QED BY <2>n, <2>3, <3>4, <4>1
    <3>6. C <= c + (N - h - 1) * K + s + h * S  BY <3>4, <3>5
    <3>7. C <= c + (N - (h - 1) - 1) * K + t + (h - 1) * S
          BY <2>n, <2>3, <3>1, <3>3, <3>4, <3>5, <3>6, LeaveCacheSum
    <3>8. Bytes(Counted') <= Found + (N - Held(L)' - 1) * Fill(L, S) + t + Held(L)' * S
          BY <2>5, <3>7 DEF K, h, C, c
    <3> QED BY <3>3, <3>8
  <2>8. DiskFits(L, S)'  BY <1>0, <2>1, <2>6, DiskStep DEF Bounded
  <2>9. Aligned' /\ Exact'  BY <1>0, <2>0 DEF Bounded, Aligned, Exact
  <2> QED BY <2>1, <2>6, <2>7, <2>8, <2>9 DEF Bounded
<1> QED BY <1>1, <1>2

(* A scan that finds room keeps a fill: what may come is what it has found *)
(* and the writes under way.                                               *)
LEMMA ScanBound ==
    ASSUME IInv, IInv', NEW L, NEW S, Setting(L, S), Bounded(L, S), NEW p \in Proc, Scan(p)
    PROVE  Bounded(L, S)'
<1> USE DEF IInv, Core
<1> DEFINE u == Bytes(blobs[rule.vol])
<1>n. IsFiniteSet(Proc) /\ IsFiniteSet(Blob) /\ L \in Nat /\ S \in Nat /\ \A c \in Blob : Size[c] <= S
      BY DEF Setting, Within
<1>0. /\ pc[p] = "scan" /\ pc' = [pc EXCEPT ![p] = "insert"]
      /\ UNCHANGED <<blobs, used, rule, cache>>
      BY DEF Scan, store
<1>b. req[p] \in Request /\ req[p].be = rule /\ rule.vol \in Volume /\ blobs[rule.vol] \in SUBSET Blob
      BY <1>0, RequestFields DEF Bounded, Aligned, TypeOK, Backend
<1>u. used[rule.vol] = u /\ u \in Nat  BY <1>b, <1>n, BytesBound DEF Bounded, Exact
<1>1. /\ pc'[p] = "insert" /\ req'[p].scan.bytes = u /\ req'[p].be = rule
      /\ \A q \in Proc : q # p => pc'[q] = pc[q] /\ req'[q] = req[q]
  <2> DEFINE s == [listed |-> blobs[rule.vol], bytes |-> used[rule.vol]]
             x == [req[p] EXCEPT !.scan = s]
  <2>1. s \in Listing /\ s.bytes = u  BY <1>b, <1>u DEF Listing
  <2>2. x.scan = s /\ x.be = rule  BY <1>b, <2>1, RequestScan, ZenonT(40)
  <2>3. req' = [req EXCEPT ![p] = x]  BY <1>b DEF Scan
  <2> HIDE DEF x, s
  <2> QED BY <1>0, <2>1, <2>2, <2>3 DEF TypeOK
<1>a. Fresh' = Fresh /\ Found' = Found /\ cache'[rule'.at] = cache[rule.at]  BY <1>0 DEF Fresh, Found
<1>2. Plausible'
  <2>1. \A q \in At({"insert"})' : q # p => q \in At({"insert"}) /\ req'[q] = req[q]  BY <1>1 DEF At
  <2>2. \A q \in At({"insert"})' : req'[q].scan.bytes >= 0
    <3>1. \A q \in At({"insert"}) : req[q].scan.bytes >= 0  BY DEF Bounded, Plausible
    <3> QED BY <1>1, <1>u, <2>1, <3>1
  <2>3. \A q \in Proc : pc[q] \notin {"scan", "insert"} => pc'[q] = pc[q]  BY <1>0, <1>1
  <2> QED BY <1>a, <2>2, <2>3 DEF Bounded, Plausible
<1>3. p \notin Low(L)  BY <1>0 DEF Low, At
<1> HIDE DEF u
<1>4. CASE u > L
  <2>1. p \notin Low(L)'
    <3>1. ~(u <= L)  BY <1>n, <1>u, <1>4
    <3> QED BY <1>1, <3>1 DEF Low, At
  <2> QED BY <1>0, <1>1, <1>2, <1>3, <1>a, <2>1, SmallStep
<1>5. CASE u <= L
  <2>1. Low(L)' = Low(L) \cup {p}  BY <1>0, <1>1, <1>5 DEF Low, At
  <2>2. Low(L) \in SUBSET Proc /\ At({"write"}) \in SUBSET Proc /\ At({"write"}) \in SUBSET InFlight
        /\ Low(L) \cap At({"write"}) = {} /\ p \in Proc \ (Low(L) \cup At({"write"}))
        BY <1>0, <1>3 DEF Low, At, InFlight
  <2>3. /\ N \in Nat /\ Held(L) \in Nat /\ Cardinality(At({"write"})) \in Nat
        /\ Cardinality(At({"write"})) + Held(L) + 1 <= N
        BY <1>n, <2>2, Apart DEF Held
  <2>4. Held(L)' = Held(L) + 1
    <3>1. IsFiniteSet(Low(L))  BY <1>n, <2>2, FS_Subset
    <3> QED BY <1>3, <2>1, <3>1, FS_AddElement DEF Held
  <2>5. u \in Spare(L)'
    <3>1. p \in Low(L)'  BY <2>1
    <3> QED BY <1>1, <3>1 DEF Spare
  <2>6. Reach' = Reach /\ Counted' = Counted
        BY <1>0, <1>1 DEF Reach, Counted, BlobsOf, At
  <2>7. /\ Reach \in SUBSET Blob /\ Reach \subseteq blobs[rule.vol] \cup BlobsOf(At({"write"}))
        /\ Counted \in SUBSET Blob /\ Counted \subseteq blobs[rule.vol] \cup BlobsOf(At({"write"}))
    <3>1. Reach \in SUBSET Blob /\ Counted \in SUBSET Blob
          BY <1>n, Measures DEF Bounded, Measured
    <3> QED BY <3>1 DEF Reach, Counted, BlobsOf
  <2>8. /\ Bytes(Reach) \in Nat /\ Bytes(Reach) <= u + Cardinality(At({"write"})) * S
        /\ Bytes(Counted) \in Nat /\ Bytes(Counted) <= u + Cardinality(At({"write"})) * S
        BY <1>b, <2>2, <2>7, BytesOf DEF u
  <2> DEFINE K == Fill(L, S)
             h == Held(L)
             w == Cardinality(At({"write"}))
             R == Bytes(Reach)
             C == Bytes(Counted)
             c == Found
  <2>9. /\ K = L + (N - 1) * S /\ h \in Nat /\ w \in Nat /\ w + h + 1 <= N
        /\ R \in Int /\ R <= u + w * S /\ C \in Int /\ C <= u + w * S
        BY <2>3, <2>8 DEF Fill
  <2>10. Fresh => h + 2 <= N /\ c \in Nat
    <3> SUFFICES ASSUME Fresh PROVE h + 2 <= N /\ c \in Nat  OBVIOUS
    <3>1. PICK q \in Proc : pc[q] \notin {"scan", "insert"}  BY DEF Bounded, Plausible
    <3>2. p # q /\ q \in Proc \ (Low(L) \cup {}) /\ p \in Proc \ (Low(L) \cup {})
          BY <1>0, <1>3, <3>1 DEF Low, At
    <3>3. {} \in SUBSET Proc /\ Low(L) \cap {} = {}  OBVIOUS
    <3>4. Cardinality(Low(L)) + Cardinality({}) + 2 <= N  BY <1>n, <2>2, <3>2, <3>3, Apart
    <3>5. Found \in Nat  BY <1>n, Measures DEF Bounded, Measured
    <3> QED BY <2>3, <3>4, <3>5, FS_EmptySet DEF Held
  <2> HIDE DEF K, h, w, R, C, c
  <2>k. K \in Int  BY <1>n, <2>3, <2>9
  <2>11. R <= (N - (h + 1)) * K + u  BY <1>n, <1>u, <2>3, <2>9, <2>k, ScanSum
  <2>12. Fresh => C <= c + (N - (h + 1) - 1) * K + u + (h + 1) * S
         BY <1>n, <1>u, <2>3, <2>9, <2>10, <2>k, ScanCacheSum
  <2>13. ReachFits(L, S)'
    <3>1. Bytes(Reach') <= (N - Held(L)') * Fill(L, S) + u  BY <2>4, <2>6, <2>11 DEF R, h, K
    <3> QED BY <2>5, <3>1 DEF ReachFits
  <2>14. CacheFits(L, S)'
    <3>1. Fresh => Bytes(Counted') <= Found + (N - Held(L)' - 1) * Fill(L, S) + u + Held(L)' * S
          BY <2>4, <2>6, <2>12 DEF C, c, h, K
    <3> QED BY <1>a, <2>5, <3>1 DEF CacheFits
  <2>15. DiskFits(L, S)'  BY <1>0, <1>2, <2>13, DiskStep DEF Bounded
  <2>16. Aligned' /\ Exact'  BY <1>0, <1>1 DEF Bounded, Aligned, Exact
  <2> QED BY <1>2, <2>13, <2>14, <2>15, <2>16 DEF Bounded
<1> QED BY <1>n, <1>u, <1>4, <1>5

(* What a check decides, whose limit is no more than L.                    *)
LEMMA Decision ==
    ASSUME IInv, Calm, NEW L, NEW S, Setting(L, S), NEW p \in Proc, pc[p] \in {"enforce", "insert"},
           NEW usage \in Int, Decide(p, usage)
    PROVE  /\ req[p].blob \in Blob /\ Size[req[p].blob] \in Nat /\ req[p].new
           /\ \A q \in Proc : q # p => pc'[q] = pc[q] /\ req'[q] = req[q]
           /\ \/ pc'[p] = "idle" /\ Finish(p)
              \/ /\ pc'[p] = "write" /\ req'[p].be = req[p].be /\ req'[p].blob = req[p].blob
                 /\ req'[p].new /\ usage + Size[req[p].blob] <= L
<1> USE DEF IInv, Core
<1> DEFINE x == [req[p] EXCEPT !.scan = NoListing]
<1>f. /\ req[p] \in Request /\ req[p].repo \in Repo /\ Size[req[p].blob] \in Nat
      /\ req[p].blob \in Blob /\ req[p].new
      BY RequestFields DEF Checked
<1>s. req[p].size = Size[req[p].blob]  BY <1>f DEF Calm, Sized
<1>l. Limit[req[p].repo] \in Nat /\ Limit[req[p].repo] <= L /\ L \in Nat
      BY <1>f, ConstantsOK DEF Setting, Within
<1>x. x.new = req[p].new /\ x.blob = req[p].blob /\ x.be = req[p].be
  <2>1. NoListing \in Listing  BY DEF NoListing, Listing
  <2> QED BY <1>f, <2>1, RequestScan, ZenonT(40)
<1>1. \/ Finish(p)
      \/ /\ pc' = [pc EXCEPT ![p] = "write"] /\ req' = [req EXCEPT ![p] = x]
         /\ usage + Size[req[p].blob] <= Limit[req[p].repo]
      BY <1>f, <1>l, <1>s DEF Decide
<1> HIDE DEF x
<1>2. CASE Finish(p)  BY <1>f, <1>2 DEF Finish, TypeOK
<1>3. CASE /\ pc' = [pc EXCEPT ![p] = "write"] /\ req' = [req EXCEPT ![p] = x]
           /\ usage + Size[req[p].blob] <= Limit[req[p].repo]
  <2>1. usage + Size[req[p].blob] <= L  BY <1>f, <1>l, <1>3
  <2> QED BY <1>f, <1>x, <1>3, <2>1 DEF TypeOK
<1> QED BY <1>1, <1>2, <1>3

(* A blob that passes adds its size to what may come.                      *)
LEMMA PassReach ==
    ASSUME TypeOK, NEW L, NEW S, Setting(L, S), NEW C \in SUBSET Blob, NEW D \in SUBSET Blob,
           NEW b \in Blob, D \subseteq C \cup {b}
    PROVE  Bytes(D) <= Bytes(C) + Size[b] /\ Bytes(D) \in Nat /\ Bytes(C) \in Nat
<1>n. IsFiniteSet(Blob) /\ S \in Nat /\ \A c \in Blob : Size[c] <= S
      BY DEF Setting, Within
<1>1. {b} \in SUBSET Blob /\ C \cup {b} \in SUBSET Blob  OBVIOUS
<1>2. Bytes({b}) = Size[b] /\ Size[b] \in Nat  BY BytesOne, ConstantsOK
<1>3. Bytes(D) \in Nat /\ Bytes(C) \in Nat /\ Bytes(C \cup {b}) \in Nat  BY <1>n, <1>1, BytesBound
<1>4. Bytes(D) <= Bytes(C \cup {b})  BY <1>n, <1>1, BytesMore
<1>5. Bytes(C \cup {b}) <= Bytes(C) + Bytes({b})  BY <1>n, <1>1, BytesMore
<1> QED BY <1>2, <1>3, <1>4, <1>5

(* A scan goes into the cache, and lets its write pass or not.             *)
LEMMA InsertBound ==
    ASSUME IInv, IInv', NEW L, NEW S, Setting(L, S), Bounded(L, S), Calm,
           NEW p \in Proc, Insert(p)
    PROVE  Bounded(L, S)'
<1> USE DEF IInv, Core
<1> DEFINE x == req[p].scan.bytes
           b == req[p].blob
<1>n. IsFiniteSet(Proc) /\ IsFiniteSet(Blob) /\ L \in Nat /\ S \in Nat /\ \A c \in Blob : Size[c] <= S
      BY DEF Setting, Within
<1>0. pc[p] = "insert" /\ UNCHANGED <<blobs, used, rule>> /\ Decide(p, x)
      BY DEF Insert, store
<1>b. req[p].be = rule /\ rule.at \in Addr /\ x \in Nat
  <2>1. req[p].be = rule  BY <1>0 DEF Bounded, Aligned
  <2>2. x >= 0  BY <1>0 DEF Bounded, Plausible, At
  <2>3. x \in Int  BY <1>0, RequestFields
  <2> QED BY <2>1, <2>2, <2>3 DEF TypeOK, Backend
<1>1. Found' = x /\ Fresh' /\ cache'[rule.at] # None
  <2> DEFINE e == [value |-> x, fresh |-> TRUE]
  <2>1. cache'[rule.at] = e  BY <1>b DEF Insert, TypeOK
  <2>2. e \in Entry /\ e.value = x /\ e.fresh = TRUE  BY <1>b DEF Entry
  <2> HIDE DEF e, x
  <2>3. e # None  BY <2>2, ConstantsOK
  <2> QED BY <1>0, <2>1, <2>2, <2>3 DEF Found, Fresh
<1>2. /\ b \in Blob /\ Size[b] \in Nat /\ req[p].new
      /\ \A q \in Proc : q # p => pc'[q] = pc[q] /\ req'[q] = req[q]
      /\ \/ pc'[p] = "idle" /\ Finish(p)
         \/ /\ pc'[p] = "write" /\ req'[p].be = rule /\ req'[p].blob = b
            /\ req'[p].new /\ x + Size[b] <= L
      BY <1>0, <1>b, Decision
<1> HIDE DEF x, b
<1>3. CASE p \notin Low(L)
  <2>1. x > L  BY <1>0, <1>3, <1>b, <1>n DEF Low, At, x
  <2>2. Finish(p)  BY <1>2, <1>b, <1>n, <2>1
  <2>3. ~(Found' <= L)  BY <1>1, <1>b, <1>n, <2>1
  <2>4. Found' >= 0  BY <1>1, <1>b
  <2> QED BY <1>0, <1>3, <2>2, <2>3, <2>4, EndBound
<1>4. CASE p \in Low(L)
  <2>1. PICK z \in {0, Size[b]} : x + z <= L /\ (pc'[p] = "idle" \/ z = Size[b])
    <3>1. x + 0 <= L  BY <1>4, <1>b, <1>n DEF Low, x
    <3> QED BY <1>2, <3>1
  <2>z. z \in Nat  BY <1>2
  <2>2. Plausible'
    <3>1. \A q \in At({"insert"})' : q \in At({"insert"}) /\ req'[q] = req[q]  BY <1>2 DEF At
    <3>2. pc'[p] \notin {"scan", "insert"}  BY <1>2
    <3>3. Found' >= 0  BY <1>1, <1>b
    <3> QED BY <3>1, <3>2, <3>3 DEF Bounded, Plausible
  <2>3. /\ Reach' \subseteq Reach \cup (IF pc'[p] = "idle" THEN {} ELSE {b})
        /\ Counted' \subseteq Reach
        BY <1>0, <1>2 DEF Reach, Counted, BlobsOf, At
  <2>4. /\ N \in Nat /\ Held(L) \in Nat /\ Held(L) <= N /\ (\A s \in Spare(L) : s \in Nat)
        /\ Reach \in SUBSET Blob /\ Reach' \in SUBSET Blob /\ Counted' \in SUBSET Blob
        BY <1>n, <2>2, Measures, MeasuresThen DEF Bounded, Measured
  <2>5. /\ Bytes(Reach) \in Nat /\ Bytes(Reach') \in Nat /\ Bytes(Counted') \in Nat
        /\ Bytes(Counted') <= Bytes(Reach)
        BY <1>n, <2>3, <2>4, BytesMore, BytesBound
  <2>6. Bytes(Reach') <= Bytes(Reach) + z
    <3>1. CASE pc'[p] = "idle"
      <4>1. Reach' \subseteq Reach  BY <2>3, <3>1
      <4>2. Bytes(Reach') <= Bytes(Reach)  BY <1>n, <2>4, <4>1, BytesMore
      <4> QED BY <2>5, <2>z, <4>2
    <3>2. CASE pc'[p] # "idle"
      <4>1. z = Size[b] /\ Reach' \subseteq Reach \cup {b}  BY <2>1, <2>3, <3>2
      <4> QED BY <1>2, <2>4, <4>1, PassReach
    <3> QED BY <3>1, <3>2
  <2>7. ReachFits(L, S)'
    <3>1. pc'[p] # "insert" /\ rule' = rule  BY <1>0, <1>2
    <3>2. req[p].scan.bytes + z <= L  BY <2>1 DEF x
    <3> QED BY <1>2, <1>4, <2>4, <2>6, <2>z, <3>1, <3>2, LowReach
  <2>8. CacheFits(L, S)'
    <3>1. /\ Held(L)' = Held(L) - 1 /\ Held(L) >= 1 /\ x <= L
          /\ \A s \in Spare(L) : \E t \in Spare(L)' : t \in Nat /\ (s = t \/ s = x)
      <4>1. pc'[p] # "insert"  BY <1>2
      <4> QED BY <1>2, <1>4, <4>1, LowLeaves DEF Bounded, x
    <3>2. PICK s \in Spare(L) : Bytes(Reach) <= (N - Held(L)) * Fill(L, S) + s
          BY DEF Bounded, ReachFits
    <3>3. PICK t \in Spare(L)' : t \in Nat /\ (s = t \/ s = x)  BY <3>1
    <3> DEFINE K == Fill(L, S)
               h == Held(L)
               C == Bytes(Counted')
               R == Bytes(Reach)
    <3>4. /\ K = L + (N - 1) * S /\ h \in Int /\ h >= 1 /\ N >= 1 /\ x + 0 <= L
          /\ s \in Int /\ (s = t \/ s = x) /\ R \in Int /\ C \in Int /\ C <= R
          /\ R <= (N - h) * K + s
          BY <1>b, <1>n, <2>4, <2>5, <3>1, <3>2, <3>3 DEF Fill
    <3> HIDE DEF K, h, C, R
    <3>5. K \in Int /\ (N - h) * K \in Int
      <4>1. K \in Int  BY <1>n, <2>4, <3>4
      <4> QED BY <2>4, <3>4, <4>1
    <3>6. C <= (N - h) * K + s + 0  BY <3>4, <3>5
    <3>7. C <= x + (N - (h - 1) - 1) * K + t + (h - 1) * S
          BY <1>b, <1>n, <2>4, <3>3, <3>4, <3>5, <3>6, LeaveSum
    <3>8. Bytes(Counted') <= Found' + (N - Held(L)' - 1) * Fill(L, S) + t + Held(L)' * S
          BY <1>1, <3>1, <3>7 DEF K, h, C
    <3> QED BY <3>3, <3>8 DEF CacheFits
  <2>9. DiskFits(L, S)'  BY <1>0, <2>2, <2>7, DiskStep DEF Bounded
  <2>10. Aligned' /\ Exact'  BY <1>0, <1>2 DEF Bounded, Aligned, Exact
  <2> QED BY <2>2, <2>7, <2>8, <2>9, <2>10 DEF Bounded
<1> QED BY <1>3, <1>4

(* A fresh entry lets a write pass: together with all that it has not      *)
(* counted, the write is within the fill of its handler.                   *)
LEMMA EnforceBound ==
    ASSUME IInv, IInv', NEW L, NEW S, Setting(L, S), Bounded(L, S), Calm,
           NEW p \in Proc, enforce(p)
    PROVE  Bounded(L, S)'
<1> USE DEF IInv, Core
<1> DEFINE b == req[p].blob
           c == Found
<1>n. IsFiniteSet(Proc) /\ IsFiniteSet(Blob) /\ L \in Nat /\ S \in Nat /\ \A d \in Blob : Size[d] <= S
      BY DEF Setting, Within
<1>0. pc[p] = "enforce" /\ UNCHANGED <<blobs, used, rule, cache>>
      BY DEF enforce, store
<1>f. req[p] \in Request /\ req[p].be = rule /\ rule \in Backend /\ Limit[req[p].repo] # None
      BY <1>0, RequestFields DEF Bounded, Aligned, TypeOK, Setting, Within
<1>a. Fresh' = Fresh /\ Found' = Found /\ cache'[rule'.at] = cache[rule.at]  BY <1>0 DEF Fresh, Found
<1>1. p \notin Low(L)  BY <1>0 DEF Low, At
<1>2. CASE ~Fresh
  <2>1. pc'[p] = "scan" /\ req'[p].be = rule
        /\ \A q \in Proc : q # p => pc'[q] = pc[q] /\ req'[q] = req[q]
    <3> DEFINE y == [req[p] EXCEPT !.be = rule]
    <3>1. y.be = rule  BY <1>f, RequestBackend, Zenon
    <3>2. pc' = [pc EXCEPT ![p] = "scan"] /\ req' = [req EXCEPT ![p] = y]
          BY <1>2, <1>f DEF enforce, Fresh
    <3> HIDE DEF y
    <3> QED BY <3>1, <3>2 DEF TypeOK
  <2>2. p \notin Low(L)'  BY <2>1 DEF Low, At
  <2>3. Plausible'
    <3>1. \A q \in At({"insert"})' : q \in At({"insert"}) /\ req'[q] = req[q]  BY <2>1 DEF At
    <3> QED BY <1>2, <1>a, <3>1 DEF Bounded, Plausible
  <2> QED BY <1>0, <1>1, <1>2, <1>a, <2>1, <2>2, <2>3, SmallStep
<1>3. CASE Fresh
  <2>0. c \in Nat  BY <1>n, <1>3, Measures DEF Bounded, Measured
  <2>1. Decide(p, c)  BY <1>3, <1>f DEF enforce, Fresh, Found
  <2>2. /\ b \in Blob /\ Size[b] \in Nat /\ req[p].new
        /\ \A q \in Proc : q # p => pc'[q] = pc[q] /\ req'[q] = req[q]
        /\ \/ pc'[p] = "idle" /\ Finish(p)
           \/ /\ pc'[p] = "write" /\ req'[p].be = rule /\ req'[p].blob = b
              /\ req'[p].new /\ c + Size[b] <= L
        BY <1>0, <1>f, <2>0, <2>1, Decision
  <2> HIDE DEF b, c
  <2>3. CASE pc'[p] = "idle"
    <3>1. Finish(p)  BY <2>2, <2>3
    <3>2. cache'[rule.at] # None => Found' >= 0  BY <1>0, <1>a DEF Bounded, Plausible
    <3> QED BY <1>0, <1>1, <1>a, <3>1, <3>2, EndBound
  <2>4. CASE pc'[p] # "idle"
    <3>1. pc'[p] = "write" /\ req'[p].be = rule /\ req'[p].blob = b /\ req'[p].new /\ c + Size[b] <= L
          BY <2>2, <2>4
    <3>2. Plausible'
      <4>1. \A q \in At({"insert"})' : q \in At({"insert"}) /\ req'[q] = req[q]  BY <2>2, <3>1 DEF At
      <4>2. pc'[p] \notin {"scan", "insert"}  BY <3>1
      <4> QED BY <1>a, <4>1, <4>2 DEF Bounded, Plausible
    <3>3. Low(L)' = Low(L)  BY <1>0, <2>2, <3>1 DEF Low, At
    <3>4. Spare(L)' = Spare(L) /\ Held(L)' = Held(L)
      <4>1. \A q \in Low(L) : req'[q].scan.bytes = req[q].scan.bytes  BY <1>1, <2>2 DEF Low, At
      <4> QED BY <3>3, <4>1 DEF Spare, Held
    <3>5. /\ N \in Nat /\ Held(L) \in Nat /\ (\A s \in Spare(L) : s \in Nat)
          /\ Counted \in SUBSET Blob /\ Counted' \in SUBSET Blob /\ Reach' \in SUBSET Blob
          BY <1>n, <3>2, Measures, MeasuresThen DEF Bounded, Measured
    <3>6. Uncounted \in SUBSET InFlight /\ Uncounted \in SUBSET Proc /\ Low(L) \in SUBSET Proc
          /\ Low(L) \cap Uncounted = {} /\ p \in Proc \ (Low(L) \cup Uncounted)
          BY <1>0 DEF Uncounted, Low, At, InFlight
    <3>7. Cardinality(Uncounted) \in Nat /\ Cardinality(Uncounted) + Held(L) + 1 <= N
          BY <1>n, <3>5, <3>6, Apart DEF Held
    <3>8. Reach' \subseteq (Counted \cup BlobsOf(Uncounted)) \cup {b}
      <4>1. \A q \in At({"bump"}) : q \in Uncounted  BY DEF Checked, Uncounted, At
      <4>2. BlobsOf(At({"bump"})) \subseteq BlobsOf(Uncounted)  BY <4>1 DEF BlobsOf
      <4>3. BlobsOf(At({"write"})) \subseteq BlobsOf({q \in At({"write"}) : ~req[q].new}) \cup BlobsOf(Uncounted)
            BY DEF BlobsOf, Uncounted, At
      <4>4. Reach \subseteq Counted \cup BlobsOf(Uncounted)  BY <4>2, <4>3 DEF Reach, Counted
      <4>5. Reach' \subseteq Reach \cup {b}  BY <1>0, <2>2, <3>1 DEF Reach, BlobsOf, At
      <4> QED BY <4>4, <4>5
    <3>9. Counted' \subseteq Counted  BY <1>0, <2>2, <3>1 DEF Counted, BlobsOf, At
    <3>10. Counted \cup BlobsOf(Uncounted) \in SUBSET Blob
           BY <1>n, <3>5, <3>6, BlobsOfBound
    <3>11. /\ Bytes(Counted \cup BlobsOf(Uncounted)) <= Bytes(Counted) + Cardinality(Uncounted) * S
           /\ Bytes(Counted \cup BlobsOf(Uncounted)) \in Nat /\ Bytes(Counted) \in Nat
           BY <3>5, <3>6, <3>10, BytesOf
    <3>12. /\ Bytes(Reach') <= Bytes(Counted \cup BlobsOf(Uncounted)) + Size[b] /\ Bytes(Reach') \in Nat
           BY <2>2, <3>5, <3>8, <3>10, PassReach
    <3>13. Bytes(Counted') <= Bytes(Counted) /\ Bytes(Counted') \in Nat
           BY <1>n, <3>5, <3>9, BytesMore, BytesBound
    <3>14. Found <= L  BY <1>n, <2>0, <2>2, <3>1 DEF c
    <3>15. PICK s \in Spare(L) : Bytes(Counted) <= Found + (N - Held(L) - 1) * Fill(L, S) + s + Held(L) * S
           BY <1>3, <3>14 DEF Bounded, CacheFits
    <3> DEFINE K == Fill(L, S)
               h == Held(L)
               u == Cardinality(Uncounted)
               z == Size[b]
               C == Bytes(Counted)
               D == Bytes(Counted')
               R == Bytes(Reach')
               U == Bytes(Counted \cup BlobsOf(Uncounted))
    <3>16. /\ K = L + (N - 1) * S /\ h \in Nat /\ u \in Nat /\ u + h + 1 <= N
           /\ s \in Int /\ z \in Int /\ c + z <= L /\ C \in Int /\ R \in Int /\ U \in Int /\ D \in Int
           /\ D <= C /\ U <= C + u * S /\ R <= U + z
           /\ C <= c + (N - h - 1) * K + s + h * S
           BY <2>2, <3>1, <3>5, <3>7, <3>11, <3>12, <3>13, <3>15 DEF Fill, c
    <3> HIDE DEF K, h, u, z, C, D, R, U
    <3>17. K \in Int /\ u * S \in Int /\ (N - h - 1) * K \in Int /\ h * S \in Int
      <4>1. K \in Int  BY <1>n, <3>5, <3>16
      <4> QED BY <1>n, <3>5, <3>16, <4>1
    <3>18. R <= C + z + u * S  BY <3>16, <3>17
    <3>19. R <= (N - h) * K + s  BY <1>n, <2>0, <3>5, <3>16, <3>17, <3>18, PassSum
    <3>20. D <= c + (N - h - 1) * K + s + h * S  BY <2>0, <3>16, <3>17
    <3>21. ReachFits(L, S)'
      <4>1. Bytes(Reach') <= (N - Held(L)') * Fill(L, S) + s  BY <3>4, <3>19 DEF R, h, K
      <4> QED BY <3>4, <4>1 DEF ReachFits
    <3>22. CacheFits(L, S)'
      <4>1. Bytes(Counted') <= Found' + (N - Held(L)' - 1) * Fill(L, S) + s + Held(L)' * S
            BY <1>a, <3>4, <3>20 DEF D, h, K, c
      <4> QED BY <3>4, <4>1 DEF CacheFits
    <3>23. DiskFits(L, S)'  BY <1>0, <3>2, <3>21, DiskStep DEF Bounded
    <3>24. Aligned' /\ Exact'  BY <1>0, <2>2, <3>1 DEF Bounded, Aligned, Exact
    <3> QED BY <3>2, <3>21, <3>22, <3>23, <3>24 DEF Bounded
  <2> QED BY <2>3, <2>4
<1> QED BY <1>2, <1>3

(* Nothing is there at first.                                              *)
LEMMA BoundInit ==
    ASSUME Init, NEW L, NEW S, Setting(L, S)
    PROVE  Bounded(L, S)
<1>n. IsFiniteSet(Proc) /\ IsFiniteSet(Blob) /\ L \in Nat /\ S \in Nat /\ \A c \in Blob : Size[c] <= S
      BY DEF Setting, Within
<1>1. /\ \A p \in Proc : pc[p] = "idle"
      /\ \A v \in Volume : blobs[v] = {} /\ used[v] = 0
      /\ rule.vol \in Volume /\ cache[rule.at] = None
      BY ConstantsOK DEF Init
<1>2. Aligned /\ Exact /\ Plausible  BY <1>1, BytesNone DEF Aligned, Exact, Plausible, At, Fresh
<1>3. N \in Nat  BY <1>n, FS_CardinalityType DEF N
<1>4. N * Fill(L, S) >= 0 /\ N * Fill(L, S) \in Int
  <2>1. CASE N = 0  BY <1>n, <2>1 DEF Fill
  <2>2. CASE N >= 1
    <3>1. Fill(L, S) \in Nat  BY <1>n, <1>3, <2>2, FillBounds DEF Fill
    <3> QED BY <1>3, <3>1
  <2> QED BY <1>3, <2>1, <2>2
<1>5. DiskFits(L, S)  BY <1>1, <1>4, BytesNone DEF DiskFits
<1>6. Low(L) = {} /\ Reach = {}  BY <1>1 DEF Low, Reach, At, BlobsOf
<1>7. Spare(L) = {0} /\ Held(L) = 0  BY <1>6, FS_EmptySet DEF Spare, Held
<1>8. ReachFits(L, S)
  <2>1. (N - 0) * Fill(L, S) + 0 = N * Fill(L, S)
    <3>1. N - 0 = N  BY <1>3
    <3> QED BY <1>4, <3>1
  <2> QED BY <1>4, <1>6, <1>7, <2>1, BytesNone DEF ReachFits
<1>9. CacheFits(L, S)  BY <1>1 DEF CacheFits, Fresh
<1> QED BY <1>2, <1>5, <1>8, <1>9 DEF Bounded

(* What has disturbed is not forgotten.                                    *)
LEMMA DisturbedGrows == ASSUME [Next]_vars PROVE disturbed \subseteq disturbed'
<1>1. ASSUME NEW p \in Proc,
             \/ \E r \in Repo, b \in Blob : blob_write(p, r, b) \/ upload_finalize(p, r, b)
             \/ upload_status(p) \/ Drop(p)
      PROVE  disturbed \subseteq disturbed'
      BY <1>1 DEF blob_write, upload_finalize, Begin, upload_status, Drop
<1>2. ASSUME NEW p \in Proc, enforce(p) \/ Scan(p) \/ Insert(p) \/ Write(p) \/ bump(p)
      PROVE  disturbed \subseteq disturbed'
      BY <1>2 DEF enforce, Scan, Insert, Write, bump, history
<1>3. ASSUME \/ UNCHANGED vars \/ \E a \in Addr : Expire(a)
             \/ \E b \in Blob, missing \in SUBSET Proc : blob_delete(b, missing)
             \/ \E v \in Volume, a \in Addr : Repoint(v, a)
      PROVE  disturbed \subseteq disturbed'
      BY <1>3 DEF vars, history, Expire, blob_delete, Repoint
<1> QED BY <1>1, <1>2, <1>3 DEF Next

(* Every step keeps the bound.                                             *)
LEMMA BoundStep ==
    ASSUME IInv, IInv', [Next]_vars, IsFiniteSet(Proc), IsFiniteSet(Blob), BoundInv
    PROVE  BoundInv'
<1> SUFFICES ASSUME NEW L \in Nat, NEW S \in Nat, Calm', Within(L, S) PROVE Bounded(L, S)'
    BY DEF BoundInv, Within
<1>1. disturbed \subseteq disturbed'  BY DisturbedGrows
<1>2. Setting(L, S)  BY DEF Setting
<1>3. Bounded(L, S) /\ Calm  BY <1>1 DEF BoundInv, Calm
<1>4. CASE UNCHANGED vars
  <2>1. UNCHANGED <<blobs, used, rule, cache, pc, req>>  BY <1>4 DEF vars, store, handlers
  <2>2. Low(L)' = Low(L) /\ Reach' = Reach /\ Counted' = Counted /\ Fresh' = Fresh /\ Found' = Found
        BY <2>1 DEF Low, Reach, Counted, Fresh, Found, At, BlobsOf
  <2>3. Spare(L)' = Spare(L) /\ Held(L)' = Held(L)  BY <2>1, <2>2 DEF Spare, Held
  <2>4. ReachFits(L, S)' /\ CacheFits(L, S)'
        BY <1>3, <2>2, <2>3 DEF Bounded, ReachFits, CacheFits
  <2>5. Aligned' /\ Exact' /\ Plausible' /\ DiskFits(L, S)'
        BY <1>3, <2>1, <2>2 DEF Bounded, Aligned, Exact, Plausible, DiskFits, At
  <2> QED BY <2>4, <2>5 DEF Bounded
<1>5. ASSUME NEW p \in Proc, NEW r \in Repo, NEW b \in Blob, blob_write(p, r, b) \/ upload_finalize(p, r, b)
      PROVE  Bounded(L, S)'
      BY <1>2, <1>3, <1>5, BeginBound, ConstantsOK DEF blob_write, upload_finalize
<1>6. ASSUME NEW p \in Proc,
             upload_status(p) \/ enforce(p) \/ Scan(p) \/ Insert(p) \/ Write(p) \/ bump(p) \/ Drop(p)
      PROVE  Bounded(L, S)'
      BY <1>2, <1>3, <1>6, StatusBound, EnforceBound, ScanBound, InsertBound, WriteBound, BumpBound, DropBound
<1>7. ASSUME NEW a \in Addr, Expire(a) PROVE Bounded(L, S)'  BY <1>2, <1>3, <1>7, ExpireBound
<1>8. ASSUME NEW b \in Blob, NEW missing \in SUBSET Proc, blob_delete(b, missing)
      PROVE  Bounded(L, S)'
  <2>1. missing = {}  BY <1>8 DEF blob_delete, Calm
  <2> QED BY <1>2, <1>3, <1>8, <2>1, DeleteBound
<1>9. ASSUME NEW v \in Volume, NEW a \in Addr, Repoint(v, a) PROVE Bounded(L, S)'
      BY <1>2, <1>3, <1>9, RepointBound
<1> QED BY <1>4, <1>5, <1>6, <1>7, <1>8, <1>9 DEF Next

(* QuotaStorage with overlapping writes: each handler may let the limit be *)
(* filled once more, by what it has found before the others wrote, and     *)
(* pass a check together with all the others; with more than that a volume *)
(* is never filled, for every number of handlers, classes and blobs.       *)
THEOREM OverlapsBounded ==
    ASSUME IsFiniteSet(Proc), IsFiniteSet(Blob)
    PROVE  Spec => []UsageBounded
<1> DEFINE Inv == IInv /\ BoundInv
<1>1. Init => Inv
  <2> SUFFICES ASSUME Init PROVE BoundInv  BY IInvInit
  <2> QED BY BoundInit DEF BoundInv, Setting
<1>2. Inv /\ [Next]_vars => Inv'  BY IInvStep, BoundStep
<1>3. Inv => UsageBounded
  <2> SUFFICES ASSUME Inv, NEW top \in Repo, NEW large \in Blob,
                      disturbed \subseteq {"overlap"},
                      \A r \in Repo : Limit[r] # None /\ Limit[r] <= Limit[top],
                      \A b \in Blob : Size[b] <= Size[large],
                      NEW v \in Volume
               PROVE  used[v] <= Cardinality(Proc) * (Limit[top] + (Cardinality(Proc) - 1) * Size[large])
        BY DEF UsageBounded
  <2>1. Limit[top] \in Nat /\ Size[large] \in Nat  BY ConstantsOK
  <2>2. Bounded(Limit[top], Size[large])  BY <2>1 DEF BoundInv, Calm, Within
  <2> QED BY <2>2 DEF Bounded, Exact, DiskFits, Fill, N
<1> QED BY <1>1, <1>2, <1>3, PTL DEF Spec

=============================================================================
