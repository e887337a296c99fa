------------------------------- MODULE Quota -------------------------------
(***************************************************************************)
(* Quotas on a volume (QuotaStorage): a write is checked against a cached  *)
(* usage, done, and then counted, each a step between which other requests *)
(* run. The cache is keyed by the address of the backend object, and a     *)
(* backend opened anew may get an address that another one had before.     *)
(*                                                                         *)
(* The classes of the model share one route rule and so one volume; each   *)
(* has the limit of its longest matching quota, or none.                   *)
(***************************************************************************)
EXTENDS Integers, FiniteSets

CONSTANTS
    Proc,        \* handlers
    Repo,        \* repositories, one of each class
    Limit,       \* Limit[r]: max_bytes of the quota matching r, or None
    Blob,        \* blobs
    Size,        \* Size[b]: bytes of b
    Volume,      \* storage roots
    Addr,        \* addresses of backend objects
    FirstVolume, FirstAddr, \* the backend at startup
    MaxUpsets,   \* bound: the upsets
    None

VARIABLES
    blobs,       \* volume -> blobs on it
    used,        \* volume -> their bytes
    rule,        \* the backend of the route rule: [vol, at]
    cache,       \* address -> [value, fresh], or None
    pc,          \* handler -> where it is suspended
    req,         \* handler -> its request and what it has found out
    upsets,      \* backends opened, writes not counted, deletes that scans miss,
                 \* uploads measured short
    disturbed,   \* history: what has come between the steps of a write
    breach       \* history: a checked write left its volume above the limit

store == <<blobs, used>>
handlers == <<pc, req>>
history == <<disturbed, breach>>
vars == <<store, rule, cache, handlers, upsets, history>>

Backend == [vol : Volume, at : Addr]
Entry == [value : Int, fresh : BOOLEAN]

(* A request: new is that the blob was not there, size the bytes that are  *)
(* checked and counted for it, be the backend being measured, and scan the *)
(* blobs listed there and their bytes.                                     *)
Listing == [listed : SUBSET Blob, bytes : Int]
Request == [repo : Repo, blob : Blob, new : BOOLEAN, size : Nat, be : Backend,
            scan : Listing]

NoListing == [listed |-> {}, bytes |-> 0]

ASSUME ConstantsOK ==
    /\ Limit \in [Repo -> Nat \cup {None}]
    /\ Size \in [Blob -> Nat]
    /\ FirstVolume \in Volume /\ FirstAddr \in Addr
    /\ MaxUpsets \in Nat
    /\ None \notin Nat /\ None \notin Entry /\ None \notin Request

Causes == {"overlap", "drop", "repoint", "address", "missed", "short"}
Suspended == {"status", "enforce", "scan", "insert", "write", "bump"}

TypeOK ==
    /\ blobs \in [Volume -> SUBSET Blob]
    /\ used \in [Volume -> Int]
    /\ rule \in Backend
    /\ cache \in [Addr -> Entry \cup {None}]
    /\ pc \in [Proc -> Suspended \cup {"idle"}]
    /\ req \in [Proc -> Request \cup {None}]
    /\ \A p \in Proc : req[p] = None <=> pc[p] = "idle"
    /\ upsets \in 0..MaxUpsets
    /\ disturbed \subseteq Causes
    /\ breach \in BOOLEAN

Init ==
    /\ blobs = [v \in Volume |-> {}]
    /\ used = [v \in Volume |-> 0]
    /\ rule = [vol |-> FirstVolume, at |-> FirstAddr]
    /\ cache = [a \in Addr |-> None]
    /\ pc = [p \in Proc |-> "idle"]
    /\ req = [p \in Proc |-> None]
    /\ upsets = 0
    /\ disturbed = {} /\ breach = FALSE

InFlight == {p \in Proc : pc[p] # "idle"}

Goto(p, to) == pc' = [pc EXCEPT ![p] = to] /\ UNCHANGED req

Finish(p) == pc' = [pc EXCEPT ![p] = "idle"] /\ req' = [req EXCEPT ![p] = None]

-----------------------------------------------------------------------------
(* The write paths. A blob that is there is written again, unchecked.      *)

Begin(p, r, b, size, check) ==
    /\ pc[p] = "idle"
    /\ LET new == b \notin blobs[rule.vol] IN
       /\ req' = [req EXCEPT ![p] = [repo |-> r, blob |-> b, new |-> new,
                                     size |-> IF new THEN size ELSE 0,
                                     be |-> rule, scan |-> NoListing]]
       /\ pc' = [pc EXCEPT ![p] = IF new THEN check ELSE "write"]
    /\ disturbed' = disturbed \cup (IF InFlight = {} THEN {} ELSE {"overlap"})
    /\ UNCHANGED <<store, rule, cache, upsets, breach>>

blob_write(p, r, b) == Begin(p, r, b, Size[b], "enforce")

(* Seeded fault: the size of the upload is never asked for.                *)
upload_finalize_NoSize(p, r, b) == Begin(p, r, b, 0, "enforce")

upload_finalize(p, r, b) == Begin(p, r, b, 0, "status")

(* The size of an upload is the offset of its session now, and 0 for any   *)
(* error. A session only grows, and the inner upload_finalize verifies     *)
(* what it holds then: less than the blob was read here if an append came  *)
(* in between or the question failed. Other uploads end in a Drop.         *)
upload_status(p) ==
    /\ pc[p] = "status"
    /\ pc' = [pc EXCEPT ![p] = "enforce"]
    /\ \E offset \in 0..Size[req[p].blob] :
        /\ req' = [req EXCEPT ![p].size = offset]
        /\ IF offset = Size[req[p].blob]
           THEN UNCHANGED <<upsets, disturbed>>
           ELSE /\ upsets < MaxUpsets
                /\ upsets' = upsets + 1
                /\ disturbed' = disturbed \cup {"short"}
    /\ UNCHANGED <<store, rule, cache, breach>>

(* used.saturating_add(incoming) > max_bytes                               *)
Decide(p, usage) ==
    IF usage + req[p].size > Limit[req[p].repo]
    THEN Finish(p)
    ELSE pc' = [pc EXCEPT ![p] = "write"] /\ req' = [req EXCEPT ![p].scan = NoListing]

(* enforce and usage_of: no quota, a fresh entry, or a scan.               *)
enforce(p) ==
    /\ pc[p] = "enforce"
    /\ IF Limit[req[p].repo] = None
       THEN Goto(p, "write")
       ELSE IF cache[rule.at] # None /\ cache[rule.at].fresh
       THEN Decide(p, cache[rule.at].value)
       ELSE pc' = [pc EXCEPT ![p] = "scan"] /\ req' = [req EXCEPT ![p].be = rule]
    /\ UNCHANGED <<store, rule, cache, upsets, history>>

(* used_bytes lists the blobs and then asks for the size of one after the  *)
(* other, which is 0 for one that has been deleted meanwhile: see          *)
(* blob_delete.                                                            *)
Scan(p) ==
    /\ pc[p] = "scan"
    /\ LET v == req[p].be.vol IN
       req' = [req EXCEPT ![p].scan = [listed |-> blobs[v], bytes |-> used[v]]]
    /\ pc' = [pc EXCEPT ![p] = "insert"]
    /\ UNCHANGED <<store, rule, cache, upsets, history>>

(* Seeded fault: the entry is stored without its expiry.                   *)
Insert_NoExpiry(p) ==
    /\ pc[p] = "insert"
    /\ cache' = [cache EXCEPT ![req[p].be.at] = [value |-> req[p].scan.bytes]]
    /\ Decide(p, req[p].scan.bytes)
    /\ UNCHANGED <<store, rule, upsets, history>>

Insert(p) ==
    /\ pc[p] = "insert"
    /\ cache' = [cache EXCEPT ![req[p].be.at] = [value |-> req[p].scan.bytes, fresh |-> TRUE]]
    /\ Decide(p, req[p].scan.bytes)
    /\ UNCHANGED <<store, rule, upsets, history>>

(* The inner write resolves the backend again.                             *)
Write(p) ==
    LET v == rule.vol
        b == req[p].blob
        more == IF b \in blobs[v] THEN 0 ELSE Size[b]
        max == Limit[req[p].repo]
    IN
    /\ pc[p] = "write"
    /\ blobs' = [blobs EXCEPT ![v] = @ \cup {b}]
    /\ used' = [used EXCEPT ![v] = @ + more]
    /\ breach' = (breach \/ (req[p].new /\ max # None /\ used[v] + more > max))
    /\ IF req[p].new THEN Goto(p, "bump") ELSE Finish(p)
    /\ UNCHANGED <<rule, cache, upsets, disturbed>>

(* Seeded fault: what was written is not counted.                          *)
bump_Skipped(p) ==
    /\ pc[p] = "bump"
    /\ Finish(p)
    /\ UNCHANGED <<store, rule, cache, upsets, history>>

(* The entry of the backend the rule has now, fresh or not.                *)
bump(p) ==
    /\ pc[p] = "bump"
    /\ cache' = IF cache[rule.at] = None THEN cache
                ELSE [cache EXCEPT ![rule.at].value = @ + req[p].size]
    /\ Finish(p)
    /\ UNCHANGED <<store, rule, upsets, history>>

(* A storage error, or a client that hangs up: the handler is dropped at   *)
(* the await it is at. In "bump" that is the await of the inner write,     *)
(* whose system call has taken effect already.                             *)
Drop(p) ==
    /\ pc[p] # "idle"
    /\ IF pc[p] = "bump"
       THEN /\ upsets < MaxUpsets
            /\ upsets' = upsets + 1
            /\ disturbed' = disturbed \cup {"drop"}
       ELSE UNCHANGED <<upsets, disturbed>>
    /\ Finish(p)
    /\ UNCHANGED <<store, rule, cache, breach>>

-----------------------------------------------------------------------------
(* Around the writes.                                                      *)

(* The TTL of an entry passes.                                             *)
Expire(a) ==
    /\ cache[a] # None /\ cache[a].fresh
    /\ cache' = [cache EXCEPT ![a].fresh = FALSE]
    /\ UNCHANGED <<store, rule, handlers, upsets, history>>

(* A scan that has listed the blob and not asked for its size yet.         *)
Misses(p, b) == pc[p] = "insert" /\ req[p].be.vol = rule.vol /\ b \in req[p].scan.listed

(* A delete, by a client or the collector, is not counted. The blob is     *)
(* gone, or back again, when the scans under way ask for its size: those   *)
(* that find it gone are the missing.                                      *)
blob_delete(b, missing) ==
    /\ b \in blobs[rule.vol]
    /\ \A p \in missing : Misses(p, b)
    /\ req' = [p \in Proc |-> IF p \in missing
                              THEN [req[p] EXCEPT !.scan = [listed |-> @.listed \ {b},
                                                            bytes |-> @.bytes - Size[b]]]
                              ELSE req[p]]
    /\ blobs' = [blobs EXCEPT ![rule.vol] = @ \ {b}]
    /\ used' = [used EXCEPT ![rule.vol] = @ - Size[b]]
    /\ IF missing = {}
       THEN UNCHANGED <<upsets, disturbed>>
       ELSE /\ upsets < MaxUpsets
            /\ upsets' = upsets + 1
            /\ disturbed' = disturbed \cup {"missed"}
    /\ UNCHANGED <<rule, cache, pc, breach>>

(* An operator repoints the rule at a volume, opened anew at an address no *)
(* live backend has: that of the rule, and those being measured, are.      *)
Repoint(v, a) ==
    /\ upsets < MaxUpsets
    /\ a # rule.at
    /\ \A p \in Proc : pc[p] \in {"scan", "insert"} => a # req[p].be.at
    /\ upsets' = upsets + 1
    /\ rule' = [vol |-> v, at |-> a]
    /\ disturbed' = disturbed \cup (IF InFlight = {} THEN {} ELSE {"repoint"})
                              \cup (IF cache[a] = None THEN {} ELSE {"address"})
    /\ UNCHANGED <<store, cache, handlers, breach>>

-----------------------------------------------------------------------------
Next ==
    \/ \E p \in Proc :
        \/ \E r \in Repo, b \in Blob : blob_write(p, r, b) \/ upload_finalize(p, r, b)
        \/ upload_status(p) \/ enforce(p) \/ Scan(p) \/ Insert(p) \/ Write(p) \/ bump(p) \/ Drop(p)
    \/ \E a \in Addr : Expire(a)
    \/ \E b \in Blob, missing \in SUBSET Proc : blob_delete(b, missing)
    \/ \E v \in Volume, a \in Addr : Repoint(v, a)

Spec == Init /\ [][Next]_vars

-----------------------------------------------------------------------------
(* Properties.                                                             *)

(* "Nudged upward on each accepted write to keep a burst of sequential     *)
(* pushes honest": a checked write exceeds its limit only if writes        *)
(* overlapped, a write was dropped before it was counted, the rule changed *)
(* under a write, a backend got an address with an entry, or the size of   *)
(* an upload was read short of what was then finalized. Deletes that come  *)
(* between the steps of a write or a scan, expiry and classes without a    *)
(* quota are no excuse.                                                    *)
SequentialHonest == breach => ~(disturbed \subseteq {"missed"})

(* What overlapping writes alone can do: a handler may hold a scan from    *)
(* before the others' writes and put it in the cache after them, so that   *)
(* each handler lets the limit be filled once more, and all of them may    *)
(* pass one check together. More than that is never used, unless a scan    *)
(* misses a blob that another handler brings back, or an upload is read    *)
(* short of what is finalized: then nothing bounds it.                     *)
UsageBounded ==
    \A top \in Repo, large \in Blob :
        /\ disturbed \subseteq {"overlap"}
        /\ \A r \in Repo : Limit[r] # None /\ Limit[r] <= Limit[top]
        /\ \A b \in Blob : Size[b] <= Size[large]
        => LET n == Cardinality(Proc) IN
           \A v \in Volume : used[v] <= n * (Limit[top] + (n - 1) * Size[large])

=============================================================================
