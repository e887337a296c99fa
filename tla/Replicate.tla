----------------------------- MODULE Replicate -----------------------------
(***************************************************************************)
(* Replication (crates/rspace-registry-core/src/replicate.rs) over the     *)
(* partitions of a MultiStore (multi.rs). Clients push to the primary and  *)
(* delete from every partition, one partition after the other; passes copy *)
(* from the primary to the secondaries. Every storage call is a step, and  *)
(* nothing keeps a pass of the background loop, a pass of the admin        *)
(* endpoint and the clients' requests apart.                               *)
(*                                                                         *)
(* The state is that of one repository. A storage call is atomic, as       *)
(* ObjectStore says; a pass looks at the target and then at the primary in *)
(* one step, since only what it reads last decides what it writes. A       *)
(* manifest's subject is looked up as a blob, where it is not found.       *)
(***************************************************************************)
EXTENDS Naturals, FiniteSets

CONSTANTS
    Partition,   \* the partitions of the MultiStore
    Primary,     \* the one that takes writes
    Blob,        \* blobs, by digest
    Manifest,    \* manifests, by digest
    Tag,         \* tag names
    BlobsOf,     \* the config and layers of each manifest
    ChildrenOf,  \* the manifests an index lists
    Runner,      \* what starts passes: the loop, the admin endpoint
    Globs,       \* Globs[r]: the sets of tags that globs of r's passes match
    Unfiltered,  \* the runners whose passes may have no glob
    None,
    MaxCalls,    \* bound: writes and deletes of the clients
    MaxFails     \* bound: storage errors

VARIABLES
    content,     \* the blobs and manifests of each partition
    tags,        \* the manifest each tag names on each partition
    have,        \* what clients have put, and believe to be there
    del,         \* the delete under way: what, where still, what went wrong
    at,          \* where the pass of each runner is
    every,       \* it has no glob
    left,        \* what its current loop has still to go through
    todo,        \* children that walk_manifest has still to read
    want,        \* wanted_manifests and wanted_blobs
    wantT,       \* wanted_tags
    rest,        \* secondaries it has not come to
    dest,        \* the secondary it copies into
    held,        \* what it has read and not yet written there
    calls, fails,
    deleted,     \* history: what some request deleted, or tried to
    gone         \* history: what a request deleted everywhere, undisturbed

store == <<content, tags>>
passes == <<at, every, left, todo, want, wantT, rest, dest, held>>
clients == <<have, del, calls, deleted, gone>>
vars == <<store, passes, clients, fails>>

Secondary == Partition \ {Primary}
Object == Blob \cup Manifest \cup Tag

NoDelete == [of |-> None, via |-> {}, clean |-> TRUE]

ASSUME ConstantsOK ==
    /\ Primary \in Partition
    /\ BlobsOf \in [Manifest -> SUBSET Blob]
    /\ ChildrenOf \in [Manifest -> SUBSET Manifest]
    /\ Globs \in [Runner -> SUBSET SUBSET Tag]
    /\ Unfiltered \subseteq Runner
    /\ Blob \cap Manifest = {} /\ Tag \cap (Blob \cup Manifest) = {}
    /\ None \notin Object \cup Partition
    /\ \A x \in Tag \X Manifest : x \notin Object \cup {None}
    /\ MaxCalls \in Nat /\ MaxFails \in Nat

Place == {"idle", "tags", "digests", "blobs", "manifests", "pointers"}

(* Every variable has its type, and a pass holds something only while it   *)
(* copies into a secondary.                                                *)
TypeOK ==
    /\ content \in [Partition -> SUBSET (Blob \cup Manifest)]
    /\ tags \in [Partition -> [Tag -> Manifest \cup {None}]]
    /\ have \subseteq Blob \cup Manifest
    /\ del \in [of : Object \cup {None}, via : SUBSET Partition, clean : BOOLEAN]
    /\ at \in [Runner -> Place]
    /\ every \in [Runner -> BOOLEAN]
    /\ left \in [Runner -> SUBSET (Object \cup (Tag \X Manifest))]
    /\ todo \in [Runner -> SUBSET Manifest]
    /\ want \in [Runner -> SUBSET (Blob \cup Manifest)]
    /\ wantT \in [Runner -> SUBSET (Tag \X Manifest)]
    /\ rest \in [Runner -> SUBSET Secondary]
    /\ dest \in [Runner -> Secondary \cup {None}]
    /\ held \in [Runner -> Blob \cup Manifest \cup (Tag \X Manifest) \cup {None}]
    /\ \A r \in Runner : /\ held[r] # None => dest[r] # None
                         /\ dest[r] # None => at[r] \in {"blobs", "manifests", "pointers"}
    /\ calls \in 0..MaxCalls /\ fails \in 0..MaxFails
    /\ deleted \subseteq Object /\ gone \subseteq Object

Init ==
    /\ content = [p \in Partition |-> {}]
    /\ tags = [p \in Partition |-> [t \in Tag |-> None]]
    /\ have = {}
    /\ del = NoDelete
    /\ at = [r \in Runner |-> "idle"]
    /\ every = [r \in Runner |-> FALSE]
    /\ left = [r \in Runner |-> {}]
    /\ todo = [r \in Runner |-> {}]
    /\ want = [r \in Runner |-> {}]
    /\ wantT = [r \in Runner |-> {}]
    /\ rest = [r \in Runner |-> {}]
    /\ dest = [r \in Runner |-> None]
    /\ held = [r \in Runner |-> None]
    /\ calls = 0 /\ fails = 0
    /\ deleted = {} /\ gone = {}

Idle == \A r \in Runner : at[r] = "idle"
Call == calls < MaxCalls /\ calls' = calls + 1
Error == fails < MaxFails /\ fails' = fails + 1

(* The objects xs are put again: a delete of one of them is no longer to   *)
(* be told from one that came before.                                      *)
PutAgain(xs) ==
    /\ gone' = gone \ xs
    /\ del' = IF del.of \in xs THEN [of |-> del.of, via |-> del.via, clean |-> FALSE] ELSE del

-----------------------------------------------------------------------------
(* MultiStore: writes go to the primary, deletes to every partition.       *)

blob_write(b) ==
    /\ Call
    /\ content' = [content EXCEPT ![Primary] = @ \cup {b}]
    /\ have' = have \cup {b}
    /\ PutAgain({b})
    /\ UNCHANGED <<tags, passes, deleted, fails>>

(* A client puts a manifest when it has what the manifest refers to; t is  *)
(* None for a put by digest.                                               *)
manifest_put(m, t) ==
    /\ Call
    /\ BlobsOf[m] \cup ChildrenOf[m] \subseteq have
    /\ content' = [content EXCEPT ![Primary] = @ \cup {m}]
    /\ tags' = IF t \in Tag THEN [tags EXCEPT ![Primary] = [@ EXCEPT ![t] = m]] ELSE tags
    /\ have' = have \cup {m}
    /\ PutAgain({m, t} \cap Object)
    /\ UNCHANGED <<passes, deleted, fails>>

(* blob_delete, manifest_delete: partition by partition. Clients that have *)
(* seen x go on believing that it is there.                                *)
Delete(x) ==
    /\ Call
    /\ del.of = None
    /\ del' = [of |-> x, via |-> Partition, clean |-> Idle]
    /\ deleted' = deleted \cup {x}
    /\ UNCHANGED <<store, passes, have, gone, fails>>

Without(x, p) ==
    /\ content' = [content EXCEPT ![p] = @ \ {x}]
    /\ tags' = IF x \in Tag THEN [tags EXCEPT ![p] = [@ EXCEPT ![x] = None]] ELSE tags

(* Seeded fault: the first partition that has it ends the loop.            *)
DeleteOn_FirstOnly(p) ==
    /\ p \in del.via
    /\ Without(del.of, p)
    /\ del' = [of |-> del.of, clean |-> del.clean,
               via |-> IF del.of \in content[p] THEN {} ELSE del.via \ {p}]
    /\ UNCHANGED <<passes, have, calls, deleted, gone, fails>>

DeleteOn(p) ==
    /\ p \in del.via
    /\ Without(del.of, p)
    /\ del' = [of |-> del.of, via |-> del.via \ {p}, clean |-> del.clean]
    /\ UNCHANGED <<passes, have, calls, deleted, gone, fails>>

(* last_err: the other partitions are tried all the same.                  *)
DeleteFails(p) ==
    /\ p \in del.via
    /\ Error
    /\ del' = [of |-> del.of, via |-> del.via \ {p}, clean |-> FALSE]
    /\ UNCHANGED <<store, passes, have, calls, deleted, gone>>

DeleteDone ==
    /\ del.of # None /\ del.via = {}
    /\ gone' = IF del.clean THEN gone \cup {del.of} ELSE gone
    /\ del' = NoDelete
    /\ UNCHANGED <<store, passes, have, calls, deleted, fails>>

-----------------------------------------------------------------------------
(* run: collect what is wanted.                                            *)

(* list_tags, narrowed to the ones the glob matches.                       *)
Listed(r, glob) == left' = [left EXCEPT ![r] = {t \in glob : tags[Primary][t] # None}]

Start(r) ==
    /\ at[r] = "idle"
    /\ \/ r \in Unfiltered /\ every' = [every EXCEPT ![r] = TRUE] /\ Listed(r, Tag)
       \/ \E g \in Globs[r] : Listed(r, g) /\ UNCHANGED every
    /\ at' = [at EXCEPT ![r] = "tags"]
    /\ rest' = [rest EXCEPT ![r] = Secondary]
    /\ del' = IF del.of = None THEN del ELSE [of |-> del.of, via |-> del.via, clean |-> FALSE]
    /\ UNCHANGED <<store, todo, want, wantT, dest, held, have, calls, deleted, gone, fails>>

(* Seeded fault: the target is kept for the next pass.                     *)
End_KeepsTarget(r) ==
    /\ at' = [at EXCEPT ![r] = "idle"]
    /\ every' = [every EXCEPT ![r] = FALSE]
    /\ left' = [left EXCEPT ![r] = {}]
    /\ todo' = [todo EXCEPT ![r] = {}]
    /\ want' = [want EXCEPT ![r] = {}]
    /\ wantT' = [wantT EXCEPT ![r] = {}]
    /\ held' = [held EXCEPT ![r] = None]
    /\ UNCHANGED <<rest, dest>>

(* The pass ends, with its report or an error; its locals are dropped.     *)
End(r) ==
    /\ at' = [at EXCEPT ![r] = "idle"]
    /\ every' = [every EXCEPT ![r] = FALSE]
    /\ left' = [left EXCEPT ![r] = {}]
    /\ todo' = [todo EXCEPT ![r] = {}]
    /\ want' = [want EXCEPT ![r] = {}]
    /\ wantT' = [wantT EXCEPT ![r] = {}]
    /\ rest' = [rest EXCEPT ![r] = {}]
    /\ dest' = [dest EXCEPT ![r] = None]
    /\ held' = [held EXCEPT ![r] = None]

(* Any storage call may fail, and ends the pass.                           *)
Fail(r) ==
    /\ at[r] # "idle"
    /\ Error
    /\ End(r)
    /\ UNCHANGED <<store, clients>>

(* Seeded fault: the layers of an index's children are not collected.      *)
walk_manifest_IndexOnly(r, m) ==
    /\ want' = [want EXCEPT ![r] = @ \cup {m} \cup IF m \in todo[r] THEN {} ELSE BlobsOf[m]]
    /\ todo' = [todo EXCEPT ![r] = (@ \cup ChildrenOf[m]) \ {m}]

(* Seeded fault: an index's children are left to the walk of all digests.  *)
walk_manifest_NoChildren(r, m) ==
    /\ want' = [want EXCEPT ![r] = @ \cup {m} \cup BlobsOf[m]]
    /\ todo' = [todo EXCEPT ![r] = @ \ {m}]

(* m was read: it is wanted, with its blobs; its children are to be read.  *)
walk_manifest(r, m) ==
    /\ want' = [want EXCEPT ![r] = @ \cup {m} \cup BlobsOf[m]]
    /\ todo' = [todo EXCEPT ![r] = (@ \cup ChildrenOf[m]) \ {m}]

(* A tag without a manifest is an error that ends the pass.                *)
ReadTag(r) ==
    /\ at[r] = "tags" /\ todo[r] = {}
    /\ \E t \in left[r] :
        LET m == tags[Primary][t] IN
        IF m \notin content[Primary]
        THEN End(r)
        ELSE /\ wantT' = [wantT EXCEPT ![r] = @ \cup {<<t, m>>}]
             /\ left' = [left EXCEPT ![r] = @ \ {t}]
             /\ IF m \in want[r] THEN UNCHANGED <<want, todo>> ELSE walk_manifest(r, m)
             /\ UNCHANGED <<at, every, rest, dest, held>>
    /\ UNCHANGED <<store, clients, fails>>

(* What is read by digest is walked unless it was already, or is not there. *)
ReadByDigest(r, m) ==
    IF m \in want[r] \/ m \notin content[Primary]
    THEN todo' = [todo EXCEPT ![r] = @ \ {m}] /\ UNCHANGED want
    ELSE walk_manifest(r, m)

ReadChild(r) ==
    /\ \E m \in todo[r] : ReadByDigest(r, m)
    /\ UNCHANGED <<store, at, every, left, wantT, rest, dest, held, clients, fails>>

ListDigests(r) ==
    /\ at[r] = "tags" /\ left[r] = {} /\ todo[r] = {} /\ every[r]
    /\ at' = [at EXCEPT ![r] = "digests"]
    /\ left' = [left EXCEPT ![r] = content[Primary] \cap Manifest]
    /\ UNCHANGED <<store, every, todo, want, wantT, rest, dest, held, clients, fails>>

ReadDigest(r) ==
    /\ at[r] = "digests" /\ todo[r] = {}
    /\ \E m \in left[r] : /\ left' = [left EXCEPT ![r] = @ \ {m}]
                          /\ ReadByDigest(r, m)
    /\ UNCHANGED <<store, at, every, wantT, rest, dest, held, clients, fails>>

-----------------------------------------------------------------------------
(* copy_into each secondary: blobs, manifests, tags.                       *)

(* The walk, or the copy into one secondary, is over.                      *)
Through(r) ==
    /\ left[r] = {} /\ todo[r] = {} /\ held[r] = None
    /\ at[r] = IF dest[r] # None THEN "pointers" ELSE IF every[r] THEN "digests" ELSE "tags"

NextTarget(r) ==
    /\ Through(r)
    /\ \E s \in rest[r] : /\ dest' = [dest EXCEPT ![r] = s]
                          /\ rest' = [rest EXCEPT ![r] = @ \ {s}]
    /\ at' = [at EXCEPT ![r] = "blobs"]
    /\ left' = [left EXCEPT ![r] = want[r] \cap Blob]
    /\ UNCHANGED <<store, every, todo, want, wantT, held, clients, fails>>

Report(r) ==
    /\ Through(r) /\ rest[r] = {}
    /\ End(r)
    /\ UNCHANGED <<store, clients, fails>>

Phase(r) ==
    /\ left[r] = {} /\ held[r] = None
    /\ \/ at[r] = "blobs" /\ at' = [at EXCEPT ![r] = "manifests"]
                          /\ left' = [left EXCEPT ![r] = want[r] \cap Manifest]
       \/ at[r] = "manifests" /\ at' = [at EXCEPT ![r] = "pointers"]
                              /\ left' = [left EXCEPT ![r] = wantT[r]]
    /\ UNCHANGED <<store, every, todo, want, wantT, rest, dest, held, clients, fails>>

(* A blob or manifest the target lacks is read from the primary; one that  *)
(* is not there any more is skipped.                                       *)
Fetch(r) ==
    /\ at[r] \in {"blobs", "manifests"} /\ held[r] = None
    /\ \E x \in left[r] :
        /\ left' = [left EXCEPT ![r] = @ \ {x}]
        /\ IF x \in content[Primary] \ content[dest[r]]
           THEN held' = [held EXCEPT ![r] = x]
           ELSE UNCHANGED held
    /\ UNCHANGED <<store, at, every, todo, want, wantT, rest, dest, clients, fails>>

(* Seeded fault: a tag the target has is left alone.                       *)
FetchTag_IfAbsent(r) ==
    /\ at[r] = "pointers" /\ held[r] = None
    /\ \E x \in left[r] :
        /\ left' = [left EXCEPT ![r] = @ \ {x}]
        /\ IF x[2] \in content[Primary] /\ tags[dest[r]][x[1]] = None
           THEN held' = [held EXCEPT ![r] = x]
           ELSE UNCHANGED held
    /\ UNCHANGED <<store, at, every, todo, want, wantT, rest, dest, clients, fails>>

(* A tag is written again whatever the target has.                         *)
FetchTag(r) ==
    /\ at[r] = "pointers" /\ held[r] = None
    /\ \E x \in left[r] :
        /\ left' = [left EXCEPT ![r] = @ \ {x}]
        /\ IF x[2] \in content[Primary]
           THEN held' = [held EXCEPT ![r] = x]
           ELSE UNCHANGED held
    /\ UNCHANGED <<store, at, every, todo, want, wantT, rest, dest, clients, fails>>

(* blob_write, or manifest_put by digest.                                  *)
StoreItem(r) ==
    /\ held[r] \in Blob \cup Manifest
    /\ content' = [content EXCEPT ![dest[r]] = @ \cup {held[r]}]
    /\ held' = [held EXCEPT ![r] = None]
    /\ UNCHANGED <<tags, at, every, left, todo, want, wantT, rest, dest, clients, fails>>

(* manifest_put under a tag writes the manifest too.                       *)
StoreTag(r) ==
    /\ held[r] \in Tag \X Manifest
    /\ content' = [content EXCEPT ![dest[r]] = @ \cup {held[r][2]}]
    /\ tags' = [tags EXCEPT ![dest[r]] = [@ EXCEPT ![held[r][1]] = held[r][2]]]
    /\ held' = [held EXCEPT ![r] = None]
    /\ UNCHANGED <<at, every, left, todo, want, wantT, rest, dest, clients, fails>>

-----------------------------------------------------------------------------
PassStep(r) ==
    \/ ReadTag(r) \/ ReadChild(r) \/ ListDigests(r) \/ ReadDigest(r)
    \/ NextTarget(r) \/ Report(r) \/ Phase(r)
    \/ Fetch(r) \/ FetchTag(r) \/ StoreItem(r) \/ StoreTag(r)

DeleteStep == (\E p \in Partition : DeleteOn(p)) \/ DeleteDone

Next ==
    \/ \E b \in Blob : blob_write(b)
    \/ \E m \in Manifest, t \in Tag \cup {None} : manifest_put(m, t)
    \/ \E x \in Object : Delete(x)
    \/ \E p \in Partition : DeleteFails(p)
    \/ DeleteStep
    \/ \E r \in Runner : Start(r) \/ PassStep(r) \/ Fail(r)

Spec == Init /\ [][Next]_vars

(* spawn_loop's interval fires again and again, its task and the handler   *)
(* of a delete are scheduled until they end.                               *)
Fairness ==
    /\ \A r \in Runner : WF_vars(PassStep(r)) /\ (r \in Unfiltered => WF_vars(Start(r)))
    /\ WF_vars(DeleteStep)

FairSpec == Spec /\ Fairness

-----------------------------------------------------------------------------
(* Properties.                                                             *)

(* The tree of images below m is on s, as far as nothing in it was deleted. *)
WholeTree(s, m) ==
    \E tree \in SUBSET (content[s] \cap Manifest) :
        /\ m \in tree \cup deleted
        /\ \A x \in tree : ChildrenOf[x] \subseteq tree \cup deleted

(* copy_into writes blobs before the manifests that need them, and all     *)
(* manifests before the first tag. So whenever a pass stops, and whatever  *)
(* other passes do, a secondary has the blobs of each manifest it has, and *)
(* can serve alone what is asked for by tag, an index with its images,     *)
(* except for what a request has deleted. Manifests are copied in the      *)
(* order of their digests, so that an index may be there by digest before  *)
(* its images are.                                                         *)
ReplicaComplete ==
    \A s \in Secondary :
        /\ \A m \in content[s] \cap Manifest : BlobsOf[m] \ deleted \subseteq content[s]
        /\ \A t \in Tag : tags[s][t] # None => WholeTree(s, tags[s][t])

(* Deletes apply to every partition (multi.rs): what a request deleted     *)
(* without an error, with no pass under way, is on no partition until a    *)
(* client puts it again; no later pass brings it back.                     *)
DeletedGone ==
    \A p \in Partition : /\ gone \cap content[p] = {}
                         /\ \A t \in gone \cap Tag : tags[p][t] = None

(* A tag of a manifest that is not there: it fails every pass.             *)
Dangling(t) == tags[Primary][t] # None /\ tags[Primary][t] \notin content[Primary]

Synced ==
    \A s \in Secondary :
        /\ content[Primary] \cap Manifest \subseteq content[s]
        /\ \A m \in content[Primary] \cap Manifest :
                BlobsOf[m] \cap content[Primary] \subseteq content[s]
        /\ \A t \in Tag : tags[Primary][t] # None => tags[s][t] = tags[Primary][t]

(* Secondaries catch up: once the clients and the errors have ceased and   *)
(* no tag dangles on the primary, every secondary comes to have what the   *)
(* primary has, and keeps it.                                              *)
Converges == <>[](\A t \in Tag : ~Dangling(t)) => <>[]Synced

=============================================================================
