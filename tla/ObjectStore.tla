---------------------------- MODULE ObjectStore ----------------------------
(***************************************************************************)
(* What the Storage trait promises (crates/rspace-registry-core/src/       *)
(* storage.rs): a store of whole objects. A blob or a manifest is there or *)
(* not there, a tag names one digest, and a write takes effect at one      *)
(* moment between its acceptance and its answer, or, if the server stops   *)
(* first, possibly never. Nothing else changes an object.                  *)
(***************************************************************************)

CONSTANTS
    Proc,            \* request handlers
    BlobDigest,      \* digests of blobs
    ManifestDigest,  \* digests of manifests
    Tag,             \* tag names
    None             \* no request, no digest, no tag

VARIABLES
    blobs,           \* the blobs that are stored
    manifests,       \* the manifests that are stored
    tags,            \* the digest each tag names, None if there is no tag
    pending,         \* the request each handler has accepted
    answer           \* what the last step answered

objects == <<blobs, manifests, tags>>
vars == <<blobs, manifests, tags, pending, answer>>

Put(d) == [op |-> "blob", digest |-> d, tag |-> None]
PutManifest(d, t) == [op |-> "manifest", digest |-> d, tag |-> t]
PutTag(d, t) == [op |-> "tag", digest |-> d, tag |-> t]
Get(d) == [op |-> "read", digest |-> d, tag |-> None]

Init ==
    /\ blobs = {}
    /\ manifests = {}
    /\ tags = [t \in Tag |-> None]
    /\ pending = [p \in Proc |-> None]
    /\ answer = "none"

(* A write whose content was verified; what it stores comes later.         *)
Accept(p) ==
    /\ pending[p] = None
    /\ \/ \E d \in BlobDigest : pending' = [pending EXCEPT ![p] = Put(d)]
       \/ \E d \in ManifestDigest, t \in Tag \cup {None} :
            pending' = [pending EXCEPT ![p] = PutManifest(d, t)]
    /\ answer' = "none"
    /\ UNCHANGED objects

(* blob_write, upload_finalize: the blob appears, whole.                   *)
Store(p) ==
    /\ \E d \in BlobDigest : pending[p] = Put(d) /\ blobs' = blobs \cup {d}
    /\ pending' = [pending EXCEPT ![p] = None]
    /\ answer' = "ok"
    /\ UNCHANGED <<manifests, tags>>

(* manifest_put: the manifest, and after it the tag it was put under.      *)
StoreManifest(p) ==
    /\ \E d \in ManifestDigest, t \in Tag \cup {None} :
        /\ pending[p] = PutManifest(d, t)
        /\ manifests' = manifests \cup {d}
        /\ pending' = [pending EXCEPT ![p] = IF t = None THEN None ELSE PutTag(d, t)]
        /\ answer' = IF t = None THEN "ok" ELSE "none"
    /\ UNCHANGED <<blobs, tags>>

StoreTag(p) ==
    /\ \E d \in ManifestDigest, t \in Tag :
        pending[p] = PutTag(d, t) /\ tags' = [tags EXCEPT ![t] = d]
    /\ pending' = [pending EXCEPT ![p] = None]
    /\ answer' = "ok"
    /\ UNCHANGED <<blobs, manifests>>

(* blob_delete, manifest_delete: what is deleted was there.                *)
Delete ==
    /\ \/ \E d \in blobs : blobs' = blobs \ {d} /\ UNCHANGED <<manifests, tags>>
       \/ \E d \in manifests : manifests' = manifests \ {d} /\ UNCHANGED <<blobs, tags>>
       \/ \E t \in Tag : /\ tags[t] # None
                         /\ tags' = [tags EXCEPT ![t] = None]
                         /\ UNCHANGED <<blobs, manifests>>
    /\ answer' = "ok"
    /\ UNCHANGED pending

(* manifest_get of a tag: the digest it names now, then that manifest.     *)
Resolve(p) ==
    /\ pending[p] = None
    /\ \E t \in Tag : tags[t] # None /\ pending' = [pending EXCEPT ![p] = Get(tags[t])]
    /\ answer' = "none"
    /\ UNCHANGED objects

Read(p) ==
    /\ \E d \in ManifestDigest :
        pending[p] = Get(d) /\ answer' = IF d \in manifests THEN "ok" ELSE "NotFound"
    /\ pending' = [pending EXCEPT ![p] = None]
    /\ UNCHANGED objects

(* What changes no object: a request that is refused, a step of an upload  *)
(* session, a step towards a write. None of them is an error.              *)
Other ==
    /\ answer' \in {"none", "ok", "NotFound", "DigestMismatch"}
    /\ UNCHANGED <<blobs, manifests, tags, pending>>

(* The server stops: requests are lost, objects are not.                   *)
Stop ==
    /\ pending' = [p \in Proc |-> None]
    /\ answer' = "none"
    /\ UNCHANGED objects

Next ==
    \/ \E p \in Proc :
        Accept(p) \/ Store(p) \/ StoreManifest(p) \/ StoreTag(p) \/ Resolve(p) \/ Read(p)
    \/ Delete \/ Other \/ Stop

Spec == Init /\ [][Next]_vars

=============================================================================
