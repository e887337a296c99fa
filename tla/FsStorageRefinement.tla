------------------------ MODULE FsStorageRefinement ------------------------
(***************************************************************************)
(* FsStorage implements ObjectStore, for every set of handlers, contents,  *)
(* tags and uploads, if requests are kept apart and the power stays on.    *)
(* The step simulation rests on the invariant IInv of FsStorageProofs.     *)
(***************************************************************************)
EXTENDS FsStorageProofs

(* The values of the abstract variable pending.                            *)
Requests == [p \in Proc |-> Request(p)]

(* Objects do not change while the published files do not.                 *)
LEMMA ObjectsFrame ==
    ASSUME \A path \in ContentPath \cup TagPath : file'[path] = file[path]
    PROVE  UNCHANGED <<StoredBlobs, StoredManifests, StoredTags>>
<1> USE PathFacts
<1>1. StoredBlobs' = StoredBlobs  BY DEF StoredBlobs
<1>2. StoredManifests' = StoredManifests  BY DEF StoredManifests
<1>3. StoredTags' = StoredTags
  <2>1. \A t \in Tag : file'[manifest_tag_path(t)] = file[manifest_tag_path(t)]  OBVIOUS
  <2> QED BY <2>1 DEF StoredTags
<1> QED BY <1>1, <1>2, <1>3

(* One handler's request changes, the others' do not.                      *)
LEMMA OneRequest ==
    ASSUME NEW p \in Proc, NEW v, Request(p)' = v,
           \A q \in Proc \ {p} : pc'[q] = pc[q] /\ job'[q] = job[q]
    PROVE  Requests' = [Requests EXCEPT ![p] = v]
<1>1. \A q \in Proc \ {p} : Request(q)' = Request(q)  BY DEF Request
<1> QED BY <1>1 DEF Requests

(* No handler's request changes.                                           *)
LEMMA SameRequests ==
    ASSUME \A q \in Proc : Request(q)' = Request(q)
    PROVE  Requests' = Requests
BY DEF Requests

(* What the files hold, by the invariant.                                  *)
LEMMA ObjectsOK ==
    ASSUME IInv, "power" \notin Failures
    PROVE  /\ StoredBlobs = {d \in BlobDigest : Exists(blob_path(d))}
           /\ StoredManifests = {d \in ManifestDigest : Exists(manifest_digest_path(d))}
           /\ \A t \in Tag : /\ ~Exists(manifest_tag_path(t)) => StoredTags[t] = None
                             /\ Exists(manifest_tag_path(t)) =>
                                    /\ StoredTags[t] \in ManifestDigest
                                    /\ file[manifest_tag_path(t)] = TagBytes(StoredTags[t])
<1> USE PathFacts DEF IInv, FilesOK
<1>1. StoredBlobs = {d \in BlobDigest : Exists(blob_path(d))}
      BY DEF StoredBlobs, Exists
<1>2. StoredManifests = {d \in ManifestDigest : Exists(manifest_digest_path(d))}
      BY DEF StoredManifests, ManifestIntact, Exists, ContentPath
<1>3. ASSUME NEW t \in Tag, ~Exists(manifest_tag_path(t)) PROVE StoredTags[t] = None
  <2>1. \A d \in ManifestDigest : file[manifest_tag_path(t)] # TagBytes(d)
        BY <1>3, BytesFacts DEF Exists
  <2> QED BY <2>1 DEF StoredTags
<1>4. ASSUME NEW t \in Tag, Exists(manifest_tag_path(t))
      PROVE  /\ StoredTags[t] \in ManifestDigest
             /\ file[manifest_tag_path(t)] = TagBytes(StoredTags[t])
  <2>1. PICK d \in ManifestDigest : file[manifest_tag_path(t)] = TagBytes(d)
        BY <1>4 DEF TagFromPut
  <2>2. StoredTags[t] = d  BY <2>1 DEF StoredTags, TagBytes
  <2> QED BY <2>1, <2>2
<1> QED BY <1>1, <1>2, <1>3, <1>4

(* Steps of a request before its effect are invisible.                     *)
LEMMA WorkStep ==
    ASSUME \A path \in ContentPath \cup TagPath : file'[path] = file[path],
           \A q \in Proc : Request(q)' = Request(q),
           resp' \in {"none", "ok", "NotFound", "DigestMismatch"}
    PROVE  Store!Next
<1>1. Requests' = Requests  BY SameRequests
<1>2. Store!Other  BY <1>1, ObjectsFrame DEF Store!Other, Requests
<1> QED BY <1>2 DEF Store!Next

-----------------------------------------------------------------------------
(* The request of a handler, by its place.                                 *)
LEMMA RequestOf ==
    ASSUME TypeInv, NEW p \in Proc
    PROVE  LET j == job[p] IN
           /\ pc[p] \in Writing /\ j.path \in BlobPath => Request(p) = Store!Put(j.path.name)
           /\ pc[p] \in Writing /\ j.path \in DigestPath =>
                Request(p) = Store!PutManifest(j.path.name,
                                               IF j.dest \in TagPath THEN j.dest.name ELSE None)
           /\ pc[p] \in Writing /\ j.path \in TagPath =>
                Request(p) = Store!PutTag(j.bytes[1], j.path.name)
           /\ pc[p] = "move" => Request(p) = Store!Put(j.dest.name)
           /\ pc[p] = "lookup" => Request(p) = Store!Get(j.bytes[1])
           /\ pc[p] \in {"idle", "append"} => Request(p) = None
<1> USE PathFacts DEF Store!Put, Store!PutManifest, Store!PutTag, Store!Get
<1> DEFINE j == job[p]
<1>0. pc[p] \in Writing => (j.dest \in TagPath => j.path \in DigestPath)
      BY DEF TypeInv, Shape, JobShape
<1>1. pc[p] \in Writing => Request(p) =
            [op |-> IF j.path \in BlobPath THEN "blob"
                    ELSE IF j.path \in DigestPath THEN "manifest" ELSE "tag",
             digest |-> IF j.path \in TagPath THEN j.bytes[1] ELSE j.path.name,
             tag |-> IF j.path \in TagPath THEN j.path.name
                     ELSE IF j.dest \in TagPath THEN j.dest.name ELSE None]
      BY DEF Request, Writing
<1>2. pc[p] = "move" => Request(p) = Store!Put(j.dest.name)  BY DEF Request
<1>3. pc[p] = "lookup" => Request(p) = Store!Get(j.bytes[1])  BY DEF Request
<1>4. pc[p] \in {"idle", "append"} => Request(p) = None  BY DEF Request
<1> HIDE DEF j
<1>5. pc[p] \in Writing /\ j.path \in BlobPath => Request(p) = Store!Put(j.path.name)
      BY <1>0, <1>1
<1>6. pc[p] \in Writing /\ j.path \in DigestPath =>
                Request(p) = Store!PutManifest(j.path.name,
                                               IF j.dest \in TagPath THEN j.dest.name ELSE None)
      BY <1>0, <1>1
<1>7. pc[p] \in Writing /\ j.path \in TagPath =>
                Request(p) = Store!PutTag(j.bytes[1], j.path.name)
      BY <1>0, <1>1
<1> QED BY <1>2, <1>3, <1>4, <1>5, <1>6, <1>7 DEF j

(* A handler that has read a tag looks for the digest it read.             *)
LookupOK ==
    \A p \in Proc : pc[p] = "lookup" => \E d \in ManifestDigest : job[p].bytes = TagBytes(d)

RInv == IInv /\ LookupOK

(* Every step keeps that, because only manifest_get starts a lookup.       *)
LEMMA LookupStep == RInv /\ [Next]_vars => LookupOK'
<1> SUFFICES ASSUME RInv, [Next]_vars PROVE LookupOK'  OBVIOUS
<1> USE DEF RInv, IInv, TypeInv, TypeOK
<1>1. ASSUME NEW p \in Proc, NEW t \in Tag, manifest_get(p, t) PROVE LookupOK'
  <2>1. CASE ~Exists(manifest_tag_path(t)) \/ file[manifest_tag_path(t)] = <<>>
        BY <1>1, <2>1 DEF manifest_get, Reply, LookupOK
  <2>2. CASE Exists(manifest_tag_path(t)) /\ file[manifest_tag_path(t)] # <<>>
    <3>1. \E d \in ManifestDigest : file[manifest_tag_path(t)] = TagBytes(d)
          BY <2>2 DEF FilesOK, TagFromPut
    <3>2. job' = [job EXCEPT ![p] = [path |-> None, bytes |-> file[manifest_tag_path(t)],
                                     dest |-> None]]
          BY <1>1, <2>2 DEF manifest_get, Begin
    <3>3. job'[p].bytes = file[manifest_tag_path(t)]  BY <3>2
    <3>4. \A q \in Proc \ {p} : pc'[q] = pc[q] /\ job'[q] = job[q]
          BY <1>1, <2>2, <3>2 DEF manifest_get, Begin
    <3> QED BY <3>1, <3>3, <3>4 DEF LookupOK
  <2> QED BY <2>1, <2>2
<1>2. ASSUME \A q \in Proc : pc'[q] = "lookup" => pc[q] = "lookup" /\ job'[q] = job[q]
      PROVE  LookupOK'
      BY <1>2 DEF LookupOK
<1>3. ASSUME NEW p \in Proc,
             \/ AtomicCreate(p) \/ AtomicWrite(p) \/ AtomicSync(p)
             \/ FinalizeMove(p) \/ FinalizeTruncate(p) \/ FinalizeFill(p) \/ FinalizeUnlink(p)
             \/ AppendChunk(p) \/ ReadManifest(p) \/ upload_create(p)
      PROVE  LookupOK'
      BY <1>2, <1>3 DEF AtomicCreate, AtomicWrite, Advance, AtomicSync, FinalizeMove,
            FinalizeTruncate, FinalizeFill, FinalizeUnlink, AppendChunk, ReadManifest,
            upload_create, Goto, Finish, Reply
<1>4. ASSUME NEW p \in Proc, AtomicRename(p) PROVE LookupOK'
      BY <1>2, <1>4 DEF AtomicRename, Finish
<1>5. ASSUME NEW p \in Proc, NEW b \in Payload, NEW d \in BlobDigest, blob_write(p, d, b)
      PROVE  LookupOK'
      BY <1>2, <1>5 DEF blob_write, Begin, Reply
<1>6. ASSUME NEW p \in Proc, NEW path, RemoveFile(p, path) PROVE LookupOK'
      BY <1>2, <1>6 DEF RemoveFile, Reply
<1>7. ASSUME NEW p \in Proc, NEW id \in Uuid, NEW c \in Chunk, upload_append(p, id, c)
      PROVE  LookupOK'
      BY <1>2, <1>7 DEF upload_append, Begin, Reply
<1>8. ASSUME NEW p \in Proc, NEW id \in Uuid, NEW d \in BlobDigest, upload_finalize(p, id, d)
      PROVE  LookupOK'
      BY <1>2, <1>8 DEF upload_finalize, Begin, Reply
<1>9. ASSUME NEW p \in Proc, NEW m \in Manifest, NEW t \in Tag \cup {None}, manifest_put(p, m, t)
      PROVE  LookupOK'
      BY <1>2, <1>9 DEF manifest_put, Begin
<1>10. CASE Crash \/ PowerFailure  BY <1>2, <1>10 DEF Crash, PowerFailure, Stop
<1>11. CASE UNCHANGED vars  BY <1>2, <1>11 DEF vars
<1> QED BY <1>1, <1>3, <1>4, <1>5, <1>6, <1>7, <1>8, <1>9, <1>10, <1>11
        DEF Next, blob_delete, upload_cancel, manifest_delete

-----------------------------------------------------------------------------
(* Removing an object that is there, and answering about one that is not.  *)
LEMMA RemoveStep ==
    ASSUME IInv, "power" \notin Failures, NEW p \in Proc,
           NEW path \in ContentPath \cup TagPath, RemoveFile(p, path)
    PROVE  Store!Next
<1> USE PathFacts DEF IInv, TypeInv, TypeOK
<1>0. Requests' = Requests /\ \A q \in Proc : Request(q)' = Request(q)
  <2>1. UNCHANGED <<pc, job>>  BY DEF RemoveFile, Reply
  <2> QED BY <2>1, SameRequests DEF Request
<1>1. CASE ~Exists(path)
      BY <1>0, <1>1, WorkStep DEF RemoveFile, Reply
<1>2. CASE Exists(path)
  <2>1. resp' = "ok" /\ file' = [file EXCEPT ![path] = None]
        BY <1>2 DEF RemoveFile, Reply, Unlink
  <2>2. \A x \in Path \ {path} : file'[x] = file[x]  BY <2>1
  <2>3. file'[path] = None  BY <2>1
  <2>4. CASE path \in BlobPath
    <3>1. PICK d \in BlobDigest : path = blob_path(d)  BY <2>4 DEF BlobPath
    <3>2. StoredTags' = StoredTags
      <4>1. \A t \in Tag : file'[manifest_tag_path(t)] = file[manifest_tag_path(t)]
            BY <2>2, <2>4
      <4> QED BY <4>1 DEF StoredTags
    <3>3. StoredManifests' = StoredManifests
      <4>1. \A x \in ManifestDigest :
                file'[manifest_digest_path(x)] = file[manifest_digest_path(x)]
            BY <2>2, <2>4
      <4> QED BY <4>1 DEF StoredManifests
    <3>4. \A x \in BlobDigest \ {d} : file'[blob_path(x)] = file[blob_path(x)]
          BY <2>2, <3>1
    <3>5. StoredBlobs' = StoredBlobs \ {d}
          BY <2>3, <3>1, <3>4 DEF StoredBlobs
    <3>6. d \in StoredBlobs  BY <1>2, <3>1, ObjectsOK
    <3>7. Store!Delete
          BY <1>0, <2>1, <3>2, <3>3, <3>5, <3>6 DEF Store!Delete, Requests
    <3> QED BY <3>7 DEF Store!Next
  <2>5. CASE path \in DigestPath
    <3>1. PICK d \in ManifestDigest : path = manifest_digest_path(d)  BY <2>5 DEF DigestPath
    <3>2. StoredTags' = StoredTags
      <4>1. \A t \in Tag : file'[manifest_tag_path(t)] = file[manifest_tag_path(t)]
            BY <2>2, <2>5
      <4> QED BY <4>1 DEF StoredTags
    <3>3. StoredBlobs' = StoredBlobs
      <4>1. \A x \in BlobDigest : file'[blob_path(x)] = file[blob_path(x)]
            BY <2>2, <2>5
      <4> QED BY <4>1 DEF StoredBlobs
    <3>4. \A x \in ManifestDigest \ {d} :
                file'[manifest_digest_path(x)] = file[manifest_digest_path(x)]
          BY <2>2, <3>1
    <3>5. StoredManifests' = StoredManifests \ {d}
          BY <2>3, <3>1, <3>4 DEF StoredManifests
    <3>6. d \in StoredManifests  BY <1>2, <3>1, ObjectsOK
    <3>7. Store!Delete
          BY <1>0, <2>1, <3>2, <3>3, <3>5, <3>6 DEF Store!Delete, Requests
    <3> QED BY <3>7 DEF Store!Next
  <2>6. CASE path \in TagPath
    <3>1. PICK t \in Tag : path = manifest_tag_path(t)  BY <2>6 DEF TagPath
    <3>2. StoredBlobs' = StoredBlobs /\ StoredManifests' = StoredManifests
      <4>1. /\ \A x \in BlobDigest : file'[blob_path(x)] = file[blob_path(x)]
            /\ \A x \in ManifestDigest :
                    file'[manifest_digest_path(x)] = file[manifest_digest_path(x)]
            BY <2>2, <2>6
      <4> QED BY <4>1 DEF StoredBlobs, StoredManifests
    <3>3. \A x \in Tag \ {t} : file'[manifest_tag_path(x)] = file[manifest_tag_path(x)]
          BY <2>2, <3>1
    <3>4. \A x \in Tag \ {t} : StoredTags'[x] = StoredTags[x]  BY <3>3 DEF StoredTags
    <3>5. StoredTags'[t] = None
      <4>1. \A d \in ManifestDigest : file'[manifest_tag_path(t)] # TagBytes(d)
            BY <2>3, <3>1, BytesFacts
      <4> QED BY <4>1 DEF StoredTags
    <3>6. StoredTags' = [StoredTags EXCEPT ![t] = None]  BY <3>4, <3>5 DEF StoredTags
    <3>7. StoredTags[t] # None  BY <1>2, <3>1, ObjectsOK, ConstantsOK
    <3>8. Store!Delete
          BY <1>0, <2>1, <3>2, <3>6, <3>7 DEF Store!Delete, Requests
    <3> QED BY <3>8 DEF Store!Next
  <2> QED BY <2>4, <2>5, <2>6
<1> QED BY <1>1, <1>2

(* Renaming a complete file to a content path stores that object, and      *)
(* nothing else changes.                                                   *)
LEMMA StoreObject ==
    ASSUME TypeInv, NEW from \in TmpPath \cup UploadPath, NEW to \in ContentPath \cup TagPath,
           file' = [file EXCEPT ![to] = file[from], ![from] = None], Exists(from)
    PROVE  /\ file'[to] = file[from]
           /\ \A x \in (ContentPath \cup TagPath) \ {to} : file'[x] = file[x]
BY PathFacts DEF TypeInv, TypeOK

LEMMA BlobStored ==
    ASSUME NEW d \in BlobDigest, hash_content(file'[blob_path(d)]) = d, file'[blob_path(d)] # None,
           \A x \in (ContentPath \cup TagPath) \ {blob_path(d)} : file'[x] = file[x]
    PROVE  StoredBlobs' = StoredBlobs \cup {d} /\ UNCHANGED <<StoredManifests, StoredTags>>
<1> USE PathFacts
<1>1. \A x \in BlobDigest \ {d} : file'[blob_path(x)] = file[blob_path(x)]  OBVIOUS
<1>2. StoredBlobs' = StoredBlobs \cup {d}  BY <1>1 DEF StoredBlobs
<1>3. \A x \in ManifestDigest : file'[manifest_digest_path(x)] = file[manifest_digest_path(x)]
      OBVIOUS
<1>4. \A t \in Tag : file'[manifest_tag_path(t)] = file[manifest_tag_path(t)]  OBVIOUS
<1>5. StoredManifests' = StoredManifests  BY <1>3 DEF StoredManifests
<1>6. StoredTags' = StoredTags  BY <1>4 DEF StoredTags
<1> QED BY <1>2, <1>5, <1>6

LEMMA ManifestStored ==
    ASSUME NEW d \in ManifestDigest, hash_content(file'[manifest_digest_path(d)]) = d,
           file'[manifest_digest_path(d)] # None,
           \A x \in (ContentPath \cup TagPath) \ {manifest_digest_path(d)} : file'[x] = file[x]
    PROVE  StoredManifests' = StoredManifests \cup {d} /\ UNCHANGED <<StoredBlobs, StoredTags>>
<1> USE PathFacts
<1>1. \A x \in ManifestDigest \ {d} :
            file'[manifest_digest_path(x)] = file[manifest_digest_path(x)]  OBVIOUS
<1>2. StoredManifests' = StoredManifests \cup {d}  BY <1>1 DEF StoredManifests
<1>3. \A x \in BlobDigest : file'[blob_path(x)] = file[blob_path(x)]  OBVIOUS
<1>4. \A t \in Tag : file'[manifest_tag_path(t)] = file[manifest_tag_path(t)]  OBVIOUS
<1>5. StoredBlobs' = StoredBlobs  BY <1>3 DEF StoredBlobs
<1>6. StoredTags' = StoredTags  BY <1>4 DEF StoredTags
<1> QED BY <1>2, <1>5, <1>6

LEMMA TagStored ==
    ASSUME NEW t \in Tag, NEW d \in ManifestDigest, file'[manifest_tag_path(t)] = TagBytes(d),
           \A x \in (ContentPath \cup TagPath) \ {manifest_tag_path(t)} : file'[x] = file[x]
    PROVE  StoredTags' = [StoredTags EXCEPT ![t] = d] /\ UNCHANGED <<StoredBlobs, StoredManifests>>
<1> USE PathFacts
<1>1. \A x \in Tag \ {t} : file'[manifest_tag_path(x)] = file[manifest_tag_path(x)]  OBVIOUS
<1>2. \A x \in Tag \ {t} : StoredTags'[x] = StoredTags[x]  BY <1>1 DEF StoredTags
<1>3. StoredTags'[t] = d  BY DEF StoredTags, TagBytes
<1>4. StoredTags' = [StoredTags EXCEPT ![t] = d]
  <2>1. StoredTags = [x \in Tag |-> StoredTags[x]] /\ StoredTags' = [x \in Tag |-> StoredTags'[x]]
        BY Zenon DEF StoredTags
  <2> QED BY <1>2, <1>3, <2>1
<1>5. \A x \in BlobDigest : file'[blob_path(x)] = file[blob_path(x)]  OBVIOUS
<1>6. \A x \in ManifestDigest : file'[manifest_digest_path(x)] = file[manifest_digest_path(x)]
      OBVIOUS
<1>7. StoredBlobs' = StoredBlobs /\ StoredManifests' = StoredManifests
      BY <1>5, <1>6 DEF StoredBlobs, StoredManifests
<1> QED BY <1>4, <1>7

-----------------------------------------------------------------------------
(* A handler that stays where it is, or goes on writing, has its request.  *)
LEMMA RequestFrame ==
    ASSUME NEW q \in Proc, job'[q] = job[q],
           pc'[q] = pc[q] \/ (pc[q] \in Writing /\ pc'[q] \in Writing)
    PROVE  Request(q)' = Request(q)
<1>1. CASE pc'[q] = pc[q]  BY <1>1 DEF Request
<1>2. CASE pc[q] \in Writing /\ pc'[q] \in Writing  BY <1>2 DEF Request, Writing
<1> QED BY <1>1, <1>2

(* atomic_write up to its rename is invisible: it works on a file of its   *)
(* own.                                                                    *)
LEMMA PrepareStep ==
    ASSUME IInv, NEW p \in Proc, AtomicCreate(p) \/ AtomicWrite(p) \/ AtomicSync(p)
    PROVE  Store!Next
<1> USE PathFacts DEF IInv, TypeInv, TypeOK
<1> DEFINE t == TmpOf(job[p].path)
<1>1. pc[p] \in Writing /\ pc'[p] \in Writing /\ job' = job /\ resp' = "none"
      BY DEF AtomicCreate, AtomicWrite, Advance, AtomicSync, Goto, Writing
<1>2. \A q \in Proc \ {p} : pc'[q] = pc[q]
      BY DEF AtomicCreate, AtomicWrite, Advance, AtomicSync, Goto
<1>3. \A q \in Proc : Request(q)' = Request(q)  BY <1>1, <1>2, RequestFrame
<1>4. t \in TmpPath  BY <1>1 DEF Shape, JobShape
<1>5. \A x \in Path \ {t} : file'[x] = file[x]
  <2>1. CASE AtomicCreate(p)  BY <2>1, <1>4 DEF AtomicCreate, Create
  <2>2. CASE AtomicWrite(p)
    <3>1. fd[p] = t  BY <2>2 DEF AtomicWrite, Owners, Owner
    <3> QED BY <2>2, <3>1, <1>4 DEF AtomicWrite, Write
  <2>3. CASE AtomicSync(p)  BY <2>3 DEF AtomicSync
  <2> QED BY <2>1, <2>2, <2>3
<1> QED BY <1>1, <1>3, <1>4, <1>5, WorkStep

(* The rename publishes the object the request is for.                     *)
LEMMA RenameStep ==
    ASSUME IInv, NEW p \in Proc, AtomicRename(p)
    PROVE  Store!Next
<1> USE PathFacts DEF IInv, TypeInv, TypeOK
<1> DEFINE path == job[p].path  tag == job[p].dest  t == TmpOf(path)
<1>0. /\ path \in ContentPath \cup TagPath /\ (tag \in TagPath => path \in DigestPath)
      /\ t \in TmpPath /\ pc[p] = "rename" /\ pc[p] \in Writing
      /\ file[t] = job[p].bytes /\ job[p].bytes \in Bytes
      BY JobFacts DEF AtomicRename, Shape, JobShape, Writing, Owners, Owner
<1>a. /\ path \in ContentPath => hash_content(job[p].bytes) = path.name
      /\ path \in TagPath => \E d \in ManifestDigest : job[p].bytes = TagBytes(d)
      BY <1>0 DEF Owners, Owner
<1>1. Exists(t)  BY <1>0, BytesFacts DEF Exists
<1>2. Rename(t, path)  BY <1>1 DEF AtomicRename
<1>3. /\ file'[path] = job[p].bytes /\ file'[path] # None
      /\ \A x \in (ContentPath \cup TagPath) \ {path} : file'[x] = file[x]
      BY <1>0, <1>1, <1>2, StoreObject, BytesFacts DEF Rename
<1>4. \A q \in Proc \ {p} : pc'[q] = pc[q] /\ job'[q] = job[q]
      BY <1>1 DEF AtomicRename, Finish
<1>5. CASE path \in BlobPath
  <2>1. PICK d \in BlobDigest : path = blob_path(d)  BY <1>5 DEF BlobPath
  <2>2. hash_content(job[p].bytes) = d  BY <1>a, <2>1
  <2>3. StoredBlobs' = StoredBlobs \cup {d} /\ UNCHANGED <<StoredManifests, StoredTags>>
        BY <1>3, <2>1, <2>2, BlobStored
  <2>4. Request(p) = Store!Put(d)  BY <1>0, <1>5, <2>1, RequestOf
  <2>5. pc'[p] = "idle" /\ resp' = "ok"  BY <1>0, <1>1, <1>5 DEF AtomicRename, Finish
  <2>6. Request(p)' = None  BY <2>5 DEF Request
  <2>7. Requests' = [Requests EXCEPT ![p] = None]  BY <1>4, <2>6, OneRequest
  <2>8. Requests[p] = Store!Put(d)  BY <2>4 DEF Requests
  <2>9. Store!Store(p)  BY <2>3, <2>5, <2>7, <2>8 DEF Store!Store, Requests
  <2> QED BY <2>9 DEF Store!Next
<1>6. CASE path \in DigestPath
  <2> DEFINE g == IF tag \in TagPath THEN tag.name ELSE None
  <2>1. PICK d \in ManifestDigest : path = manifest_digest_path(d)  BY <1>6 DEF DigestPath
  <2>2. hash_content(job[p].bytes) = d  BY <1>a, <2>1
  <2>3. StoredManifests' = StoredManifests \cup {d} /\ UNCHANGED <<StoredBlobs, StoredTags>>
        BY <1>3, <2>1, <2>2, ManifestStored
  <2>4. path.name = d  BY <2>1
  <2>5. Requests[p] = Store!PutManifest(d, g)
        BY <1>0, <1>6, <2>4, RequestOf DEF Requests
  <2>6. g \in Tag \cup {None}  OBVIOUS
  <2>7. CASE tag \in TagPath
    <3>1. /\ pc'[p] = "create" /\ resp' = "none"
          /\ job'[p] = [path |-> tag, bytes |-> TagBytes(d), dest |-> None]
          BY <1>1, <2>4, <2>7 DEF AtomicRename
    <3>2. g # None /\ g = tag.name  BY <2>7, ConstantsOK
    <3>3. tag \notin BlobPath \cup DigestPath  BY <2>7
    <3>4. /\ job'[p].path = tag /\ job'[p].bytes = TagBytes(d) /\ job'[p].bytes[1] = d
          BY <3>1 DEF TagBytes
    <3>5. Request(p)' = Store!PutTag(d, g)
          BY <2>7, <3>1, <3>2, <3>3, <3>4 DEF Request, Store!PutTag
    <3>6. Requests' = [Requests EXCEPT ![p] = Store!PutTag(d, g)]  BY <1>4, <3>5, OneRequest
    <3> HIDE DEF g
    <3>7. Store!StoreManifest(p)
          BY <2>3, <2>5, <2>6, <3>1, <3>2, <3>6 DEF Store!StoreManifest, Requests
    <3> QED BY <3>7 DEF Store!Next
  <2>8. CASE tag \notin TagPath
    <3>1. pc'[p] = "idle" /\ resp' = "ok"  BY <1>1, <2>8 DEF AtomicRename, Finish
    <3>2. g = None  BY <2>8
    <3>3. Request(p)' = None  BY <3>1 DEF Request
    <3>4. Requests' = [Requests EXCEPT ![p] = None]  BY <1>4, <3>3, OneRequest
    <3> HIDE DEF g
    <3>5. Store!StoreManifest(p)
          BY <2>3, <2>5, <2>6, <3>1, <3>2, <3>4 DEF Store!StoreManifest, Requests
    <3> QED BY <3>5 DEF Store!Next
  <2> QED BY <2>7, <2>8
<1>7. CASE path \in TagPath
  <2>1. PICK g \in Tag : path = manifest_tag_path(g)  BY <1>7 DEF TagPath
  <2>2. PICK d \in ManifestDigest : job[p].bytes = TagBytes(d)
        BY <1>a, <1>7
  <2>3. StoredTags' = [StoredTags EXCEPT ![g] = d] /\ UNCHANGED <<StoredBlobs, StoredManifests>>
        BY <1>3, <2>1, <2>2, TagStored
  <2>4. path.name = g /\ job[p].bytes[1] = d  BY <2>1, <2>2 DEF TagBytes
  <2>5. Requests[p] = Store!PutTag(d, g)  BY <1>0, <1>7, <2>4, RequestOf DEF Requests
  <2>6. pc'[p] = "idle" /\ resp' = "ok"  BY <1>0, <1>1, <1>7 DEF AtomicRename, Finish
  <2>7. Request(p)' = None  BY <2>6 DEF Request
  <2>8. Requests' = [Requests EXCEPT ![p] = None]  BY <1>4, <2>7, OneRequest
  <2>9. Store!StoreTag(p)  BY <2>3, <2>5, <2>6, <2>8 DEF Store!StoreTag, Requests
  <2> QED BY <2>9 DEF Store!Next
<1> QED BY <1>0, <1>5, <1>6, <1>7

(* upload_finalize's move publishes the blob it verified.                  *)
LEMMA MoveStep ==
    ASSUME IInv, KeptApart, NEW p \in Proc, FinalizeMove(p)
    PROVE  Store!Next
<1> USE PathFacts DEF IInv, TypeInv, TypeOK
<1> DEFINE u == job[p].path  dest == job[p].dest
<1>0. /\ u \in UploadPath /\ dest \in BlobPath /\ pc[p] = "move"
      /\ file[u] = job[p].bytes /\ job[p].bytes \in Bytes /\ hash_content(file[u]) = dest.name
      BY JobFacts DEF FinalizeMove, Shape, JobShape, Finalizing, Owners, Owner
<1>1. Exists(u)  BY <1>0, BytesFacts DEF Exists
<1>2. Rename(u, dest) /\ Finish(p, "ok")  BY <1>1 DEF FinalizeMove, KeptApart
<1>3. /\ file'[dest] = file[u] /\ file'[dest] # None
      /\ \A x \in (ContentPath \cup TagPath) \ {dest} : file'[x] = file[x]
      BY <1>0, <1>1, <1>2, StoreObject DEF Rename, Exists
<1>4. PICK d \in BlobDigest : dest = blob_path(d)  BY <1>0 DEF BlobPath
<1>5. StoredBlobs' = StoredBlobs \cup {d} /\ UNCHANGED <<StoredManifests, StoredTags>>
      BY <1>0, <1>3, <1>4, BlobStored
<1>6. Requests[p] = Store!Put(d)  BY <1>0, <1>4, RequestOf DEF Requests
<1>7. pc'[p] = "idle" /\ resp' = "ok" /\ \A q \in Proc \ {p} : pc'[q] = pc[q] /\ job'[q] = job[q]
      BY <1>2 DEF Finish
<1>8. Request(p)' = None  BY <1>7 DEF Request
<1>9. Requests' = [Requests EXCEPT ![p] = None]  BY <1>7, <1>8, OneRequest
<1>10. Store!Store(p)  BY <1>5, <1>6, <1>7, <1>9 DEF Store!Store, Requests
<1> QED BY <1>10 DEF Store!Next

-----------------------------------------------------------------------------
(* A request is refused, or answered, without an effect.                   *)
LEMMA ReplyStep ==
    ASSUME NEW p \in Proc, NEW r \in {"ok", "NotFound", "DigestMismatch"}, Reply(p, r),
           \A path \in ContentPath \cup TagPath : file'[path] = file[path]
    PROVE  Store!Next
<1>1. \A q \in Proc : Request(q)' = Request(q)  BY DEF Reply, Request
<1> QED BY <1>1, WorkStep DEF Reply

(* The request of a handler that starts.                                   *)
LEMMA BeginRequest ==
    ASSUME TypeInv, NEW p \in Proc, NEW at, NEW j, Begin(p, at, j), NEW v, Request(p)' = v
    PROVE  Requests[p] = None /\ Requests' = [Requests EXCEPT ![p] = v]
<1>1. Requests[p] = None  BY RequestOf DEF Begin, Requests
<1>2. \A q \in Proc \ {p} : pc'[q] = pc[q] /\ job'[q] = job[q]
      BY DEF Begin, TypeInv, TypeOK
<1> QED BY <1>1, <1>2, OneRequest

(* blob_write and upload_finalize accept a blob whose content they hashed. *)
LEMMA AcceptBlob ==
    ASSUME TypeInv, TypeInv', NEW p \in Proc, NEW at \in {"create", "move"}, NEW j, NEW d \in BlobDigest,
           Begin(p, at, j), UNCHANGED file,
           IF at = "create" THEN j.path = blob_path(d) ELSE j.dest = blob_path(d)
    PROVE  Store!Next
<1> USE PathFacts
<1>1. pc'[p] = at /\ job'[p] = j /\ resp' = "none"  BY DEF Begin, TypeInv, TypeOK
<1>2. Request(p)' = Store!Put(d)
  <2>1. CASE at = "create"
    <3>1. job'[p].path = blob_path(d) /\ blob_path(d) \in BlobPath  BY <1>1, <2>1
    <3>2. job'[p].dest \notin TagPath
          BY <1>1, <2>1, <3>1 DEF TypeInv, Shape, JobShape, Writing
    <3> QED BY <1>1, <2>1, <3>1, <3>2 DEF Request, Store!Put
  <2>2. CASE at = "move"  BY <1>1, <2>2 DEF Request, Store!Put
  <2> QED BY <2>1, <2>2
<1>3. Requests[p] = None /\ Requests' = [Requests EXCEPT ![p] = Store!Put(d)]
      BY <1>2, BeginRequest
<1>4. Store!Accept(p)  BY <1>1, <1>3, ObjectsFrame DEF Store!Accept, Store!objects, Requests
<1> QED BY <1>4 DEF Store!Next

(* manifest_put accepts a manifest, under a tag or not.                    *)
LEMMA AcceptManifest ==
    ASSUME TypeInv, NEW p \in Proc, NEW m \in Manifest, NEW t \in Tag \cup {None},
           manifest_put(p, m, t)
    PROVE  Store!Next
<1> USE PathFacts
<1> DEFINE d == hash_content(ManifestBytes(m))
           j == [path |-> manifest_digest_path(d), bytes |-> ManifestBytes(m),
                 dest |-> IF t \in Tag THEN manifest_tag_path(t) ELSE None]
<1>0. d \in ManifestDigest  BY DEF ManifestDigest
<1> HIDE DEF d
<1>1. Begin(p, "create", j)  BY DEF manifest_put, d
<1>2. pc'[p] = "create" /\ job'[p] = j /\ resp' = "none"  BY <1>1 DEF Begin, TypeInv, TypeOK
<1>3. j.path \in DigestPath /\ j.path.name = d  BY <1>0
<1>4. t = IF j.dest \in TagPath THEN j.dest.name ELSE None  BY ConstantsOK
<1> HIDE DEF j
<1>5. Request(p)' = Store!PutManifest(d, t)
      BY <1>2, <1>3, <1>4 DEF Request, Store!PutManifest
<1>6. Requests[p] = None /\ Requests' = [Requests EXCEPT ![p] = Store!PutManifest(d, t)]
      BY <1>1, <1>5, BeginRequest
<1>7. UNCHANGED <<StoredBlobs, StoredManifests, StoredTags>>
      BY ObjectsFrame DEF manifest_put
<1>8. Store!Accept(p)  BY <1>0, <1>2, <1>6, <1>7 DEF Store!Accept, Store!objects, Requests
<1> QED BY <1>8 DEF Store!Next

(* manifest_get resolves the tag to the digest it names.                   *)
LEMMA ResolveStep ==
    ASSUME IInv, "power" \notin Failures, NEW p \in Proc, NEW t \in Tag, manifest_get(p, t)
    PROVE  Store!Next
<1> USE PathFacts DEF IInv
<1> DEFINE g == manifest_tag_path(t)  j == [path |-> None, bytes |-> file[g], dest |-> None]
<1>1. CASE ~Exists(g)  BY <1>1, ReplyStep DEF manifest_get
<1>2. CASE Exists(g)
  <2>1. StoredTags[t] \in ManifestDigest /\ file[g] = TagBytes(StoredTags[t])
        BY <1>2, ObjectsOK
  <2>2. Begin(p, "lookup", j)  BY <1>2, <2>1 DEF manifest_get, TagBytes
  <2>3. pc'[p] = "lookup" /\ job'[p] = j /\ resp' = "none"  BY <2>2 DEF Begin, TypeInv, TypeOK
  <2>4. j.bytes[1] = StoredTags[t]  BY <2>1 DEF TagBytes
  <2> HIDE DEF j
  <2>5. Request(p)' = Store!Get(StoredTags[t])  BY <2>3, <2>4 DEF Request, Store!Get
  <2>6. Requests[p] = None /\ Requests' = [Requests EXCEPT ![p] = Store!Get(StoredTags[t])]
        BY <2>2, <2>5, BeginRequest
  <2>7. UNCHANGED <<StoredBlobs, StoredManifests, StoredTags>>
        BY ObjectsFrame DEF manifest_get
  <2>8. StoredTags[t] # None  BY <2>1, ConstantsOK
  <2>9. Store!Resolve(p)
        BY <2>3, <2>6, <2>7, <2>8 DEF Store!Resolve, Store!objects, Requests
  <2> QED BY <2>9 DEF Store!Next
<1> QED BY <1>1, <1>2

(* ... and then reads that manifest, which may have gone in between.       *)
LEMMA ReadStep ==
    ASSUME RInv, "power" \notin Failures, NEW p \in Proc, ReadManifest(p)
    PROVE  Store!Next
<1> USE PathFacts DEF RInv, IInv
<1>1. PICK d \in ManifestDigest : job[p].bytes = TagBytes(d)
      BY DEF LookupOK, ReadManifest
<1>2. job[p].bytes[1] = d  BY <1>1 DEF TagBytes
<1>3. Requests[p] = Store!Get(d)  BY <1>2, RequestOf DEF ReadManifest, Requests
<1>4. resp' = IF d \in StoredManifests THEN "ok" ELSE "NotFound"
      BY <1>2, ObjectsOK DEF ReadManifest, Finish
<1>5. pc'[p] = "idle" /\ \A q \in Proc \ {p} : pc'[q] = pc[q] /\ job'[q] = job[q]
      BY DEF ReadManifest, Finish, TypeInv, TypeOK
<1>6. Request(p)' = None  BY <1>5 DEF Request
<1>7. Requests' = [Requests EXCEPT ![p] = None]  BY <1>5, <1>6, OneRequest
<1>8. UNCHANGED <<StoredBlobs, StoredManifests, StoredTags>>  BY ObjectsFrame DEF ReadManifest
<1>9. Store!Read(p)  BY <1>3, <1>4, <1>7, <1>8 DEF Store!Read, Store!objects, Requests
<1> QED BY <1>9 DEF Store!Next

(* Steps of an upload session touch no object.                             *)
LEMMA UploadStep ==
    ASSUME IInv, NEW p \in Proc,
           \/ upload_create(p)
           \/ \E id \in Uuid, c \in Chunk : upload_append(p, id, c)
           \/ AppendChunk(p)
           \/ \E id \in Uuid : upload_cancel(p, id)
    PROVE  Store!Next
<1> USE PathFacts DEF IInv, TypeInv, TypeOK
<1>1. CASE upload_create(p)
  <2>1. \A x \in ContentPath \cup TagPath : file'[x] = file[x]  BY <1>1 DEF upload_create
  <2> QED BY <1>1, <2>1, ReplyStep DEF upload_create
<1>2. ASSUME NEW id \in Uuid, NEW c \in Chunk, upload_append(p, id, c) PROVE Store!Next
  <2>1. CASE ~Exists(upload_path(id))  BY <1>2, <2>1, ReplyStep DEF upload_append
  <2>2. CASE Exists(upload_path(id))
    <3>1. /\ pc[p] = "idle" /\ pc'[p] = "append" /\ resp' = "none" /\ UNCHANGED file
          /\ \A q \in Proc \ {p} : pc'[q] = pc[q] /\ job'[q] = job[q]
          BY <1>2, <2>2 DEF upload_append, Begin
    <3>2. Request(p) = None /\ Request(p)' = None  BY <3>1 DEF Request
    <3>3. \A q \in Proc : Request(q)' = Request(q)  BY <3>1, <3>2, RequestFrame
    <3> QED BY <3>1, <3>3, WorkStep
  <2> QED BY <2>1, <2>2
<1>3. CASE AppendChunk(p)
  <2>1. /\ pc[p] = "append" /\ pc'[p] = "idle" /\ resp' = "ok"
        /\ \A q \in Proc \ {p} : pc'[q] = pc[q] /\ job'[q] = job[q]
        BY <1>3 DEF AppendChunk, Finish
  <2>2. fd[p] \in UploadPath
        BY <2>1 DEF Shape, JobShape, Owners, Owner
  <2>3. \A x \in ContentPath \cup TagPath : file'[x] = file[x]
        BY <1>3, <2>2 DEF AppendChunk, Write
  <2>4. Request(p) = None /\ Request(p)' = None  BY <2>1 DEF Request
  <2>5. \A q \in Proc : Request(q)' = Request(q)  BY <2>1, <2>4, RequestFrame
  <2> QED BY <2>1, <2>3, <2>5, WorkStep
<1>4. ASSUME NEW id \in Uuid, upload_cancel(p, id) PROVE Store!Next
  <2>1. \A x \in ContentPath \cup TagPath : file'[x] = file[x]
        BY <1>4 DEF upload_cancel, RemoveFile, Unlink
  <2>2. Reply(p, "ok") \/ Reply(p, "NotFound")  BY <1>4 DEF upload_cancel, RemoveFile
  <2> QED BY <2>1, <2>2, ReplyStep
<1> QED BY <1>1, <1>2, <1>3, <1>4

-----------------------------------------------------------------------------
(* Every step of FsStorage is a step of ObjectStore, or changes nothing    *)
(* that it speaks of.                                                      *)
LEMMA Simulation ==
    ASSUME KeptApart, "power" \notin Failures
    PROVE  RInv /\ RInv' /\ [Next]_vars => [Store!Next]_(Store!vars)
<1> SUFFICES ASSUME RInv, RInv', [Next]_vars PROVE [Store!Next]_(Store!vars)  OBVIOUS
<1> USE DEF RInv
<1>0. IInv /\ TypeInv /\ TypeInv'  BY DEF IInv
<1>1. ASSUME NEW p \in Proc, NEW b \in Payload, NEW d \in BlobDigest, blob_write(p, d, b)
      PROVE  Store!Next
  <2>1. CASE hash_content(b) # d  BY <1>1, <2>1, ReplyStep DEF blob_write
  <2>2. CASE hash_content(b) = d
    <3> DEFINE j == [path |-> blob_path(d), bytes |-> b, dest |-> None]
    <3>1. Begin(p, "create", j) /\ j.path = blob_path(d) /\ UNCHANGED file
          BY <1>1, <2>2 DEF blob_write
    <3> HIDE DEF j
    <3> QED BY <1>0, <3>1, AcceptBlob
  <2> QED BY <2>1, <2>2
<1>2. ASSUME NEW p \in Proc, NEW id \in Uuid, NEW d \in BlobDigest, upload_finalize(p, id, d)
      PROVE  Store!Next
  <2> DEFINE u == upload_path(id)
             j == [path |-> u, bytes |-> file[u], dest |-> blob_path(d)]
  <2>1. CASE ~Exists(u) \/ hash_content(file[u]) # d
        BY <1>2, <2>1, ReplyStep DEF upload_finalize
  <2>2. CASE Exists(u) /\ hash_content(file[u]) = d
    <3>1. Begin(p, "move", j) /\ j.dest = blob_path(d) /\ UNCHANGED file
          BY <1>2, <2>2 DEF upload_finalize
    <3> HIDE DEF j
    <3> QED BY <1>0, <3>1, AcceptBlob
  <2> QED BY <2>1, <2>2
<1>3. ASSUME NEW p \in Proc,
             \/ \E d \in BlobDigest : blob_delete(p, d)
             \/ \E path \in DigestPath \cup TagPath : manifest_delete(p, path)
      PROVE  Store!Next
      BY <1>0, <1>3, RemoveStep, PathFacts DEF blob_delete, manifest_delete
<1>4. ASSUME NEW p \in Proc, FinalizeTruncate(p) \/ FinalizeFill(p) \/ FinalizeUnlink(p)
      PROVE  Store!Next
      BY <1>4 DEF FinalizeTruncate, FinalizeFill, FinalizeUnlink, IInv, Owners, Owner
<1>5. CASE Crash
  <2>1. Requests' = [p \in Proc |-> None]
    <3>1. \A p \in Proc : Request(p)' = None  BY <1>5 DEF Crash, Stop, Request
    <3> QED BY <3>1 DEF Requests
  <2>2. UNCHANGED <<StoredBlobs, StoredManifests, StoredTags>>  BY <1>5, ObjectsFrame DEF Crash
  <2>3. Store!Stop  BY <1>5, <2>1, <2>2 DEF Crash, Stop, Store!Stop, Store!objects, Requests
  <2> QED BY <2>3 DEF Store!Next
<1>6. CASE PowerFailure  BY <1>6 DEF PowerFailure
<1>7. CASE UNCHANGED vars
  <2>1. UNCHANGED <<StoredBlobs, StoredManifests, StoredTags>>  BY <1>7, ObjectsFrame DEF vars
  <2>2. Requests' = Requests  BY <1>7, SameRequests, RequestFrame DEF vars
  <2> QED BY <1>7, <2>1, <2>2 DEF vars, Store!vars, Requests
<1>8. ASSUME NEW p \in Proc, AtomicCreate(p) \/ AtomicWrite(p) \/ AtomicSync(p) PROVE Store!Next
      BY <1>0, <1>8, PrepareStep
<1>9. ASSUME NEW p \in Proc, AtomicRename(p) PROVE Store!Next  BY <1>0, <1>9, RenameStep
<1>10. ASSUME NEW p \in Proc, FinalizeMove(p) PROVE Store!Next  BY <1>0, <1>10, MoveStep
<1>11. ASSUME NEW p \in Proc, NEW m \in Manifest, NEW t \in Tag \cup {None}, manifest_put(p, m, t)
       PROVE  Store!Next
       BY <1>0, <1>11, AcceptManifest
<1>12. ASSUME NEW p \in Proc, NEW t \in Tag, manifest_get(p, t) PROVE Store!Next
       BY <1>0, <1>12, ResolveStep
<1>13. ASSUME NEW p \in Proc, ReadManifest(p) PROVE Store!Next  BY <1>13, ReadStep
<1>14. ASSUME NEW p \in Proc,
              \/ upload_create(p)
              \/ \E id \in Uuid, c \in Chunk : upload_append(p, id, c)
              \/ AppendChunk(p)
              \/ \E id \in Uuid : upload_cancel(p, id)
       PROVE  Store!Next
       BY <1>0, <1>14, UploadStep
<1> QED BY <1>1, <1>2, <1>3, <1>4, <1>5, <1>6, <1>7, <1>8, <1>9, <1>10, <1>11, <1>12, <1>13,
           <1>14 DEF Next

(* The empty directory tree is the empty store.                            *)
LEMMA InitialStore == Init => Store!Init
<1> SUFFICES ASSUME Init PROVE Store!Init  OBVIOUS
<1> USE PathFacts DEF Init
<1>1. StoredBlobs = {} /\ StoredManifests = {}  BY DEF StoredBlobs, StoredManifests
<1>2. StoredTags = [t \in Tag |-> None]
  <2>1. \A t \in Tag, d \in ManifestDigest : file[manifest_tag_path(t)] # TagBytes(d)
        BY BytesFacts
  <2> QED BY <2>1 DEF StoredTags
<1>3. Requests = [p \in Proc |-> None]  BY DEF Requests, Request
<1> QED BY <1>1, <1>2, <1>3 DEF Store!Init, Requests

(* Requests kept apart, the power on: FsStorage implements the store of    *)
(* whole objects that the Storage trait promises its callers, across       *)
(* interleaved requests and process crashes.                               *)
THEOREM Refinement ==
    ASSUME KeptApart, "power" \notin Failures
    PROVE  Spec => Implements
<1>1. Init => RInv  BY IInvInit DEF Init, RInv, LookupOK
<1>2. RInv /\ [Next]_vars => RInv'  BY IInvStep, LookupStep DEF RInv
<1> QED BY <1>1, <1>2, InitialStore, Simulation, PTL DEF Spec, Implements, Store!Spec

=============================================================================
