-------------------------- MODULE FsStorageProofs --------------------------
(***************************************************************************)
(* Theorems about FsStorage, for every set of handlers, contents, tags and *)
(* uploads.                                                                *)
(***************************************************************************)
EXTENDS FsStorage, TLAPS

-----------------------------------------------------------------------------
(* Facts about contents and paths; nothing below expands their definitions. *)

(* The byte strings the requests build are byte strings.                   *)
LEMMA BytesFacts ==
    /\ <<>> \in Bytes
    /\ None \notin Bytes
    /\ <<>> \notin Payload
    /\ \A m \in Manifest : ManifestBytes(m) # <<>>
    /\ \A d \in ManifestDigest : TagBytes(d) # <<>>
    /\ Payload \subseteq Bytes
    /\ \A m \in Manifest : ManifestBytes(m) \in Bytes
    /\ \A d \in ManifestDigest : TagBytes(d) \in Bytes
    /\ \A c \in Chunk : <<c>> \in Bytes
    /\ \A a, b \in Bytes : a \o b \in Bytes /\ Overwrite(a, b) \in Bytes
<1> DEFINE Elem == Chunk \cup Manifest \cup ManifestDigest \cup {Hole}
<1>1. Bytes = Seq(Elem)  BY DEF Bytes
<1> HIDE DEF Elem
<1>2. <<>> \in Bytes /\ \A a, b \in Bytes : a \o b \in Bytes  BY <1>1
<1>3. \A a, b \in Bytes : Overwrite(a, b) \in Bytes
  <2> TAKE a, b \in Bytes
  <2>1. SubSeq(a, Len(b) + 1, Len(a)) \in Seq(Elem)  BY <1>1
  <2> QED BY <1>1, <2>1 DEF Overwrite
<1>4. Payload \subseteq Bytes
  <2>1. Chunk \subseteq Elem  BY DEF Elem
  <2>2. Seq(Chunk) \subseteq Seq(Elem)  BY <2>1
  <2> QED BY <1>1, <2>2, ConstantsOK
<1>5. \A m \in Manifest : ManifestBytes(m) \in Bytes  BY <1>1 DEF Elem, ManifestBytes
<1>6. \A d \in ManifestDigest : TagBytes(d) \in Bytes  BY <1>1 DEF Elem, TagBytes
<1>7. \A c \in Chunk : <<c>> \in Bytes  BY <1>1 DEF Elem
<1>8. None \notin Bytes /\ <<>> \notin Payload  BY ConstantsOK
<1>9. /\ \A m \in Manifest : ManifestBytes(m) # <<>>
      /\ \A d \in ManifestDigest : TagBytes(d) # <<>>
      BY DEF ManifestBytes, TagBytes
<1> QED BY <1>2, <1>3, <1>4, <1>5, <1>6, <1>7, <1>8, <1>9

(* A piece written at its place keeps a byte string a byte string.         *)
LEMMA WriteAtType ==
    ASSUME NEW a \in Bytes, NEW b \in Bytes, NEW i \in Nat \ {0}, i <= Len(b)
    PROVE  WriteAt(a, i, b[i]) \in Bytes
<1> DEFINE Elem == Chunk \cup Manifest \cup ManifestDigest \cup {Hole}
<1>0. Bytes = Seq(Elem)  BY DEF Bytes
<1> DEFINE n == IF i > Len(a) THEN i ELSE Len(a)
           v(k) == IF k = i THEN b[i] ELSE IF k \in DOMAIN a THEN a[k] ELSE Hole
<1>1. Hole \in Elem  BY DEF Elem
<1>2. a \in Seq(Elem) /\ b \in Seq(Elem)  BY <1>0
<1>3. n \in Nat  BY <1>2
<1>4. \A k \in 1..n : v(k) \in Elem
  <2>1. b[i] \in Elem  BY <1>2
  <2>2. \A k \in DOMAIN a : a[k] \in Elem  BY <1>2
  <2> QED BY <1>1, <2>1, <2>2
<1>5. WriteAt(a, i, b[i]) = [k \in 1..n |-> v(k)]  BY DEF WriteAt
<1> HIDE DEF n, v
<1> QED BY <1>0, <1>3, <1>4, <1>5

(* A handler that is alone with its file writes its pieces one after the   *)
(* other: the next one goes where the file ends.                           *)
LEMMA WriteNext ==
    ASSUME NEW b \in Bytes, NEW n \in Nat, n < Len(b)
    PROVE  /\ WriteAt(SubSeq(b, 1, n), n + 1, b[n + 1]) = SubSeq(b, 1, n + 1)
           /\ SubSeq(b, 1, 0) = <<>>
           /\ SubSeq(b, 1, Len(b)) = b
<1> DEFINE Elem == Chunk \cup Manifest \cup ManifestDigest \cup {Hole}
<1>1. b \in Seq(Elem)  BY DEF Bytes
<1> HIDE DEF Elem
<1>2. Len(SubSeq(b, 1, n)) = n /\ DOMAIN SubSeq(b, 1, n) = 1..n  BY <1>1
<1>3. \A k \in 1..n : SubSeq(b, 1, n)[k] = b[k]  BY <1>1
<1>4. WriteAt(SubSeq(b, 1, n), n + 1, b[n + 1]) = [k \in 1..(n + 1) |-> b[k]]
      BY <1>2, <1>3 DEF WriteAt
<1>5. SubSeq(b, 1, n + 1) = [k \in 1..(n + 1) |-> b[k]]  BY <1>1
<1>6. SubSeq(b, 1, 0) = <<>> /\ SubSeq(b, 1, Len(b)) = b  BY <1>1
<1> QED BY <1>4, <1>5, <1>6

(* What a job is made of.                                                  *)
LEMMA JobFacts ==
    /\ NoJob \in Job
    /\ \A path, dest \in Path \cup {None}, bytes \in Bytes :
            [path |-> path, bytes |-> bytes, dest |-> dest] \in Job
    /\ \A j \in Job : /\ j.path \in Path \cup {None}
                      /\ j.dest \in Path \cup {None}
                      /\ j.bytes \in Bytes
BY BytesFacts DEF Job, NoJob

(* The kinds of path are disjoint, and a path names one thing.             *)
LEMMA PathFacts ==
    /\ Path = BlobPath \cup DigestPath \cup TagPath \cup UploadPath \cup TmpPath
    /\ ContentPath = BlobPath \cup DigestPath
    /\ None \notin Path /\ Unlinked \notin Path /\ None # Unlinked
    /\ \A p \in BlobPath : p \notin DigestPath \cup TagPath \cup UploadPath \cup TmpPath
    /\ \A p \in DigestPath : p \notin TagPath \cup UploadPath \cup TmpPath
    /\ \A p \in TagPath : p \notin UploadPath \cup TmpPath
    /\ \A p \in UploadPath : p \notin TmpPath
    /\ \A p \in ContentPath \cup TagPath : TmpOf(p) \in TmpPath
    /\ \A d \in BlobDigest : blob_path(d) \in BlobPath /\ blob_path(d).name = d
    /\ \A d \in ManifestDigest :
            manifest_digest_path(d) \in DigestPath /\ manifest_digest_path(d).name = d
    /\ \A t \in Tag : manifest_tag_path(t) \in TagPath /\ manifest_tag_path(t).name = t
    /\ \A id \in Uuid : upload_path(id) \in UploadPath
    /\ \A p \in BlobPath : p.name \in BlobDigest
    /\ \A p \in DigestPath : p.name \in ManifestDigest
    /\ \A p \in TagPath : p.name \in Tag /\ p = manifest_tag_path(p.name)
<1>1. \A p \in BlobPath : p.in = "blobs" /\ p.tmp = FALSE /\ p.name \in BlobDigest
      BY DEF BlobPath, blob_path
<1>2. \A p \in DigestPath : p.in = "digests" /\ p.tmp = FALSE /\ p.name \in ManifestDigest
      BY DEF DigestPath, manifest_digest_path
<1>3. \A p \in TagPath : p.in = "tags" /\ p.tmp = FALSE /\ p.name \in Tag /\ p = manifest_tag_path(p.name)
      BY DEF TagPath, manifest_tag_path
<1>4. \A p \in UploadPath : p.in = "uploads" /\ p.tmp = FALSE  BY DEF UploadPath, upload_path
<1>5. \A p \in TmpPath : p.tmp = TRUE  BY DEF TmpPath, TmpOf
<1>6. \A p \in ContentPath \cup TagPath : TmpOf(p) \in TmpPath  BY DEF TmpPath
<1>7. /\ \A d \in BlobDigest : blob_path(d) \in BlobPath /\ blob_path(d).name = d
      /\ \A d \in ManifestDigest :
            manifest_digest_path(d) \in DigestPath /\ manifest_digest_path(d).name = d
      /\ \A t \in Tag : manifest_tag_path(t) \in TagPath /\ manifest_tag_path(t).name = t
      /\ \A id \in Uuid : upload_path(id) \in UploadPath
      BY DEF BlobPath, DigestPath, TagPath, UploadPath, blob_path, manifest_digest_path,
             manifest_tag_path, upload_path
<1>8. /\ Path = BlobPath \cup DigestPath \cup TagPath \cup UploadPath \cup TmpPath
      /\ ContentPath = BlobPath \cup DigestPath
      BY DEF Path, ContentPath
<1>9. None \notin Path /\ Unlinked \notin Path /\ None # Unlinked  BY ConstantsOK
<1>a. /\ \A p \in BlobPath : p \notin DigestPath \cup TagPath \cup UploadPath \cup TmpPath
      /\ \A p \in DigestPath : p \notin TagPath \cup UploadPath \cup TmpPath
      /\ \A p \in TagPath : p \notin UploadPath \cup TmpPath
      /\ \A p \in UploadPath : p \notin TmpPath
      BY <1>1, <1>2, <1>3, <1>4, <1>5
<1> QED BY <1>1, <1>2, <1>3, <1>6, <1>7, <1>8, <1>9, <1>a

-----------------------------------------------------------------------------
(* Type correctness.                                                       *)

Writing == {"create", "write", "sync", "rename"}
Finalizing == {"move", "trunc", "fill", "unlink"}

(* What a handler's place says of its arguments, and that a handle on a    *)
(* path is a handle on a file that is there.                               *)
Pieces(bytes) == Len(bytes)

JobShape(p) ==
    /\ pc[p] \in Writing => /\ job[p].path \in ContentPath \cup TagPath
                            /\ job[p].bytes # <<>>
                            /\ job[p].dest \in TagPath => job[p].path \in DigestPath
    /\ pc[p] \in Finalizing => job[p].path \in UploadPath /\ job[p].dest \in BlobPath
    /\ pc[p] = "append" => job[p].path \in UploadPath
    /\ pc[p] = "write" => written[p] < Pieces(job[p].bytes)

HandleOK(p) == fd[p] \in Path => Exists(fd[p])

Shape == \A p \in Proc : JobShape(p) /\ HandleOK(p)

TypeInv == TypeOK /\ Shape

(* The initial state is typed.                                             *)
LEMMA TypeInit == Init => TypeInv
<1> SUFFICES ASSUME Init PROVE TypeInv  OBVIOUS
<1>1. TypeOK
      BY BytesFacts, PathFacts, JobFacts, ConstantsOK DEF Init, TypeOK, ProgressOK, PC, Result
<1>2. Shape
      BY PathFacts DEF Init, Shape, JobShape, HandleOK, Writing, Finalizing
<1> QED BY <1>1, <1>2 DEF TypeInv

(* The pieces written are counted while the handler is in write_all.       *)
LEMMA ProgressStep == TypeInv /\ [Next]_vars => ProgressOK'
<1> SUFFICES ASSUME TypeInv, [Next]_vars PROVE ProgressOK'  OBVIOUS
<1> USE DEF TypeInv, TypeOK
<1>0. ASSUME written' = written, \A q \in Proc : pc'[q] # "write" => pc[q] # "write"
      PROVE  ProgressOK'
      BY <1>0 DEF ProgressOK
<1>1. ASSUME NEW p \in Proc, AtomicWrite(p) PROVE ProgressOK'
  <2> DEFINE n == written[p]
  <2>1. /\ n \in Nat /\ pc[p] = "write"
        /\ \/ pc'[p] = "sync" /\ written' = [written EXCEPT ![p] = 0]
           \/ pc'[p] = "write" /\ written' = [written EXCEPT ![p] = n + 1]
        /\ \A q \in Proc \ {p} : pc'[q] = pc[q]
        BY <1>1 DEF AtomicWrite, Advance, ProgressOK
  <2>2. written' \in [Proc -> Nat]  BY <2>1 DEF ProgressOK
  <2>3. \A q \in Proc : pc'[q] # "write" => written'[q] = 0  BY <2>1 DEF ProgressOK
  <2> QED BY <2>2, <2>3 DEF ProgressOK
<1>2. ASSUME NEW p \in Proc, AtomicRename(p) PROVE ProgressOK'
      BY <1>0, <1>2 DEF AtomicRename, Finish
<1>3. ASSUME NEW p \in Proc,
             \/ AtomicCreate(p) \/ AtomicSync(p) \/ AppendChunk(p) \/ FinalizeMove(p)
             \/ FinalizeTruncate(p) \/ FinalizeFill(p) \/ FinalizeUnlink(p) \/ ReadManifest(p)
      PROVE  ProgressOK'
  <2>1. pc[p] # "write"
        BY <1>3 DEF AtomicCreate, AtomicSync, AppendChunk, FinalizeMove, FinalizeTruncate,
                    FinalizeFill, FinalizeUnlink, ReadManifest
  <2>2. \E to : Goto(p, to) \/ Finish(p, to)
        BY <1>3 DEF AtomicCreate, AtomicSync, AppendChunk, FinalizeMove, FinalizeTruncate,
                    FinalizeFill, FinalizeUnlink, ReadManifest
  <2>3. written' = written /\ \A q \in Proc \ {p} : pc'[q] = pc[q]
        BY <2>2 DEF Goto, Finish
  <2> QED BY <1>0, <2>1, <2>3
<1>4. ASSUME NEW p \in Proc, NEW at, NEW j, Begin(p, at, j) PROVE ProgressOK'
      BY <1>0, <1>4 DEF Begin
<1>5. ASSUME NEW p \in Proc, NEW r, Reply(p, r) PROVE ProgressOK'
      BY <1>0, <1>5 DEF Reply
<1>6. ASSUME NEW p \in Proc, NEW path, RemoveFile(p, path) PROVE ProgressOK'
      BY <1>5, <1>6 DEF RemoveFile
<1>7. ASSUME NEW p \in Proc,
             \/ \E b \in Payload, d \in BlobDigest : blob_write(p, d, b)
             \/ upload_create(p)
             \/ \E id \in Uuid, c \in Chunk : upload_append(p, id, c)
             \/ \E id \in Uuid, d \in BlobDigest : upload_finalize(p, id, d)
             \/ \E m \in Manifest, t \in Tag \cup {None} : manifest_put(p, m, t)
             \/ \E t \in Tag : manifest_get(p, t)
      PROVE  ProgressOK'
      BY <1>4, <1>5, <1>7
      DEF blob_write, upload_create, upload_append, upload_finalize, manifest_put, manifest_get
<1>8. ASSUME NEW p \in Proc,
             \/ \E d \in BlobDigest : blob_delete(p, d)
             \/ \E id \in Uuid : upload_cancel(p, id)
             \/ \E path \in DigestPath \cup TagPath : manifest_delete(p, path)
      PROVE  ProgressOK'
      BY <1>6, <1>8 DEF blob_delete, upload_cancel, manifest_delete
<1>9. CASE Crash \/ PowerFailure
  <2>1. written' = [q \in Proc |-> 0]  BY <1>9 DEF Crash, PowerFailure, Stop
  <2> QED BY <2>1 DEF ProgressOK
<1>10. CASE UNCHANGED vars  BY <1>0, <1>10 DEF vars
<1> QED BY <1>1, <1>2, <1>3, <1>7, <1>8, <1>9, <1>10 DEF Next

(* Starting a request: the handler's fields stay typed.                    *)
LEMMA BeginType ==
    ASSUME TypeInv, ProgressOK', NEW p \in Proc, NEW at \in PC,
           NEW j \in Job,
           Begin(p, at, j), at \notin {"write", "sync", "append", "fill"},
           at \in Writing => /\ j.path \in ContentPath \cup TagPath /\ j.bytes # <<>>
                             /\ j.dest \in TagPath => j.path \in DigestPath,
           at \in Finalizing => j.path \in UploadPath /\ j.dest \in BlobPath,
           UNCHANGED <<file, synced, fd, used, dropped>>,
           puts' \subseteq Tag \X ManifestDigest
    PROVE  TypeInv'
<1>1. TypeOK'
      BY DEF TypeInv, TypeOK, Begin, Result
<1>2. Shape'
      BY DEF TypeInv, TypeOK, Shape, JobShape, HandleOK, Exists, Begin, Writing, Finalizing
<1> QED BY <1>1, <1>2 DEF TypeInv

(* A request answered at once: nothing of the handler changes.             *)
LEMMA ReplyType ==
    ASSUME TypeInv, ProgressOK', NEW p \in Proc, NEW r \in Result, Reply(p, r),
           UNCHANGED <<file, synced, fd, used, puts, dropped>>
    PROVE  TypeInv'
<1>1. TypeOK'  BY DEF TypeInv, TypeOK, Reply
<1>2. Shape'  BY DEF TypeInv, Shape, JobShape, HandleOK, Exists, Reply
<1> QED BY <1>1, <1>2 DEF TypeInv

(* The last step of a request: the handler is idle and has no file open.   *)
LEMMA FinishType ==
    ASSUME TypeInv, ProgressOK', NEW p \in Proc, NEW r \in Result, Finish(p, r),
           file' \in [Path -> Bytes \cup {None}], synced' \subseteq Path,
           fd' \in [Proc -> Path \cup {None, Unlinked}], fd'[p] = None,
           \A q \in Proc \ {p} : fd'[q] = None <=> fd[q] = None,
           \A q \in Proc : HandleOK(q)',
           UNCHANGED <<used, puts, dropped>>
    PROVE  TypeInv'
<1>1. TypeOK'  BY JobFacts DEF TypeInv, TypeOK, Finish, PC
<1>2. Shape'
      BY DEF TypeInv, TypeOK, Shape, JobShape, Finish, Writing, Finalizing
<1> QED BY <1>1, <1>2 DEF TypeInv

(* remove_file keeps the types.                                            *)
LEMMA RemoveType ==
    ASSUME TypeInv, ProgressOK', NEW p \in Proc, NEW path \in Path, RemoveFile(p, path),
           UNCHANGED <<used, puts>>, dropped' \subseteq ManifestDigest
    PROVE  TypeInv'
<1>1. CASE Exists(path)
  <2>1. TypeOK'
        BY <1>1, PathFacts DEF TypeInv, TypeOK, RemoveFile, Reply, Unlink, Result
  <2>2. Shape'
        BY <1>1, PathFacts
        DEF TypeInv, TypeOK, Shape, JobShape, HandleOK, Exists, RemoveFile, Reply, Unlink
  <2> QED BY <2>1, <2>2 DEF TypeInv
<1>2. CASE ~Exists(path)
  <2>1. TypeOK'
        BY <1>2 DEF TypeInv, TypeOK, RemoveFile, Reply, Result
  <2>2. Shape'
        BY <1>2 DEF TypeInv, Shape, JobShape, HandleOK, Exists, RemoveFile, Reply
  <2> QED BY <2>1, <2>2 DEF TypeInv
<1> QED BY <1>1, <1>2

(* A handler that is suspended in write_all has a piece left to write.     *)
LEMMA WriteSpan ==
    ASSUME TypeInv, NEW p \in Proc, pc[p] = "write"
    PROVE  /\ job[p].bytes \in Bytes /\ Len(job[p].bytes) \in Nat
           /\ written[p] \in Nat /\ written[p] < Len(job[p].bytes)
<1>1. job[p].bytes \in Bytes /\ job[p].bytes # <<>> /\ written[p] \in Nat
      BY JobFacts DEF TypeInv, TypeOK, ProgressOK, Shape, JobShape, Writing
<1>2. Len(job[p].bytes) \in Nat  BY <1>1 DEF Bytes
<1>3. written[p] < Len(job[p].bytes)  BY DEF TypeInv, Shape, JobShape, Pieces
<1> QED BY <1>1, <1>2, <1>3

(* Every step keeps the types.                                             *)
LEMMA TypeStep == TypeInv /\ [Next]_vars => TypeInv'
<1> SUFFICES ASSUME TypeInv, [Next]_vars PROVE TypeInv'  OBVIOUS
<1> USE BytesFacts, PathFacts, JobFacts
<1>p. ProgressOK'  BY ProgressStep
<1>1. ASSUME NEW p \in Proc, AtomicCreate(p) PROVE TypeInv'
  <2>1. TypeOK'
        BY <1>p, <1>1 DEF AtomicCreate, Create, Goto, TypeInv, TypeOK, Shape, JobShape, Writing, PC, Result
  <2>2. written[p] = 0 /\ 0 < Pieces(job[p].bytes)
    <3>1. written[p] = 0 /\ job[p].bytes \in Bytes /\ job[p].bytes # <<>>
          BY <1>1 DEF AtomicCreate, TypeInv, TypeOK, ProgressOK, Shape, JobShape, Writing
    <3> QED BY <3>1 DEF Bytes, Pieces
  <2>3. Shape'
        BY <1>1, <2>2 DEF AtomicCreate, Create, Goto, TypeInv, TypeOK, Shape, JobShape, HandleOK,
                    Exists, Writing, Finalizing
  <2> QED BY <2>1, <2>3 DEF TypeInv
<1>2. ASSUME NEW p \in Proc, AtomicWrite(p) PROVE TypeInv'
  <2> DEFINE b == job[p].bytes  n == written[p]
  <2>0. pc[p] = "write" /\ b \in Bytes /\ n \in Nat /\ n < Len(b) /\ Len(b) \in Nat
        BY <1>2, WriteSpan DEF AtomicWrite, TypeInv
  <2>1. WriteAt(Contents(fd[p]), n + 1, b[n + 1]) \in Bytes
    <3>1. Contents(fd[p]) \in Bytes
          BY <1>2 DEF AtomicWrite, Contents, TypeInv, TypeOK, Shape, HandleOK, Exists
    <3>2. n + 1 \in Nat \ {0} /\ n + 1 <= Len(b)  BY <2>0
    <3> HIDE DEF b, n
    <3> QED BY <2>0, <3>1, <3>2, WriteAtType
  <2>2. /\ file' \in [Path -> Bytes \cup {None}] /\ synced' \subseteq Path
        /\ \A x \in Path : Exists(x) => Exists(x)'
        BY <1>2, <2>1 DEF AtomicWrite, Write, Exists, TypeInv, TypeOK
  <2>3. /\ UNCHANGED <<job, fd, used, puts, dropped>> /\ resp' = "none"
        /\ \A q \in Proc \ {p} : pc'[q] = pc[q] /\ written'[q] = written[q]
        /\ \/ pc'[p] = "sync" /\ written'[p] = 0
           \/ pc'[p] = "write" /\ written'[p] = n + 1 /\ n + 1 < Len(b)
        /\ pc' \in [Proc -> PC]
        BY <1>2, <2>0 DEF AtomicWrite, Advance, TypeInv, TypeOK, ProgressOK, PC
  <2>4. TypeOK'
        BY <1>p, <2>0, <2>2, <2>3 DEF TypeInv, TypeOK, Result
  <2>5. Shape'
        BY <2>0, <2>2, <2>3 DEF TypeInv, TypeOK, Shape, JobShape, HandleOK, Pieces, Writing, Finalizing
  <2> QED BY <2>4, <2>5 DEF TypeInv
<1>3. ASSUME NEW p \in Proc, AtomicSync(p) PROVE TypeInv'
  <2>1. TypeOK'
        BY <1>p, <1>3 DEF AtomicSync, Close, Goto, TypeInv, TypeOK, PC, Result
  <2>2. Shape'
        BY <1>3 DEF AtomicSync, Close, Goto, TypeInv, TypeOK, Shape, JobShape, HandleOK,
                    Exists, Writing, Finalizing
  <2> QED BY <2>1, <2>2 DEF TypeInv
<1>4. ASSUME NEW p \in Proc, AtomicRename(p) PROVE TypeInv'
  <2> DEFINE path == job[p].path  tag == job[p].dest
  <2>0. /\ path \in ContentPath \cup TagPath /\ (tag \in TagPath => path \in DigestPath)
        /\ TmpOf(path) \in Path /\ path \in Path /\ path # TmpOf(path)
        BY <1>4 DEF AtomicRename, TypeInv, Shape, JobShape, Writing
  <2>1. CASE ~Exists(TmpOf(path))
    <3>1. Finish(p, "Io") /\ UNCHANGED <<file, synced, fd, used, puts, dropped>>
          BY <1>4, <2>1 DEF AtomicRename
    <3>2. fd[p] = None /\ \A q \in Proc : HandleOK(q)'
          BY <1>4, <3>1 DEF AtomicRename, TypeInv, TypeOK, Shape, HandleOK, Exists
    <3> QED BY <1>p, <3>1, <3>2, FinishType DEF TypeInv, TypeOK, Result
  <2>2. CASE Exists(TmpOf(path))
    <3>0. Rename(TmpOf(path), path) /\ UNCHANGED <<used, puts, dropped>>
          BY <1>4, <2>2 DEF AtomicRename
    <3>a. /\ file' \in [Path -> Bytes \cup {None}] /\ synced' \subseteq Path
          /\ fd' \in [Proc -> Path \cup {None, Unlinked}]
          /\ \A q \in Proc : (fd'[q] = None <=> fd[q] = None) /\ HandleOK(q)'
          BY <2>0, <2>2, <3>0 DEF Rename, TypeInv, TypeOK, Shape, HandleOK, Exists
    <3>1. CASE tag \in TagPath
      <4> DEFINE j == [path |-> tag, bytes |-> TagBytes(path.name), dest |-> None]
      <4>0. path.name \in ManifestDigest  BY <2>0, <3>1
      <4>1. j \in Job /\ j.path \in TagPath /\ j.dest \notin TagPath /\ j.bytes # <<>>
            BY <3>1, <4>0
      <4>2. /\ pc' = [pc EXCEPT ![p] = "create"] /\ job' = [job EXCEPT ![p] = j]
            /\ resp' = "none" /\ written' = written
            BY <1>4, <2>2, <3>1 DEF AtomicRename
      <4>r. pc[p] = "rename"  BY <1>4 DEF AtomicRename
      <4> HIDE DEF j
      <4>3. TypeOK'
            BY <1>p, <3>0, <3>a, <4>1, <4>2, <4>r DEF TypeInv, TypeOK, PC, Result
      <4>4. Shape'
            BY <3>a, <4>1, <4>2 DEF TypeInv, TypeOK, Shape, JobShape, Writing, Finalizing
      <4> QED BY <4>3, <4>4 DEF TypeInv
    <3>2. CASE tag \notin TagPath
      <4>1. Finish(p, "ok") /\ fd[p] = None
            BY <1>4, <2>2, <3>2 DEF AtomicRename, TypeInv, TypeOK
      <4> QED BY <1>p, <3>0, <3>a, <4>1, FinishType DEF Result
    <3> QED BY <3>1, <3>2
  <2> QED BY <2>1, <2>2
<1>5. ASSUME NEW p \in Proc, NEW b \in Payload, NEW d \in BlobDigest, blob_write(p, d, b)
      PROVE TypeInv'
  <2>1. CASE hash_content(b) # d
        BY <1>p, <1>5, <2>1, ReplyType DEF blob_write, Result
  <2>2. CASE hash_content(b) = d
    <3> DEFINE j == [path |-> blob_path(d), bytes |-> b, dest |-> None]
    <3>1. j \in Job  BY JobFacts
    <3>2. Begin(p, "create", j)  BY <1>5, <2>2 DEF blob_write
    <3>3. j.path \in ContentPath /\ j.dest \notin TagPath /\ j.bytes # <<>>  OBVIOUS
    <3> HIDE DEF j
    <3> QED BY <1>p, <1>5, <3>1, <3>2, <3>3, BeginType DEF blob_write, PC, Writing, Finalizing, TypeInv, TypeOK
  <2> QED BY <2>1, <2>2
<1>6. ASSUME NEW p \in Proc, NEW d \in BlobDigest, blob_delete(p, d) PROVE TypeInv'
      BY <1>p, <1>6, RemoveType DEF blob_delete, TypeInv, TypeOK
<1>7. ASSUME NEW p \in Proc, upload_create(p) PROVE TypeInv'
  <2>1. TypeOK'
        BY <1>p, <1>7 DEF upload_create, Reply, TypeInv, TypeOK, Result
  <2>2. Shape'
        BY <1>7 DEF upload_create, Reply, TypeInv, TypeOK, Shape, JobShape, HandleOK, Exists
  <2> QED BY <2>1, <2>2 DEF TypeInv
<1>8. ASSUME NEW p \in Proc, NEW id \in Uuid, NEW c \in Chunk, upload_append(p, id, c)
      PROVE TypeInv'
  <2>1. CASE ~Exists(upload_path(id))
        BY <1>p, <1>8, <2>1, ReplyType DEF upload_append, Result
  <2>2. CASE Exists(upload_path(id))
    <3> DEFINE j == [path |-> upload_path(id), bytes |-> <<c>>, dest |-> None]
    <3>1. j \in Job /\ j.path \in UploadPath  OBVIOUS
    <3>2. Begin(p, "append", j)  BY <1>8, <2>2 DEF upload_append
    <3> HIDE DEF j
    <3>a. /\ pc' = [pc EXCEPT ![p] = "append"] /\ job' = [job EXCEPT ![p] = j]
          /\ fd' = [fd EXCEPT ![p] = upload_path(id)] /\ pc[p] = "idle" /\ resp' = "none"
          /\ UNCHANGED <<file, synced, used, puts, dropped>>
          BY <1>8, <2>2, <3>2 DEF upload_append, Begin
    <3>3. TypeOK'
          BY <1>p, <3>1, <3>a DEF TypeInv, TypeOK, PC, Result
    <3>4. Shape'
          BY <1>8, <2>2, <3>1, <3>2 DEF upload_append, Begin, TypeInv, TypeOK, Shape, JobShape,
                HandleOK, Exists, Writing, Finalizing
    <3> QED BY <3>3, <3>4 DEF TypeInv
  <2> QED BY <2>1, <2>2
<1>9. ASSUME NEW p \in Proc, AppendChunk(p) PROVE TypeInv'
  <2>0. Contents(fd[p]) \in Bytes /\ job[p].bytes \in Bytes
        BY <1>9 DEF AppendChunk, Contents, TypeInv, TypeOK, Shape, HandleOK, Exists
  <2>1. /\ file' \in [Path -> Bytes \cup {None}] /\ synced' \subseteq Path
        /\ fd' \in [Proc -> Path \cup {None, Unlinked}] /\ fd'[p] = None
        /\ \A q \in Proc \ {p} : fd'[q] = fd[q]
        BY <1>9, <2>0 DEF AppendChunk, Write, Close, TypeInv, TypeOK
  <2>2. \A q \in Proc : HandleOK(q)'
    <3>1. Contents(fd[p]) \o job[p].bytes \in Bytes  BY <2>0
    <3>2. \A path \in Path : Exists(path) => Exists(path)'
          BY <1>9, <3>1 DEF AppendChunk, Write, Exists, TypeInv, TypeOK
    <3> QED BY <2>1, <3>2 DEF TypeInv, TypeOK, Shape, HandleOK
  <2> QED BY <1>p, <1>9, <2>1, <2>2, FinishType DEF AppendChunk, Result
<1>10. ASSUME NEW p \in Proc, NEW id \in Uuid, NEW d \in BlobDigest, upload_finalize(p, id, d)
       PROVE TypeInv'
  <2> DEFINE u == upload_path(id)
             j == [path |-> u, bytes |-> file[u], dest |-> blob_path(d)]
  <2>1. CASE ~Exists(u)
        BY <1>p, <1>10, <2>1, ReplyType DEF upload_finalize, Result
  <2>2. CASE Exists(u) /\ hash_content(file[u]) # d
        BY <1>p, <1>10, <2>2, ReplyType DEF upload_finalize, Result
  <2>3. CASE Exists(u) /\ hash_content(file[u]) = d
    <3>1. j \in Job
          BY <2>3, JobFacts DEF Exists, TypeInv, TypeOK
    <3>2. Begin(p, "move", j)  BY <1>10, <2>3 DEF upload_finalize
    <3>3. j.path \in UploadPath /\ j.dest \in BlobPath  OBVIOUS
    <3> HIDE DEF j
    <3> QED BY <1>p, <1>10, <3>1, <3>2, <3>3, BeginType DEF upload_finalize, PC, Writing, Finalizing, TypeInv, TypeOK
  <2> QED BY <2>1, <2>2, <2>3
<1>11. ASSUME NEW p \in Proc, FinalizeMove(p) PROVE TypeInv'
  <2> DEFINE path == job[p].path  dest == job[p].dest
  <2>0. path \in UploadPath /\ dest \in BlobPath /\ path # dest /\ path \in Path /\ dest \in Path
        BY <1>11 DEF FinalizeMove, TypeInv, Shape, JobShape, Finalizing
  <2>1. CASE Exists(path) /\ ~CrossFs
    <3>0. Rename(path, dest) /\ Finish(p, "ok") /\ UNCHANGED <<used, puts, dropped>>
          BY <1>11, <2>1 DEF FinalizeMove
    <3>a. /\ file' \in [Path -> Bytes \cup {None}] /\ synced' \subseteq Path
          /\ fd' \in [Proc -> Path \cup {None, Unlinked}]
          /\ \A q \in Proc : (fd'[q] = None <=> fd[q] = None) /\ HandleOK(q)'
          BY <2>0, <2>1, <3>0 DEF Rename, TypeInv, TypeOK, Shape, HandleOK, Exists
    <3>1. fd[p] = None  BY <1>11 DEF FinalizeMove, TypeInv, TypeOK
    <3> QED BY <1>p, <3>0, <3>a, <3>1, FinishType DEF Result
  <2>2. CASE ~(Exists(path) /\ ~CrossFs)
    <3>1. TypeOK'
          BY <1>p, <1>11, <2>2 DEF FinalizeMove, Goto, TypeInv, TypeOK, PC, Result
    <3>2. Shape'
          BY <1>11, <2>2 DEF FinalizeMove, Goto, TypeInv, TypeOK, Shape, JobShape, HandleOK, Exists,
                Writing, Finalizing
    <3> QED BY <3>1, <3>2 DEF TypeInv
  <2> QED BY <2>1, <2>2
<1>12. ASSUME NEW p \in Proc, FinalizeTruncate(p) PROVE TypeInv'
  <2>1. TypeOK'
        BY <1>p, <1>12 DEF FinalizeTruncate, Create, Goto, TypeInv, TypeOK, Shape, JobShape, Finalizing,
                     PC, Result
  <2>2. Shape'
        BY <1>12 DEF FinalizeTruncate, Create, Goto, TypeInv, TypeOK, Shape, JobShape, HandleOK,
                     Exists, Writing, Finalizing
  <2> QED BY <2>1, <2>2 DEF TypeInv
<1>13. ASSUME NEW p \in Proc, FinalizeFill(p) PROVE TypeInv'
  <2>0. Contents(fd[p]) \in Bytes /\ job[p].bytes \in Bytes
        BY <1>13 DEF FinalizeFill, Contents, TypeInv, TypeOK, Shape, HandleOK, Exists
  <2>1. TypeOK'
        BY <1>p, <1>13, <2>0 DEF FinalizeFill, Write, Close, Goto, TypeInv, TypeOK, PC, Result
  <2>2. Shape'
        BY <1>13, <2>0 DEF FinalizeFill, Write, Close, Goto, TypeInv, TypeOK, Shape, JobShape,
                     HandleOK, Exists, Writing, Finalizing
  <2> QED BY <2>1, <2>2 DEF TypeInv
<1>14. ASSUME NEW p \in Proc, FinalizeUnlink(p) PROVE TypeInv'
  <2>0. job[p].path \in Path /\ fd[p] = None
        BY <1>14 DEF FinalizeUnlink, TypeInv, TypeOK, Shape, JobShape, Finalizing
  <2>1. TypeOK'
        BY <1>p, <1>14, <2>0 DEF FinalizeUnlink, Unlink, Finish, TypeInv, TypeOK, PC, Result
  <2>2. Shape'
        BY <1>14, <2>0 DEF FinalizeUnlink, Unlink, Finish, TypeInv, TypeOK, Shape, JobShape, HandleOK,
                     Exists, Writing, Finalizing
  <2> QED BY <2>1, <2>2 DEF TypeInv
<1>15. ASSUME NEW p \in Proc, NEW id \in Uuid, upload_cancel(p, id) PROVE TypeInv'
      BY <1>p, <1>15, RemoveType DEF upload_cancel, TypeInv, TypeOK
<1>16. ASSUME NEW p \in Proc, NEW m \in Manifest, NEW t \in Tag \cup {None}, manifest_put(p, m, t)
       PROVE TypeInv'
  <2> DEFINE d == hash_content(ManifestBytes(m))
             j == [path |-> manifest_digest_path(d), bytes |-> ManifestBytes(m),
                   dest |-> IF t \in Tag THEN manifest_tag_path(t) ELSE None]
  <2>0. d \in ManifestDigest  BY DEF ManifestDigest
  <2>1. j \in Job  BY <2>0, JobFacts
  <2>2. Begin(p, "create", j) /\ puts' \subseteq Tag \X ManifestDigest
        BY <1>16, <2>0 DEF manifest_put, TypeInv, TypeOK
  <2>3. j.path \in ContentPath /\ j.path \in DigestPath /\ j.bytes # <<>>
        BY <2>0
  <2> HIDE DEF j
  <2> QED BY <1>p, <1>16, <2>1, <2>2, <2>3, BeginType DEF manifest_put, PC, Writing, Finalizing
<1>17. ASSUME NEW p \in Proc, NEW t \in Tag, manifest_get(p, t) PROVE TypeInv'
  <2> DEFINE g == manifest_tag_path(t)
             j == [path |-> None, bytes |-> file[g], dest |-> None]
  <2>1. CASE ~Exists(g)
        BY <1>p, <1>17, <2>1, ReplyType DEF manifest_get, Result
  <2>2. CASE Exists(g) /\ file[g] = <<>>
        BY <1>p, <1>17, <2>2, ReplyType DEF manifest_get, Result
  <2>3. CASE Exists(g) /\ file[g] # <<>>
    <3>1. j \in Job
          BY <2>3, JobFacts DEF Exists, TypeInv, TypeOK
    <3>2. Begin(p, "lookup", j)  BY <1>17, <2>3 DEF manifest_get
    <3> HIDE DEF j
    <3> QED BY <1>p, <1>17, <3>1, <3>2, BeginType DEF manifest_get, PC, Writing, Finalizing, TypeInv, TypeOK
  <2> QED BY <2>1, <2>2, <2>3
<1>18. ASSUME NEW p \in Proc, ReadManifest(p) PROVE TypeInv'
  <2>1. TypeOK'
        BY <1>p, <1>18 DEF ReadManifest, Finish, TypeInv, TypeOK, PC, Result
  <2>2. Shape'
        BY <1>18 DEF ReadManifest, Finish, TypeInv, TypeOK, Shape, JobShape, HandleOK, Exists,
                     Writing, Finalizing
  <2> QED BY <2>1, <2>2 DEF TypeInv
<1>19. ASSUME NEW p \in Proc, NEW path \in DigestPath \cup TagPath, manifest_delete(p, path)
       PROVE TypeInv'
  <2>1. dropped' \subseteq ManifestDigest  BY <1>19 DEF manifest_delete, TypeInv, TypeOK
  <2> QED BY <1>p, <1>19, <2>1, RemoveType DEF manifest_delete
<1>20. ASSUME Crash \/ PowerFailure PROVE TypeInv'
  <2>1. file' \in [Path -> Bytes \cup {None}] /\ synced' \subseteq Path
        BY <1>20 DEF Crash, PowerFailure, TypeInv, TypeOK
  <2>2. TypeOK'
        BY <1>p, <1>20, <2>1 DEF Crash, PowerFailure, Stop, TypeInv, TypeOK, PC, Result
  <2>3. Shape'
        BY <1>20 DEF Crash, PowerFailure, Stop, Shape, JobShape, HandleOK, Writing, Finalizing
  <2> QED BY <2>2, <2>3 DEF TypeInv
<1>21. CASE UNCHANGED vars
      BY <1>p, <1>21 DEF vars, TypeInv, TypeOK, Shape, JobShape, HandleOK, Exists
<1> QED BY <1>1, <1>2, <1>3, <1>4, <1>5, <1>6, <1>7, <1>8, <1>9, <1>10, <1>11, <1>12, <1>13,
           <1>14, <1>15, <1>16, <1>17, <1>18, <1>19, <1>20, <1>21 DEF Next

(* FsStorage is type correct: in every reachable state, whatever requests  *)
(* share and whatever fails, each handler holds a file handle exactly      *)
(* between opening a file and its last use of it.                          *)
THEOREM TypeCorrect == Spec => []TypeOK
<1>1. TypeInv => TypeOK  BY DEF TypeInv
<1> QED BY <1>1, TypeInit, TypeStep, PTL DEF Spec

-----------------------------------------------------------------------------
(* Integrity of the stored files, when no two requests in flight share a   *)
(* temporary file or an upload session and finalize can rename.            *)

KeptApart == "tmp" \in Exclusive /\ "session" \in Exclusive /\ ~CrossFs

(* A writing handler owns its temporary file: nobody else has touched it   *)
(* since it was created. A handler of an upload owns the upload likewise.  *)
Owner(p) ==
    LET j == job[p] IN
    /\ pc[p] \in Writing =>
        /\ j.path \in ContentPath => hash_content(j.bytes) = j.path.name
        /\ j.path \in TagPath => \E d \in ManifestDigest : /\ j.bytes = TagBytes(d)
                                                           /\ <<j.path.name, d>> \in puts
        /\ j.dest \in TagPath => <<j.dest.name, j.path.name>> \in puts
    /\ pc[p] = "write" =>
            fd[p] = TmpOf(j.path) /\ file[TmpOf(j.path)] = SubSeq(j.bytes, 1, written[p])
    /\ pc[p] = "sync" => fd[p] = TmpOf(j.path) /\ file[TmpOf(j.path)] = j.bytes
    /\ pc[p] = "rename" => TmpOf(j.path) \in synced /\ file[TmpOf(j.path)] = j.bytes
    /\ pc[p] = "append" => fd[p] = j.path
    /\ pc[p] = "move" => file[j.path] = j.bytes /\ hash_content(j.bytes) = j.dest.name
    /\ pc[p] \notin {"trunc", "fill", "unlink"}

Owners == \A p \in Proc : Owner(p)

(* No two requests in flight share what they must not.                     *)
Disjoint ==
    \A p, q \in Proc : p # q /\ pc[p] # "idle" /\ pc[q] # "idle" =>
        /\ TmpFiles(job[p]) \cap TmpFiles(job[q]) = {}
        /\ Session(job[p]) \cap Session(job[q]) = {}

(* The files readers see. Manifests and tags are on disk; a blob that came *)
(* from an upload need not be, so a power failure may take its bytes.      *)
FilesOK ==
    /\ ManifestIntact
    /\ TagFromPut
    /\ \A path \in DigestPath \cup TagPath : Exists(path) => path \in synced
    /\ "power" \notin Failures =>
        \A path \in BlobPath : Exists(path) => hash_content(file[path]) = path.name

(* Uploads that are there were handed out, so a new id is nobody's.        *)
UsedOK == \A path \in UploadPath : Exists(path) => path.name \in used

IInv == TypeInv /\ Owners /\ Disjoint /\ FilesOK /\ UsedOK

(* The initial state satisfies the invariant.                              *)
LEMMA IInvInit == Init => IInv
<1> SUFFICES ASSUME Init PROVE IInv  OBVIOUS
<1>1. Owners /\ Disjoint  BY DEF Init, Owners, Owner, Disjoint, Writing
<1>2. FilesOK /\ UsedOK
      BY PathFacts DEF Init, FilesOK, ManifestIntact, TagFromPut, UsedOK, Exists
<1> QED BY <1>1, <1>2, TypeInit DEF IInv

(* What a handler owns is its own.                                         *)
LEMMA OwnPaths ==
    ASSUME TypeInv, Disjoint, NEW p \in Proc, NEW q \in Proc, p # q
    PROVE  /\ pc[p] \in Writing /\ pc[q] \in Writing => TmpOf(job[p].path) # TmpOf(job[q].path)
           /\ pc[p] \in {"append", "move"} /\ pc[q] \in {"append", "move"} =>
                  job[p].path # job[q].path
<1>1. ASSUME NEW r \in Proc, pc[r] \in Writing PROVE TmpOf(job[r].path) \in TmpFiles(job[r])
      BY <1>1, PathFacts DEF TypeInv, Shape, JobShape, TmpFiles
<1>2. ASSUME NEW r \in Proc, pc[r] \in {"append", "move"} PROVE job[r].path \in Session(job[r])
      BY <1>2, PathFacts DEF TypeInv, Shape, JobShape, Session, Finalizing
<1> QED BY <1>1, <1>2 DEF Disjoint, Writing

(* A handler that did not move keeps what it owns if nobody touched it.    *)
LEMMA OwnerFrame ==
    ASSUME TypeInv, NEW q \in Proc, Owner(q),
           pc'[q] = pc[q], job'[q] = job[q], fd'[q] = fd[q], written'[q] = written[q],
           puts \subseteq puts',
           pc[q] \in Writing =>
              /\ file'[TmpOf(job[q].path)] = file[TmpOf(job[q].path)]
              /\ TmpOf(job[q].path) \in synced => TmpOf(job[q].path) \in synced',
           pc[q] = "move" => file'[job[q].path] = file[job[q].path]
    PROVE  Owner(q)'
BY DEF Owner, Writing

(* Tags that are still there and unchanged still come from a put.          *)
LEMMA TagFrame ==
    ASSUME TagFromPut, puts \subseteq puts',
           \A t \in Tag : file'[manifest_tag_path(t)] # None =>
                            file'[manifest_tag_path(t)] = file[manifest_tag_path(t)]
    PROVE  TagFromPut'
<1> SUFFICES ASSUME NEW t \in Tag, file'[manifest_tag_path(t)] # None
             PROVE  \E d \in ManifestDigest : /\ <<t, d>> \in puts'
                                              /\ file'[manifest_tag_path(t)] = TagBytes(d)
      BY DEF TagFromPut, Exists
<1>1. PICK d \in ManifestDigest : <<t, d>> \in puts /\ file[manifest_tag_path(t)] = TagBytes(d)
      BY DEF TagFromPut, Exists
<1> QED BY <1>1

(* Readers see the same files if no published file changed.                *)
LEMMA FilesFrame ==
    ASSUME FilesOK, puts \subseteq puts',
           \A path \in ContentPath \cup TagPath :
              /\ file'[path] = file[path]
              /\ path \in synced => path \in synced'
    PROVE  FilesOK'
<1> USE PathFacts
<1>1. ManifestIntact'  BY DEF FilesOK, ManifestIntact, Exists
<1>2. TagFromPut'  BY TagFrame DEF FilesOK
<1>3. (\A path \in DigestPath \cup TagPath : Exists(path) => path \in synced)'
      BY DEF FilesOK, Exists
<1>4. ("power" \notin Failures =>
        \A path \in BlobPath : Exists(path) => hash_content(file[path]) = path.name)'
      BY DEF FilesOK, Exists
<1> QED BY <1>1, <1>2, <1>3, <1>4 DEF FilesOK

(* The requests in flight stay apart when a new one starts,                *)
LEMMA BeginDisjoint ==
    ASSUME TypeInv, KeptApart, Disjoint, NEW p \in Proc, NEW at, NEW j, Begin(p, at, j)
    PROVE  Disjoint'
<1> SUFFICES ASSUME NEW a \in Proc, NEW b \in Proc, a # b, pc'[a] # "idle", pc'[b] # "idle"
             PROVE  /\ TmpFiles(job'[a]) \cap TmpFiles(job'[b]) = {}
                    /\ Session(job'[a]) \cap Session(job'[b]) = {}
      BY DEF Disjoint, TmpFiles, Session
<1>1. CASE a = p
      BY <1>1 DEF Begin, Apart, KeptApart, TypeInv, TypeOK
<1>2. CASE b = p
      BY <1>2 DEF Begin, Apart, KeptApart, TypeInv, TypeOK
<1>3. CASE a # p /\ b # p
      BY <1>3 DEF Begin, Disjoint, TypeInv, TypeOK
<1> QED BY <1>1, <1>2, <1>3

(* and when one goes on with no more than it had, or ends.                 *)
LEMMA GoOnDisjoint ==
    ASSUME TypeInv, Disjoint, NEW p \in Proc,
           \A q \in Proc \ {p} : pc'[q] = pc[q] /\ job'[q] = job[q],
           \/ pc'[p] = "idle"
           \/ /\ pc[p] # "idle"
              /\ TmpFiles(job'[p]) \subseteq TmpFiles(job[p])
              /\ Session(job'[p]) \subseteq Session(job[p])
    PROVE  Disjoint'
<1> SUFFICES ASSUME NEW a \in Proc, NEW b \in Proc, a # b, pc'[a] # "idle", pc'[b] # "idle"
             PROVE  /\ TmpFiles(job'[a]) \cap TmpFiles(job'[b]) = {}
                    /\ Session(job'[a]) \cap Session(job'[b]) = {}
      BY DEF Disjoint, TmpFiles, Session
<1>1. CASE a = p  BY <1>1 DEF Disjoint
<1>2. CASE b = p  BY <1>2 DEF Disjoint
<1>3. CASE a # p /\ b # p  BY <1>3 DEF Disjoint
<1> QED BY <1>1, <1>2, <1>3

(* Nobody who is where the invariant puts him holds a published file.      *)
LEMMA HandlesPrivate ==
    ASSUME TypeInv, Owners, NEW q \in Proc
    PROVE  /\ fd[q] \notin ContentPath \cup TagPath
           /\ fd[q] \in TmpPath => pc[q] \in Writing /\ fd[q] = TmpOf(job[q].path)
           /\ fd[q] \in UploadPath => pc[q] = "append" /\ fd[q] = job[q].path
<1>1. CASE pc[q] \in {"write", "sync"}
  <2>1. fd[q] = TmpOf(job[q].path)  BY <1>1 DEF Owners, Owner
  <2>2. TmpOf(job[q].path) \in TmpPath
        BY <1>1, PathFacts DEF TypeInv, Shape, JobShape, Writing
  <2> QED BY <1>1, <2>1, <2>2, PathFacts DEF Writing
<1>2. CASE pc[q] = "append"
  <2>1. fd[q] = job[q].path /\ job[q].path \in UploadPath
        BY <1>2 DEF Owners, Owner, TypeInv, Shape, JobShape
  <2> QED BY <1>2, <2>1, PathFacts
<1>3. CASE pc[q] \notin {"write", "sync", "append"}
  <2>1. fd[q] = None  BY <1>3 DEF Owners, Owner, TypeInv, TypeOK
  <2> QED BY <2>1, PathFacts
<1> QED BY <1>1, <1>2, <1>3

(* Removing a file that no handler owns.                                   *)
LEMMA RemoveIInv ==
    ASSUME IInv, TypeInv', NEW p \in Proc, NEW path \in Path, RemoveFile(p, path),
           UNCHANGED <<used, puts>>, path \notin TmpPath,
           \A q \in Proc : pc[q] \in {"append", "move"} => job[q].path # path
    PROVE  IInv'
<1> USE PathFacts DEF IInv
<1>1. /\ UNCHANGED <<pc, job, written>>
      /\ \A x \in Path \ {path} : file'[x] = file[x] /\ (x \in synced => x \in synced')
      /\ file'[path] \in {None, file[path]}
      /\ path \in synced => path \in synced' \/ file'[path] = None
      /\ fd' \in [Proc -> Path \cup {None, Unlinked}]
      /\ \A q \in Proc : fd'[q] = fd[q] \/ fd[q] = path
      BY DEF RemoveFile, Reply, Unlink, TypeInv, TypeOK
<1>2. \A q \in Proc : fd'[q] = fd[q]
      BY <1>1, HandlesPrivate DEF Shape
<1>3. Owners'
  <2> SUFFICES ASSUME NEW q \in Proc PROVE Owner(q)'  BY DEF Owners
  <2>1. pc[q] \in Writing => TmpOf(job[q].path) \in Path \ {path}
        BY DEF TypeInv, Shape, JobShape
  <2>2. pc[q] = "move" => job[q].path \in Path \ {path}
        BY DEF TypeInv, Shape, JobShape, Finalizing
  <2> QED BY <1>1, <1>2, <2>1, <2>2, OwnerFrame DEF Owners
<1>4. Disjoint'  BY <1>1, SMTT(30) DEF Disjoint, TmpFiles, Session
<1>5. FilesOK'
  <2>0. \A x \in Path : file'[x] # None => file'[x] = file[x] /\ (x \in synced => x \in synced')
        BY <1>1
  <2>1. ManifestIntact'  BY <2>0 DEF FilesOK, ManifestIntact, Exists
  <2>2. TagFromPut'  BY <2>0, TagFrame DEF FilesOK
  <2>3. (\A x \in DigestPath \cup TagPath : Exists(x) => x \in synced)'
        BY <2>0 DEF FilesOK, Exists
  <2>4. ("power" \notin Failures =>
          \A x \in BlobPath : Exists(x) => hash_content(file[x]) = x.name)'
        BY <2>0 DEF FilesOK, Exists
  <2> QED BY <2>1, <2>2, <2>3, <2>4 DEF FilesOK
<1>6. UsedOK'  BY <1>1 DEF UsedOK, Exists
<1> QED BY <1>3, <1>4, <1>5, <1>6

(* A request that starts, touching no file, with arguments that own.       *)
LEMMA BeginIInv ==
    ASSUME IInv, TypeInv', KeptApart, NEW p \in Proc, NEW at, NEW j, Begin(p, at, j),
           Owner(p)', UNCHANGED <<file, synced, used>>, puts \subseteq puts',
           \A q \in Proc \ {p} : fd'[q] = fd[q]
    PROVE  IInv'
<1> USE DEF IInv
<1>1. Owners'
  <2> SUFFICES ASSUME NEW q \in Proc, q # p PROVE Owner(q)'  BY DEF Owners
  <2>1. pc'[q] = pc[q] /\ job'[q] = job[q] /\ written' = written
        BY DEF Begin, TypeInv, TypeOK
  <2> QED BY <2>1, OwnerFrame DEF Owners
<1>2. Disjoint'  BY BeginDisjoint
<1>3. FilesOK'  BY FilesFrame
<1>4. UsedOK'  BY DEF UsedOK, Exists
<1> QED BY <1>1, <1>2, <1>3, <1>4

(* A request answered at once that changes no file.                        *)
LEMMA ReplyIInv ==
    ASSUME IInv, TypeInv', NEW p \in Proc, NEW r, Reply(p, r),
           UNCHANGED <<file, synced, fd, used, puts>>
    PROVE  IInv'
<1> USE DEF IInv
<1>1. Owners'  BY OwnerFrame DEF Owners, Reply
<1>2. Disjoint'  BY DEF Disjoint, TmpFiles, Session, Reply
<1>3. FilesOK'  BY FilesFrame
<1>4. UsedOK'  BY DEF UsedOK, Exists
<1> QED BY <1>1, <1>2, <1>3, <1>4

(* Every step keeps the invariant.                                         *)
LEMMA IInvStep == ASSUME KeptApart PROVE IInv /\ [Next]_vars => IInv'
<1> SUFFICES ASSUME IInv, [Next]_vars PROVE IInv'  OBVIOUS
<1> USE PathFacts, BytesFacts, JobFacts DEF IInv
<1>0. TypeInv'  BY TypeStep
<1>1. ASSUME NEW p \in Proc, AtomicCreate(p) PROVE IInv'
  <2> DEFINE t == TmpOf(job[p].path)
  <2>0. t \in TmpPath /\ pc[p] \in Writing
        BY <1>1 DEF AtomicCreate, TypeInv, Shape, JobShape, Writing
  <2>1. /\ \A x \in Path \ {t} : file'[x] = file[x] /\ (x \in synced => x \in synced')
        /\ file'[t] = <<>> /\ fd'[p] = t /\ pc'[p] = "write"
        /\ UNCHANGED <<job, written, used, puts>>
        /\ \A q \in Proc \ {p} : pc'[q] = pc[q] /\ fd'[q] = fd[q]
        BY <1>1, <2>0 DEF AtomicCreate, Create, Goto, TypeInv, TypeOK
  <2>2. Owners'
    <3>1. Owner(p)'
      <4>1. job[p].bytes \in Bytes /\ written[p] = 0
            BY <1>1 DEF AtomicCreate, TypeInv, TypeOK, ProgressOK
      <4>2. SubSeq(job[p].bytes, 1, 0) = <<>>
        <5>1. 0 < Len(job[p].bytes)
              BY <2>0, <4>1 DEF TypeInv, Shape, JobShape, Bytes
        <5> QED BY <4>1, <5>1, WriteNext
      <4> QED BY <2>0, <2>1, <4>1, <4>2 DEF Owners, Owner, Writing
    <3>2. ASSUME NEW q \in Proc, q # p PROVE Owner(q)'
      <4>1. pc[q] \in Writing => TmpOf(job[q].path) \in Path \ {t}
            BY <2>0, <3>2, OwnPaths DEF TypeInv, Shape, JobShape
      <4>2. pc[q] = "move" => job[q].path \in Path \ {t}
            BY <2>0 DEF TypeInv, Shape, JobShape, Finalizing
      <4> QED BY <2>1, <3>2, <4>1, <4>2, OwnerFrame DEF Owners
    <3> QED BY <3>1, <3>2 DEF Owners
  <2>3. Disjoint'  BY <2>0, <2>1, GoOnDisjoint DEF Writing
  <2>4. FilesOK'  BY <2>0, <2>1, FilesFrame
  <2>5. UsedOK'  BY <2>0, <2>1 DEF UsedOK, Exists
  <2> QED BY <1>0, <2>2, <2>3, <2>4, <2>5
<1>2. ASSUME NEW p \in Proc, AtomicWrite(p) PROVE IInv'
  <2> DEFINE t == TmpOf(job[p].path)  b == job[p].bytes  n == written[p]
  <2>0. /\ t \in TmpPath /\ pc[p] \in Writing /\ pc[p] = "write" /\ fd[p] = t
        /\ file[t] = SubSeq(b, 1, n) /\ b \in Bytes /\ n \in Nat /\ n < Len(b)
        BY <1>2, WriteSpan DEF AtomicWrite, TypeInv, TypeOK, Shape, JobShape, Writing, Owners, Owner
  <2>a. WriteAt(Contents(fd[p]), n + 1, b[n + 1]) = SubSeq(b, 1, n + 1)
        BY <2>0, WriteNext DEF Contents
  <2>1. /\ \A x \in Path \ {t} : file'[x] = file[x] /\ (x \in synced => x \in synced')
        /\ file'[t] = SubSeq(b, 1, n + 1) /\ UNCHANGED <<fd, job, used, puts>>
        /\ IF n + 1 = Len(b) THEN pc'[p] = "sync" ELSE pc'[p] = "write" /\ written'[p] = n + 1
        /\ \A q \in Proc \ {p} : pc'[q] = pc[q] /\ written'[q] = written[q]
        BY <1>2, <2>0, <2>a DEF AtomicWrite, Write, Advance, TypeInv, TypeOK, ProgressOK
  <2>2. Owners'
    <3>1. Owner(p)'
      <4>1. SubSeq(b, 1, Len(b)) = b  BY <2>0, WriteNext
      <4> QED BY <2>0, <2>1, <4>1 DEF Owners, Owner, Writing
    <3>2. ASSUME NEW q \in Proc, q # p PROVE Owner(q)'
      <4>1. pc[q] \in Writing => TmpOf(job[q].path) \in Path \ {t}
            BY <2>0, <3>2, OwnPaths DEF TypeInv, Shape, JobShape
      <4>2. pc[q] = "move" => job[q].path \in Path \ {t}
            BY <2>0 DEF TypeInv, Shape, JobShape, Finalizing
      <4> QED BY <2>1, <3>2, <4>1, <4>2, OwnerFrame DEF Owners
    <3> QED BY <3>1, <3>2 DEF Owners
  <2>3. Disjoint'  BY <2>0, <2>1, GoOnDisjoint DEF Writing
  <2>4. FilesOK'  BY <2>0, <2>1, FilesFrame
  <2>5. UsedOK'  BY <2>0, <2>1 DEF UsedOK, Exists
  <2> QED BY <1>0, <2>2, <2>3, <2>4, <2>5
<1>3. ASSUME NEW p \in Proc, AtomicSync(p) PROVE IInv'
  <2> DEFINE t == TmpOf(job[p].path)
  <2>0. t \in TmpPath /\ pc[p] = "sync" /\ fd[p] = t /\ file[t] = job[p].bytes
        BY <1>3 DEF AtomicSync, TypeInv, Shape, JobShape, Writing, Owners, Owner
  <2>1. /\ synced' = synced \cup {t}
        /\ pc'[p] = "rename" /\ UNCHANGED <<file, job, written, used, puts>>
        /\ \A q \in Proc \ {p} : pc'[q] = pc[q] /\ fd'[q] = fd[q]
        BY <1>3, <2>0 DEF AtomicSync, Close, Goto, TypeInv, TypeOK
  <2>2. Owners'
    <3>1. Owner(p)'  BY <2>0, <2>1 DEF Owners, Owner, Writing
    <3>2. ASSUME NEW q \in Proc, q # p PROVE Owner(q)'
          BY <2>1, <3>2, OwnerFrame DEF Owners
    <3> QED BY <3>1, <3>2 DEF Owners
  <2>3. Disjoint'  BY <2>0, <2>1, GoOnDisjoint
  <2>4. FilesOK'  BY <2>1, FilesFrame
  <2>5. UsedOK'  BY <2>1 DEF UsedOK, Exists
  <2> QED BY <1>0, <2>2, <2>3, <2>4, <2>5
<1>4. ASSUME NEW p \in Proc, AtomicRename(p) PROVE IInv'
  <2> DEFINE path == job[p].path  tag == job[p].dest  t == TmpOf(path)
  <2>0. /\ path \in ContentPath \cup TagPath /\ (tag \in TagPath => path \in DigestPath)
        /\ t \in TmpPath /\ pc[p] = "rename" /\ pc[p] \in Writing /\ fd[p] = None
        /\ t \in synced /\ file[t] = job[p].bytes /\ job[p].bytes \in Bytes
        BY <1>4 DEF AtomicRename, TypeInv, TypeOK, Shape, JobShape, Writing, Owners, Owner
  <2>1. Rename(t, path) /\ UNCHANGED <<used, puts, dropped>>
        BY <1>4, <2>0 DEF AtomicRename, Exists
  <2>2. /\ \A x \in Path \ {t, path} : file'[x] = file[x] /\ (x \in synced => x \in synced')
        /\ file'[path] = job[p].bytes /\ path \in synced' /\ file'[t] = None
        BY <2>0, <2>1 DEF Rename, TypeInv, TypeOK
  <2>3. \A q \in Proc : fd'[q] = fd[q]
    <3> TAKE q \in Proc
    <3>1. fd[q] # path  BY <2>0, HandlesPrivate
    <3>2. fd[q] # t  BY <2>0, HandlesPrivate, OwnPaths
    <3> QED BY <2>1, <3>1, <3>2 DEF Rename
  <2>4. written' = written /\ \A q \in Proc \ {p} : pc'[q] = pc[q] /\ job'[q] = job[q]
        BY <1>4, <2>0 DEF AtomicRename, Finish, Exists, TypeInv, TypeOK
  <2>5. Owner(p)'
    <3>1. CASE tag \in TagPath
      <4>1. /\ pc'[p] = "create" /\ job'[p].path = tag /\ job'[p].dest = None
            /\ job'[p].bytes = TagBytes(path.name)
            BY <1>4, <2>0, <3>1 DEF AtomicRename, Exists, TypeInv, TypeOK
      <4>2. path.name \in ManifestDigest /\ <<tag.name, path.name>> \in puts
            BY <2>0, <3>1 DEF Owners, Owner
      <4> QED BY <2>1, <3>1, <4>1, <4>2 DEF Owner, Writing
    <3>2. CASE tag \notin TagPath
      <4>1. pc'[p] = "idle"
            BY <1>4, <2>0, <3>2 DEF AtomicRename, Finish, Exists, TypeInv, TypeOK
      <4> QED BY <4>1 DEF Owner, Writing
    <3> QED BY <3>1, <3>2
  <2>6. Owners'
    <3>2. ASSUME NEW q \in Proc, q # p PROVE Owner(q)'
      <4>1. pc[q] \in Writing => TmpOf(job[q].path) \in Path \ {t, path}
            BY <2>0, <3>2, OwnPaths DEF TypeInv, Shape, JobShape
      <4>2. pc[q] = "move" => job[q].path \in Path \ {t, path}
            BY <2>0 DEF TypeInv, Shape, JobShape, Finalizing
      <4> QED BY <2>1, <2>2, <2>3, <2>4, <3>2, <4>1, <4>2, OwnerFrame DEF Owners
    <3> QED BY <2>5, <3>2 DEF Owners
  <2>7. Disjoint'
    <3>1. CASE tag \in TagPath
      <4>1. pc'[p] = "create" /\ job'[p].path = tag /\ job'[p].dest = None
            BY <1>4, <2>0, <3>1 DEF AtomicRename, Exists, TypeInv, TypeOK
      <4>2. TmpFiles(job'[p]) \subseteq TmpFiles(job[p]) /\ Session(job'[p]) \subseteq Session(job[p])
            BY <2>0, <3>1, <4>1 DEF TmpFiles, Session
      <4> QED BY <2>0, <2>4, <4>2, GoOnDisjoint
    <3>2. CASE tag \notin TagPath
      <4>1. pc'[p] = "idle"
            BY <1>4, <2>0, <3>2 DEF AtomicRename, Finish, Exists, TypeInv, TypeOK
      <4> QED BY <2>4, <4>1, GoOnDisjoint
    <3> QED BY <3>1, <3>2
  <2>8. FilesOK'
    <3>0. /\ path \in ContentPath => hash_content(job[p].bytes) = path.name
          /\ path \in TagPath => \E d \in ManifestDigest : /\ job[p].bytes = TagBytes(d)
                                                           /\ <<path.name, d>> \in puts
          BY <2>0 DEF Owners, Owner
    <3>1. ManifestIntact'
          BY <2>0, <2>2, <3>0 DEF FilesOK, ManifestIntact, Exists
    <3>2. TagFromPut'
      <4> SUFFICES ASSUME NEW g \in Tag, file'[manifest_tag_path(g)] # None
                   PROVE  \E d \in ManifestDigest :
                            /\ <<g, d>> \in puts
                            /\ file'[manifest_tag_path(g)] = TagBytes(d)
            BY <2>1 DEF TagFromPut, Exists
      <4>0. manifest_tag_path(g) \in TagPath /\ manifest_tag_path(g).name = g  OBVIOUS
      <4>1. CASE manifest_tag_path(g) = path
        <5>1. path \in TagPath /\ path.name = g  BY <4>0, <4>1
        <5>2. PICK d \in ManifestDigest : job[p].bytes = TagBytes(d) /\ <<path.name, d>> \in puts
              BY <3>0, <5>1
        <5> QED BY <2>2, <4>1, <5>1, <5>2
      <4>2. CASE manifest_tag_path(g) # path
        <5>1. manifest_tag_path(g) \in Path \ {t, path}  BY <2>0, <4>0, <4>2
        <5>2. file'[manifest_tag_path(g)] = file[manifest_tag_path(g)]  BY <2>2, <5>1
        <5> QED BY <5>2 DEF FilesOK, TagFromPut, Exists
      <4> QED BY <4>1, <4>2
    <3>3. (\A x \in DigestPath \cup TagPath : Exists(x) => x \in synced)'
          BY <2>0, <2>2 DEF FilesOK, Exists
    <3>4. ("power" \notin Failures =>
            \A x \in BlobPath : Exists(x) => hash_content(file[x]) = x.name)'
          BY <2>0, <2>2, <3>0 DEF FilesOK, Exists
    <3> QED BY <3>1, <3>2, <3>3, <3>4 DEF FilesOK
  <2>9. UsedOK'  BY <2>0, <2>1, <2>2 DEF UsedOK, Exists
  <2> QED BY <1>0, <2>6, <2>7, <2>8, <2>9
<1>5. ASSUME NEW p \in Proc, NEW b \in Payload, NEW d \in BlobDigest, blob_write(p, d, b)
      PROVE IInv'
  <2>1. CASE hash_content(b) # d
        BY <1>0, <1>5, <2>1, ReplyIInv DEF blob_write
  <2>2. CASE hash_content(b) = d
    <3> DEFINE j == [path |-> blob_path(d), bytes |-> b, dest |-> None]
    <3>1. Begin(p, "create", j)  BY <1>5, <2>2 DEF blob_write
    <3>2. pc'[p] = "create" /\ job'[p] = j  BY <3>1 DEF Begin, TypeInv, TypeOK
    <3>3. Owner(p)'  BY <2>2, <3>2 DEF Owner, Writing
    <3> HIDE DEF j
    <3> QED BY <1>0, <1>5, <3>1, <3>3, BeginIInv DEF blob_write
  <2> QED BY <2>1, <2>2
<1>6. ASSUME NEW p \in Proc, NEW d \in BlobDigest, blob_delete(p, d) PROVE IInv'
  <2>1. \A q \in Proc : pc[q] \in {"append", "move"} => job[q].path # blob_path(d)
        BY DEF TypeInv, Shape, JobShape, Finalizing
  <2> QED BY <1>0, <1>6, <2>1, RemoveIInv DEF blob_delete
<1>7. ASSUME NEW p \in Proc, upload_create(p) PROVE IInv'
  <2>1. PICK id \in Uuid \ used : /\ file' = [file EXCEPT ![upload_path(id)] = <<>>]
                                  /\ used' = used \cup {id}
        BY <1>7 DEF upload_create
  <2> DEFINE u == upload_path(id)
  <2>2. u \in UploadPath /\ file[u] = None /\ u.name = id
        BY <2>1 DEF UsedOK, Exists, upload_path
  <2>3. /\ \A x \in Path \ {u} : file'[x] = file[x]
        /\ UNCHANGED <<synced, pc, job, fd, written, puts>>
        BY <1>7, <2>1 DEF upload_create, Reply, TypeInv, TypeOK
  <2>4. Owners'
    <3> SUFFICES ASSUME NEW q \in Proc PROVE Owner(q)'  BY DEF Owners
    <3>1. pc[q] \in Writing => TmpOf(job[q].path) \in Path \ {u}
          BY <2>2 DEF TypeInv, Shape, JobShape
    <3>2. pc[q] = "move" => job[q].path \in Path \ {u}
      <4>1. ASSUME pc[q] = "move" PROVE job[q].path \in UploadPath /\ file[job[q].path] \in Bytes
        <5>1. job[q].path \in UploadPath  BY <4>1 DEF TypeInv, Shape, JobShape, Finalizing
        <5>2. job[q] \in Job  BY DEF TypeInv, TypeOK
        <5>3. file[job[q].path] = job[q].bytes  BY <4>1 DEF Owners, Owner
        <5> QED BY <5>1, <5>2, <5>3
      <4> QED BY <2>2, <4>1
    <3> QED BY <2>3, <3>1, <3>2, OwnerFrame DEF Owners
  <2>5. Disjoint'  BY <2>3, SMTT(30) DEF Disjoint, TmpFiles, Session
  <2>6. FilesOK'  BY <2>2, <2>3, FilesFrame
  <2>7. UsedOK'  BY <2>1, <2>2, <2>3 DEF UsedOK, Exists
  <2> QED BY <1>0, <2>4, <2>5, <2>6, <2>7
<1>8. ASSUME NEW p \in Proc, NEW id \in Uuid, NEW c \in Chunk, upload_append(p, id, c)
      PROVE IInv'
  <2>1. CASE ~Exists(upload_path(id))
        BY <1>0, <1>8, <2>1, ReplyIInv DEF upload_append
  <2>2. CASE Exists(upload_path(id))
    <3> DEFINE j == [path |-> upload_path(id), bytes |-> <<c>>, dest |-> None]
    <3>1. Begin(p, "append", j)  BY <1>8, <2>2 DEF upload_append
    <3>2. /\ pc'[p] = "append" /\ job'[p] = j /\ fd'[p] = upload_path(id)
          /\ \A q \in Proc \ {p} : fd'[q] = fd[q]
          BY <1>8, <2>2, <3>1 DEF upload_append, Begin, TypeInv, TypeOK
    <3>3. Owner(p)'  BY <3>2 DEF Owner, Writing
    <3> HIDE DEF j
    <3> QED BY <1>0, <1>8, <3>1, <3>2, <3>3, BeginIInv DEF upload_append
  <2> QED BY <2>1, <2>2
<1>9. ASSUME NEW p \in Proc, AppendChunk(p) PROVE IInv'
  <2> DEFINE u == job[p].path
  <2>0. u \in UploadPath /\ pc[p] = "append" /\ fd[p] = u /\ file[u] # None
    <3>1. pc[p] = "append"  BY <1>9 DEF AppendChunk
    <3>2. u \in UploadPath /\ fd[p] = u
          BY <3>1 DEF TypeInv, Shape, JobShape, Owners, Owner
    <3>3. file[u] # None  BY <3>2 DEF TypeInv, Shape, HandleOK, Exists
    <3> QED BY <3>1, <3>2, <3>3
  <2>1. /\ \A x \in Path \ {u} : file'[x] = file[x] /\ (x \in synced => x \in synced')
        /\ pc'[p] = "idle" /\ UNCHANGED <<written, used, puts>>
        /\ \A q \in Proc \ {p} : pc'[q] = pc[q] /\ fd'[q] = fd[q] /\ job'[q] = job[q]
        BY <1>9, <2>0 DEF AppendChunk, Write, Close, Finish, TypeInv, TypeOK
  <2>2. Owners'
    <3>1. Owner(p)'  BY <2>1 DEF Owner, Writing
    <3>2. ASSUME NEW q \in Proc, q # p PROVE Owner(q)'
      <4>1. pc[q] \in Writing => TmpOf(job[q].path) \in Path \ {u}
            BY <2>0 DEF TypeInv, Shape, JobShape
      <4>2. pc[q] = "move" => job[q].path \in Path \ {u}
            BY <2>0, <3>2, OwnPaths DEF TypeInv, Shape, JobShape, Finalizing
      <4> QED BY <2>1, <3>2, <4>1, <4>2, OwnerFrame DEF Owners
    <3> QED BY <3>1, <3>2 DEF Owners
  <2>3. Disjoint'  BY <2>1, GoOnDisjoint
  <2>4. FilesOK'  BY <2>0, <2>1, FilesFrame
  <2>5. UsedOK'  BY <2>0, <2>1 DEF UsedOK, Exists
  <2> QED BY <1>0, <2>2, <2>3, <2>4, <2>5
<1>10. ASSUME NEW p \in Proc, NEW id \in Uuid, NEW d \in BlobDigest, upload_finalize(p, id, d)
       PROVE IInv'
  <2> DEFINE u == upload_path(id)
             j == [path |-> u, bytes |-> file[u], dest |-> blob_path(d)]
  <2>1. CASE ~Exists(u)
        BY <1>0, <1>10, <2>1, ReplyIInv DEF upload_finalize
  <2>2. CASE Exists(u) /\ hash_content(file[u]) # d
        BY <1>0, <1>10, <2>2, ReplyIInv DEF upload_finalize
  <2>3. CASE Exists(u) /\ hash_content(file[u]) = d
    <3>1. Begin(p, "move", j) /\ UNCHANGED file  BY <1>10, <2>3 DEF upload_finalize
    <3>2. pc'[p] = "move" /\ job'[p] = j  BY <3>1 DEF Begin, TypeInv, TypeOK
    <3>3. Owner(p)'  BY <2>3, <3>1, <3>2 DEF Owner, Writing
    <3> HIDE DEF j
    <3> QED BY <1>0, <1>10, <3>1, <3>3, BeginIInv DEF upload_finalize
  <2> QED BY <2>1, <2>2, <2>3
<1>11. ASSUME NEW p \in Proc, FinalizeMove(p) PROVE IInv'
  <2> DEFINE u == job[p].path  dest == job[p].dest
  <2>0. /\ u \in UploadPath /\ dest \in BlobPath /\ pc[p] = "move" /\ fd[p] = None
        /\ file[u] = job[p].bytes /\ job[p].bytes \in Bytes /\ hash_content(file[u]) = dest.name
        BY <1>11 DEF FinalizeMove, TypeInv, TypeOK, Shape, JobShape, Finalizing, Owners, Owner
  <2>1. Rename(u, dest) /\ Finish(p, "ok") /\ UNCHANGED <<used, puts>>
        BY <1>11, <2>0 DEF FinalizeMove, KeptApart, Exists
  <2>2. /\ \A x \in Path \ {u, dest} : file'[x] = file[x] /\ (x \in synced => x \in synced')
        /\ file'[dest] = file[u] /\ file'[u] = None /\ pc'[p] = "idle" /\ written' = written
        /\ \A q \in Proc \ {p} : pc'[q] = pc[q] /\ job'[q] = job[q]
        BY <2>0, <2>1 DEF Rename, Finish, TypeInv, TypeOK
  <2>3. \A q \in Proc : fd'[q] = fd[q]
    <3> TAKE q \in Proc
    <3>1. fd[q] # dest  BY <2>0, HandlesPrivate
    <3>2. fd[q] # u  BY <2>0, HandlesPrivate, OwnPaths
    <3> QED BY <2>1, <3>1, <3>2 DEF Rename
  <2>4. Owners'
    <3>1. Owner(p)'  BY <2>2 DEF Owner, Writing
    <3>2. ASSUME NEW q \in Proc, q # p PROVE Owner(q)'
      <4>1. pc[q] \in Writing => TmpOf(job[q].path) \in Path \ {u, dest}
            BY <2>0 DEF TypeInv, Shape, JobShape
      <4>2. pc[q] = "move" => job[q].path \in Path \ {u, dest}
            BY <2>0, <3>2, OwnPaths DEF TypeInv, Shape, JobShape, Finalizing
      <4> QED BY <2>1, <2>2, <2>3, <3>2, <4>1, <4>2, OwnerFrame DEF Owners
    <3> QED BY <3>1, <3>2 DEF Owners
  <2>5. Disjoint'  BY <2>2, GoOnDisjoint
  <2>6. FilesOK'
    <3>1. ManifestIntact'  BY <2>0, <2>2 DEF FilesOK, ManifestIntact, Exists
    <3>2. TagFromPut'
      <4>1. \A g \in Tag : manifest_tag_path(g) \in Path \ {u, dest}  BY <2>0
      <4> QED BY <2>1, <2>2, <4>1, TagFrame DEF FilesOK
    <3>3. (\A x \in DigestPath \cup TagPath : Exists(x) => x \in synced)'
          BY <2>0, <2>2 DEF FilesOK, Exists
    <3>4. ("power" \notin Failures =>
            \A x \in BlobPath : Exists(x) => hash_content(file[x]) = x.name)'
          BY <2>0, <2>2 DEF FilesOK, Exists
    <3> QED BY <3>1, <3>2, <3>3, <3>4 DEF FilesOK
  <2>7. UsedOK'  BY <2>0, <2>1, <2>2 DEF UsedOK, Exists
  <2> QED BY <1>0, <2>4, <2>5, <2>6, <2>7
<1>12. ASSUME NEW p \in Proc, FinalizeTruncate(p) \/ FinalizeFill(p) \/ FinalizeUnlink(p)
       PROVE IInv'
      BY <1>12 DEF FinalizeTruncate, FinalizeFill, FinalizeUnlink, Owners, Owner
<1>15. ASSUME NEW p \in Proc, NEW id \in Uuid, upload_cancel(p, id) PROVE IInv'
  <2> DEFINE u == upload_path(id)  j == [path |-> u, bytes |-> <<>>, dest |-> None]
  <2>1. \A q \in Proc : pc[q] \in {"append", "move"} => job[q].path # u
    <3> SUFFICES ASSUME NEW q \in Proc, pc[q] \in {"append", "move"}, job[q].path = u PROVE FALSE
          OBVIOUS
    <3>1. u \in Session(j) /\ u \in Session(job[q])  BY DEF Session
    <3> QED BY <1>15, <3>1 DEF upload_cancel, Apart, KeptApart
  <2> QED BY <1>0, <1>15, <2>1, RemoveIInv DEF upload_cancel
<1>16. ASSUME NEW p \in Proc, NEW m \in Manifest, NEW t \in Tag \cup {None}, manifest_put(p, m, t)
       PROVE IInv'
  <2> DEFINE d == hash_content(ManifestBytes(m))
             j == [path |-> manifest_digest_path(d), bytes |-> ManifestBytes(m),
                   dest |-> IF t \in Tag THEN manifest_tag_path(t) ELSE None]
  <2>0. d \in ManifestDigest  BY DEF ManifestDigest
  <2>1. Begin(p, "create", j) /\ puts' = puts \cup ({t} \cap Tag) \X {d}
        BY <1>16 DEF manifest_put
  <2>2. pc'[p] = "create" /\ job'[p] = j  BY <2>1 DEF Begin, TypeInv, TypeOK
  <2>3. Owner(p)'
    <3>1. j.path.name = d /\ j.path \notin TagPath  BY <2>0
    <3>2. j.dest \in TagPath => t \in Tag /\ j.dest.name = t  OBVIOUS
    <3>3. t \in Tag => <<t, d>> \in puts'  BY <2>1
    <3>4. job'[p].dest \in TagPath => <<job'[p].dest.name, job'[p].path.name>> \in puts'
          BY <2>2, <3>1, <3>2, <3>3
    <3> QED BY <2>2, <3>1, <3>4 DEF Owner, Writing
  <2> HIDE DEF j
  <2> QED BY <1>0, <1>16, <2>1, <2>3, BeginIInv DEF manifest_put
<1>17. ASSUME NEW p \in Proc, NEW t \in Tag, manifest_get(p, t) PROVE IInv'
  <2> DEFINE g == manifest_tag_path(t)
             j == [path |-> None, bytes |-> file[g], dest |-> None]
  <2>1. CASE ~Exists(g)
        BY <1>0, <1>17, <2>1, ReplyIInv DEF manifest_get
  <2>2. CASE Exists(g) /\ file[g] = <<>>
        BY <1>0, <1>17, <2>2, ReplyIInv DEF manifest_get
  <2>3. CASE Exists(g) /\ file[g] # <<>>
    <3>1. Begin(p, "lookup", j)  BY <1>17, <2>3 DEF manifest_get
    <3>2. pc'[p] = "lookup"  BY <3>1 DEF Begin, TypeInv, TypeOK
    <3>3. Owner(p)'  BY <3>2 DEF Owner, Writing
    <3> HIDE DEF j
    <3> QED BY <1>0, <1>17, <3>1, <3>3, BeginIInv DEF manifest_get
  <2> QED BY <2>1, <2>2, <2>3
<1>18. ASSUME NEW p \in Proc, ReadManifest(p) PROVE IInv'
  <2>1. /\ UNCHANGED <<file, synced, fd, written, used, puts>> /\ pc'[p] = "idle"
        /\ \A q \in Proc \ {p} : pc'[q] = pc[q] /\ job'[q] = job[q]
        BY <1>18 DEF ReadManifest, Finish, TypeInv, TypeOK
  <2>2. Owners'
    <3>1. Owner(p)'  BY <2>1 DEF Owner, Writing
    <3>2. ASSUME NEW q \in Proc, q # p PROVE Owner(q)'
          BY <2>1, <3>2, OwnerFrame DEF Owners
    <3> QED BY <3>1, <3>2 DEF Owners
  <2>3. Disjoint'  BY <2>1, GoOnDisjoint
  <2>4. FilesOK'  BY <2>1, FilesFrame
  <2>5. UsedOK'  BY <2>1 DEF UsedOK, Exists
  <2> QED BY <1>0, <2>2, <2>3, <2>4, <2>5
<1>19. ASSUME NEW p \in Proc, NEW path \in DigestPath \cup TagPath, manifest_delete(p, path)
       PROVE IInv'
  <2>1. \A q \in Proc : pc[q] \in {"append", "move"} => job[q].path # path
        BY DEF TypeInv, Shape, JobShape, Finalizing
  <2> QED BY <1>0, <1>19, <2>1, RemoveIInv DEF manifest_delete
<1>20. ASSUME Crash \/ PowerFailure PROVE IInv'
  <2>0. /\ pc' = [p \in Proc |-> "idle"] /\ UNCHANGED <<used, puts>>
        BY <1>20 DEF Crash, PowerFailure, Stop
  <2>1. Owners' /\ Disjoint'  BY <2>0 DEF Owners, Owner, Disjoint, Writing
  <2>2. CASE Crash
    <3>1. FilesOK'  BY <2>0, <2>2, FilesFrame DEF Crash
    <3>2. UsedOK'  BY <2>0, <2>2 DEF Crash, UsedOK, Exists
    <3> QED BY <1>0, <2>1, <3>1, <3>2
  <2>3. CASE PowerFailure
    <3>0. /\ \A x \in Path : x \in synced => file'[x] = file[x]
          /\ \A x \in Path : file'[x] # None => file[x] # None
          /\ synced' = {x \in Path : Exists(x)}
          BY <2>3 DEF PowerFailure, Exists
    <3>1. ManifestIntact'  BY <3>0 DEF FilesOK, ManifestIntact, Exists
    <3>2. TagFromPut'
      <4> SUFFICES ASSUME NEW g \in Tag, file'[manifest_tag_path(g)] # None
                   PROVE  \E d \in ManifestDigest :
                            /\ <<g, d>> \in puts
                            /\ file'[manifest_tag_path(g)] = TagBytes(d)
            BY <2>0 DEF TagFromPut, Exists
      <4> QED BY <3>0 DEF FilesOK, TagFromPut, Exists
    <3>3. (\A x \in DigestPath \cup TagPath : Exists(x) => x \in synced)'
          BY <3>0 DEF Exists
    <3>4. "power" \in Failures  BY <2>3 DEF PowerFailure
    <3>5. UsedOK'  BY <2>0, <3>0 DEF UsedOK, Exists
    <3> QED BY <1>0, <2>1, <3>1, <3>2, <3>3, <3>4, <3>5 DEF FilesOK
  <2> QED BY <1>20, <2>2, <2>3
<1>21. CASE UNCHANGED vars
  <2>1. Owners'  BY <1>21, OwnerFrame DEF vars, Owners
  <2>2. Disjoint'  BY <1>21 DEF vars, Disjoint, TmpFiles, Session
  <2>3. FilesOK'  BY <1>21, FilesFrame DEF vars
  <2>4. UsedOK'  BY <1>21 DEF vars, UsedOK, Exists
  <2> QED BY <1>0, <2>1, <2>2, <2>3, <2>4
<1> QED BY <1>1, <1>2, <1>3, <1>4, <1>5, <1>6, <1>7, <1>8, <1>9, <1>10, <1>11, <1>12,
           <1>15, <1>16, <1>17, <1>18, <1>19, <1>20, <1>21 DEF Next

(* Requests kept apart, and no power failure: every blob and manifest file *)
(* a reader can open holds the bytes its digest names, across interleaved  *)
(* requests and process crashes.                                           *)
THEOREM ContentIntegrity ==
    ASSUME KeptApart, "power" \notin Failures
    PROVE  Spec => []ContentAddressed
<1>1. IInv => ContentAddressed
      BY PathFacts DEF IInv, FilesOK, ManifestIntact, ContentAddressed
<1> QED BY <1>1, IInvInit, IInvStep, PTL DEF Spec

(* Requests kept apart: manifests keep their bytes even through power      *)
(* failures, because atomic_write syncs them before it publishes them.     *)
THEOREM ManifestDurability == ASSUME KeptApart PROVE Spec => []ManifestIntact
<1>1. IInv => ManifestIntact  BY DEF IInv, FilesOK
<1> QED BY <1>1, IInvInit, IInvStep, PTL DEF Spec

(* Requests kept apart: a tag always resolves to a digest pushed under     *)
(* this very tag, whatever crashed in between.                             *)
THEOREM TagIntegrity == ASSUME KeptApart PROVE Spec => []TagFromPut
<1>1. IInv => TagFromPut  BY DEF IInv, FilesOK
<1> QED BY <1>1, IInvInit, IInvStep, PTL DEF Spec

-----------------------------------------------------------------------------
(* Tags and the manifests they name.                                       *)

Resolves(d) == Exists(manifest_digest_path(d)) \/ d \in dropped

(* A handler that writes a tag has stored the tag's manifest before, and   *)
(* what it stored is there unless a request deleted it.                    *)
TargetOK(p) ==
    pc[p] \in Writing /\ job[p].path \in TagPath =>
        \E d \in ManifestDigest : job[p].bytes = TagBytes(d) /\ Resolves(d)

TargetInv == IInv /\ (\A p \in Proc : TargetOK(p)) /\ TagTargetExists

(* A digest's path is that of its name.                                    *)
LEMMA DigestPathName ==
    /\ \A x \in DigestPath : x = manifest_digest_path(x.name)
    /\ \A d \in ManifestDigest : TagBytes(d)[1] = d
BY DEF DigestPath, manifest_digest_path, TagBytes

(* Published manifests and tags, and handlers that write tags, stay as     *)
(* they are, but for deletes and the renames that end atomic_write.        *)
Kept ==
    /\ dropped \subseteq dropped'
    /\ \A x \in DigestPath : file[x] # None => file'[x] # None \/ x.name \in dropped'
    /\ \A x \in TagPath : file'[x] \in {None, file[x]}
    /\ \A q \in Proc : pc'[q] \in Writing /\ job'[q].path \in TagPath =>
                            pc[q] \in Writing /\ job'[q] = job[q]

(* A request that starts writes no tag at first.                           *)
LEMMA BeginKept ==
    ASSUME TypeInv, NEW p \in Proc, NEW at, NEW j, Begin(p, at, j), j.path \notin TagPath,
           UNCHANGED <<file, dropped>>
    PROVE  Kept
BY DEF Kept, Begin, TypeInv, TypeOK

(* A request answered at once moves nobody.                                *)
LEMMA ReplyKept ==
    ASSUME NEW p \in Proc, NEW r, Reply(p, r), UNCHANGED <<file, dropped>>
    PROVE  Kept
BY DEF Kept, Reply

(* remove_file of a manifest's file is recorded.                           *)
LEMMA RemoveKept ==
    ASSUME TypeInv, NEW p \in Proc, NEW path \in Path, RemoveFile(p, path),
           dropped \subseteq dropped', path \in DigestPath /\ Exists(path) => path.name \in dropped'
    PROVE  Kept
<1>1. CASE Exists(path)
      BY <1>1, PathFacts DEF Kept, RemoveFile, Reply, Unlink, TypeInv, TypeOK
<1>2. CASE ~Exists(path)
      BY <1>2 DEF Kept, RemoveFile, Reply
<1> QED BY <1>1, <1>2

(* A step of a handler on a file of its own, after which it writes what it *)
(* wrote, or is not writing.                                               *)
LEMMA WorkKept ==
    ASSUME TypeInv, NEW p \in Proc, dropped' = dropped,
           \A q \in Proc \ {p} : pc'[q] = pc[q] /\ job'[q] = job[q],
           pc'[p] \notin Writing \/ (pc[p] \in Writing /\ job'[p] = job[p]),
           \A x \in DigestPath \cup TagPath : file'[x] = file[x]
    PROVE  Kept
BY DEF Kept

(* Every step but a rename of atomic_write is such a step.                 *)
LEMMA StepKept ==
    ASSUME KeptApart, IInv, [Next]_vars, \A p \in Proc : ~AtomicRename(p)
    PROVE  Kept
<1> USE PathFacts, BytesFacts DEF IInv
<1>h. ASSUME NEW q \in Proc PROVE fd[q] \notin DigestPath \cup TagPath
      BY HandlesPrivate
<1>1. ASSUME NEW p \in Proc, AtomicCreate(p) PROVE Kept
  <2>1. TmpOf(job[p].path) \in TmpPath
        BY <1>1 DEF AtomicCreate, TypeInv, Shape, JobShape, Writing
  <2> QED BY <1>1, <2>1, WorkKept DEF AtomicCreate, Create, Goto, Writing, TypeInv, TypeOK
<1>2. ASSUME NEW p \in Proc, AtomicWrite(p) PROVE Kept
      BY <1>2, <1>h, WorkKept DEF AtomicWrite, Write, Advance, Writing, TypeInv, TypeOK
<1>3. ASSUME NEW p \in Proc, AtomicSync(p) PROVE Kept
      BY <1>3, WorkKept DEF AtomicSync, Goto, Writing, TypeInv, TypeOK
<1>4. ASSUME NEW p \in Proc, NEW b \in Payload, NEW d \in BlobDigest, blob_write(p, d, b)
      PROVE  Kept
      BY <1>4, BeginKept, ReplyKept DEF blob_write
<1>5. ASSUME NEW p \in Proc, NEW d \in BlobDigest, blob_delete(p, d) PROVE Kept
      BY <1>5, RemoveKept DEF blob_delete
<1>6. ASSUME NEW p \in Proc, upload_create(p) PROVE Kept
      BY <1>6 DEF upload_create, Reply, Kept, TypeInv, TypeOK
<1>7. ASSUME NEW p \in Proc, NEW id \in Uuid, NEW c \in Chunk, upload_append(p, id, c) PROVE Kept
      BY <1>7, BeginKept, ReplyKept DEF upload_append
<1>8. ASSUME NEW p \in Proc, NEW id \in Uuid, NEW d \in BlobDigest, upload_finalize(p, id, d)
      PROVE  Kept
      BY <1>8, BeginKept, ReplyKept DEF upload_finalize
<1>9. ASSUME NEW p \in Proc, NEW id \in Uuid, upload_cancel(p, id) PROVE Kept
      BY <1>9, RemoveKept DEF upload_cancel
<1>10. ASSUME NEW p \in Proc, AppendChunk(p) PROVE Kept
      BY <1>10, <1>h, WorkKept DEF AppendChunk, Write, Finish, Writing, TypeInv, TypeOK
<1>11. ASSUME NEW p \in Proc, FinalizeMove(p) PROVE Kept
  <2>1. /\ pc[p] = "move" /\ job[p].path \in UploadPath /\ job[p].dest \in BlobPath
        BY <1>11 DEF FinalizeMove, TypeInv, Shape, JobShape, Finalizing
  <2>2. CASE Exists(job[p].path)
        BY <1>11, <2>1, <2>2, WorkKept
        DEF FinalizeMove, KeptApart, Rename, Finish, Writing, TypeInv, TypeOK
  <2>3. CASE ~Exists(job[p].path)
        BY <1>11, <2>1, <2>3, WorkKept DEF FinalizeMove, Goto, Writing, TypeInv, TypeOK
  <2> QED BY <2>2, <2>3
<1>12. ASSUME NEW p \in Proc, FinalizeTruncate(p) \/ FinalizeFill(p) \/ FinalizeUnlink(p)
       PROVE  Kept
       BY <1>12 DEF FinalizeTruncate, FinalizeFill, FinalizeUnlink, Owners, Owner
<1>13. ASSUME NEW p \in Proc, NEW m \in Manifest, NEW t \in Tag \cup {None}, manifest_put(p, m, t)
       PROVE  Kept
  <2>1. hash_content(ManifestBytes(m)) \in ManifestDigest  BY DEF ManifestDigest
  <2> QED BY <1>13, <2>1, BeginKept DEF manifest_put
<1>14. ASSUME NEW p \in Proc, NEW t \in Tag, manifest_get(p, t) PROVE Kept
       BY <1>14, BeginKept, ReplyKept DEF manifest_get
<1>15. ASSUME NEW p \in Proc, ReadManifest(p) PROVE Kept
       BY <1>15, WorkKept DEF ReadManifest, Finish, Writing, TypeInv, TypeOK
<1>16. ASSUME NEW p \in Proc, NEW path \in DigestPath \cup TagPath, manifest_delete(p, path)
       PROVE  Kept
       BY <1>16, RemoveKept DEF manifest_delete
<1>17. CASE Crash
       BY <1>17 DEF Crash, Stop, Kept, Writing
<1>18. CASE PowerFailure
  <2>1. \A x \in DigestPath \cup TagPath : file'[x] = file[x]
        BY <1>18 DEF PowerFailure, FilesOK, Exists, TypeInv, TypeOK
  <2> QED BY <1>18, <2>1 DEF PowerFailure, Stop, Kept, Writing
<1>19. CASE UNCHANGED vars
       BY <1>19 DEF vars, Kept
<1> QED BY <1>1, <1>2, <1>3, <1>4, <1>5, <1>6, <1>7, <1>8, <1>9, <1>10, <1>11, <1>12, <1>13,
           <1>14, <1>15, <1>16, <1>17, <1>18, <1>19 DEF Next

(* The initial state satisfies the invariant.                              *)
LEMMA TargetInit == Init => TargetInv
<1> SUFFICES ASSUME Init PROVE TargetInv  OBVIOUS
<1>1. \A p \in Proc : TargetOK(p)  BY DEF Init, TargetOK, Writing
<1>2. TagTargetExists  BY PathFacts DEF Init, TagTargetExists, Exists
<1> QED BY <1>1, <1>2, IInvInit DEF TargetInv

(* What a published tag names is what its file holds.                      *)
LEMMA TagNames ==
    ASSUME TagFromPut, TagTargetExists, NEW t \in Tag, NEW d \in ManifestDigest,
           file[manifest_tag_path(t)] = TagBytes(d)
    PROVE  Resolves(d)
<1>1. TagBytes(d) \in Bytes /\ None \notin Bytes  BY BytesFacts
<1> QED BY <1>1, DigestPathName DEF TagTargetExists, Resolves, Exists

LEMMA TagNamesAfter ==
    ASSUME TagFromPut',
           \A t \in Tag, d \in ManifestDigest :
                file'[manifest_tag_path(t)] = TagBytes(d) => Resolves(d)'
    PROVE  TagTargetExists'
<1> SUFFICES ASSUME NEW t \in Tag, file'[manifest_tag_path(t)] # None
             PROVE  Resolves(file[manifest_tag_path(t)][1])'
      BY DEF TagTargetExists, Resolves, Exists
<1>1. PICK d \in ManifestDigest : file'[manifest_tag_path(t)] = TagBytes(d)
      BY DEF TagFromPut, Exists
<1> QED BY <1>1, DigestPathName

(* The rename that publishes a manifest, or the tag after it.              *)
LEMMA RenameTarget ==
    ASSUME KeptApart, TargetInv, IInv', NEW p \in Proc, AtomicRename(p)
    PROVE  TargetInv'
<1> USE DEF TargetInv, IInv
<1> DEFINE path == job[p].path  tag == job[p].dest  t == TmpOf(path)
<1>0. /\ path \in ContentPath \cup TagPath /\ (tag \in TagPath => path \in DigestPath)
      /\ t \in TmpPath /\ pc[p] = "rename" /\ pc[p] \in Writing
      /\ file[t] = job[p].bytes /\ job[p].bytes \in Bytes
      BY PathFacts, JobFacts
      DEF AtomicRename, TypeInv, TypeOK, Shape, JobShape, Writing, Owners, Owner
<1>1. Rename(t, path) /\ UNCHANGED <<used, puts, dropped>>
      BY <1>0, BytesFacts DEF AtomicRename, Exists
<1>2. /\ \A x \in Path \ {t, path} : file'[x] = file[x]
      /\ file'[path] = job[p].bytes
      BY <1>0, <1>1, PathFacts DEF Rename, TypeInv, TypeOK
<1>3. \A q \in Proc \ {p} : pc'[q] = pc[q] /\ job'[q] = job[q]
      BY <1>0, BytesFacts DEF AtomicRename, Finish, Exists, TypeInv, TypeOK
<1>4. ASSUME NEW d \in ManifestDigest, Resolves(d) PROVE Resolves(d)'
      BY <1>0, <1>1, <1>2, <1>4, PathFacts, BytesFacts DEF Resolves, Exists
<1>5. TargetOK(p)'
  <2>1. CASE tag \in TagPath
    <3>1. pc'[p] = "create" /\ job'[p].bytes = TagBytes(path.name)
          BY <1>0, <2>1, BytesFacts DEF AtomicRename, Exists, TypeInv, TypeOK
    <3>2. PICK d \in ManifestDigest : d = path.name /\ path = manifest_digest_path(d)
          BY <1>0, <2>1, PathFacts, DigestPathName
    <3>3. Resolves(d)'  BY <1>0, <1>2, <3>2, BytesFacts DEF Resolves, Exists
    <3> QED BY <3>1, <3>2, <3>3 DEF TargetOK
  <2>2. CASE tag \notin TagPath
    <3>1. pc'[p] = "idle"
          BY <1>0, <2>2, BytesFacts DEF AtomicRename, Finish, Exists, TypeInv, TypeOK
    <3> QED BY <3>1 DEF TargetOK, Writing
  <2> QED BY <2>1, <2>2
<1>6. ASSUME NEW q \in Proc, q # p PROVE TargetOK(q)'
      BY <1>3, <1>4, <1>6 DEF TargetOK
<1>7. TagTargetExists'
  <2>1. ASSUME NEW g \in Tag, NEW d \in ManifestDigest, file'[manifest_tag_path(g)] = TagBytes(d)
        PROVE  Resolves(d)'
    <3>1. CASE manifest_tag_path(g) = path
      <4>1. PICK e \in ManifestDigest : job[p].bytes = TagBytes(e) /\ Resolves(e)
            BY <1>0, <3>1, PathFacts DEF TargetOK
      <4>2. d = e  BY <1>2, <2>1, <3>1, <4>1, DigestPathName
      <4> QED BY <1>4, <4>1, <4>2
    <3>2. CASE manifest_tag_path(g) # path
      <4>1. file[manifest_tag_path(g)] = TagBytes(d)
            BY <1>0, <1>2, <2>1, <3>2, PathFacts
      <4> QED BY <1>4, <4>1, TagNames DEF FilesOK
    <3> QED BY <3>1, <3>2
  <2>2. TagFromPut'  BY DEF FilesOK
  <2> QED BY <2>1, <2>2, TagNamesAfter
<1> QED BY <1>5, <1>6, <1>7

(* Every step keeps it.                                                    *)
LEMMA TargetStep == ASSUME KeptApart PROVE TargetInv /\ [Next]_vars => TargetInv'
<1> SUFFICES ASSUME TargetInv, [Next]_vars PROVE TargetInv'  OBVIOUS
<1>0. IInv'  BY IInvStep DEF TargetInv
<1>1. CASE \E p \in Proc : AtomicRename(p)  BY <1>0, <1>1, RenameTarget
<1>2. CASE \A p \in Proc : ~AtomicRename(p)
  <2> USE PathFacts, BytesFacts, DigestPathName DEF TargetInv
  <2>1. Kept  BY <1>2, StepKept
  <2>2. ASSUME NEW d \in ManifestDigest, Resolves(d) PROVE Resolves(d)'
        BY <2>1, <2>2 DEF Kept, Resolves, Exists
  <2>3. \A p \in Proc : TargetOK(p)'  BY <2>1, <2>2 DEF Kept, TargetOK
  <2>4. ASSUME NEW t \in Tag, NEW d \in ManifestDigest, file'[manifest_tag_path(t)] = TagBytes(d)
        PROVE  Resolves(d)'
    <3>1. file[manifest_tag_path(t)] = TagBytes(d)  BY <2>1, <2>4 DEF Kept
    <3> QED BY <2>2, <3>1, TagNames DEF IInv, FilesOK
  <2>5. TagFromPut'  BY <1>0 DEF IInv, FilesOK
  <2>6. TagTargetExists'  BY <2>4, <2>5, TagNamesAfter
  <2> QED BY <1>0, <2>3, <2>6
<1> QED BY <1>1, <1>2

(* manifest_put writes the manifest before the tag: a tag that resolves    *)
(* names a stored manifest, unless a request deleted it, through crashes   *)
(* and power failures.                                                     *)
THEOREM TagAfterManifest == ASSUME KeptApart PROVE Spec => []TagTargetExists
<1>1. TargetInv => TagTargetExists  BY DEF TargetInv
<1> QED BY <1>1, TargetInit, TargetStep, PTL DEF Spec

-----------------------------------------------------------------------------
(* Requests that do not fail for others.                                   *)

(* No step answers with an error of the filesystem.                        *)
LEMMA StepSucceeds ==
    ASSUME KeptApart
    PROVE  IInv /\ RequestsSucceed /\ [Next]_vars => RequestsSucceed'
<1> SUFFICES ASSUME IInv, RequestsSucceed, [Next]_vars PROVE resp' \notin {"Io", "Internal"}
      BY DEF RequestsSucceed
<1>1. ASSUME NEW p \in Proc, AtomicRename(p) PROVE resp' \notin {"Io", "Internal"}
  <2>1. Exists(TmpOf(job[p].path))
    <3>1. pc[p] = "rename"  BY <1>1 DEF AtomicRename
    <3>2. file[TmpOf(job[p].path)] = job[p].bytes  BY <3>1 DEF IInv, Owners, Owner
    <3>3. job[p].bytes \in Bytes  BY JobFacts DEF IInv, TypeInv, TypeOK
    <3> QED BY <3>2, <3>3, BytesFacts DEF Exists
  <2> QED BY <1>1, <2>1 DEF AtomicRename, Finish
<1>2. ASSUME NEW p \in Proc, NEW t \in Tag, manifest_get(p, t)
      PROVE  resp' \notin {"Io", "Internal"}
  <2>1. ASSUME Exists(manifest_tag_path(t)) PROVE file[manifest_tag_path(t)] # <<>>
    <3>1. PICK d \in ManifestDigest : file[manifest_tag_path(t)] = TagBytes(d)
          BY <2>1 DEF IInv, FilesOK, TagFromPut
    <3>2. <<d>> # <<>>  OBVIOUS
    <3> QED BY <3>1, <3>2 DEF TagBytes
  <2>2. CASE ~Exists(manifest_tag_path(t))  BY <1>2, <2>2 DEF manifest_get, Reply
  <2>3. CASE Exists(manifest_tag_path(t))  BY <1>2, <2>1, <2>3 DEF manifest_get, Begin
  <2> QED BY <2>2, <2>3
<1>3. ASSUME NEW p \in Proc,
             \/ AtomicCreate(p) \/ AtomicWrite(p) \/ AtomicSync(p) \/ AppendChunk(p)
             \/ FinalizeMove(p) \/ FinalizeTruncate(p) \/ FinalizeFill(p) \/ FinalizeUnlink(p)
             \/ ReadManifest(p)
      PROVE  resp' \notin {"Io", "Internal"}
      BY <1>3
      DEF AtomicCreate, AtomicWrite, Advance, AtomicSync, AppendChunk, FinalizeMove, FinalizeTruncate,
          FinalizeFill, FinalizeUnlink, ReadManifest, Finish, Goto
<1>4. ASSUME NEW p \in Proc, NEW path, RemoveFile(p, path)
      PROVE  resp' \notin {"Io", "Internal"}
      BY <1>4 DEF RemoveFile, Reply
<1>5. ASSUME NEW p \in Proc,
             \/ \E b \in Payload, d \in BlobDigest : blob_write(p, d, b)
             \/ upload_create(p)
             \/ \E id \in Uuid, c \in Chunk : upload_append(p, id, c)
             \/ \E id \in Uuid, d \in BlobDigest : upload_finalize(p, id, d)
             \/ \E m \in Manifest, t \in Tag \cup {None} : manifest_put(p, m, t)
      PROVE  resp' \notin {"Io", "Internal"}
      BY <1>5 DEF blob_write, upload_create, upload_append, upload_finalize, manifest_put, Begin, Reply
<1>6. ASSUME NEW p \in Proc,
             \/ \E d \in BlobDigest : blob_delete(p, d)
             \/ \E id \in Uuid : upload_cancel(p, id)
             \/ \E path \in DigestPath \cup TagPath : manifest_delete(p, path)
      PROVE  resp' \notin {"Io", "Internal"}
      BY <1>4, <1>6 DEF blob_delete, upload_cancel, manifest_delete
<1>7. CASE Crash \/ PowerFailure  BY <1>7 DEF Crash, PowerFailure, Stop
<1>8. CASE UNCHANGED vars  BY <1>8 DEF vars, RequestsSucceed
<1> QED BY <1>1, <1>2, <1>3, <1>5, <1>6, <1>7, <1>8 DEF Next

(* Requests kept apart: no rename misses its temporary file and no tag     *)
(* file is unreadable, whatever other requests and crashes left behind.    *)
THEOREM NoRequestFails == ASSUME KeptApart PROVE Spec => []RequestsSucceed
<1>1. Init => RequestsSucceed  BY DEF Init, RequestsSucceed
<1> QED BY <1>1, IInvInit, IInvStep, StepSucceeds, PTL DEF Spec

=============================================================================
