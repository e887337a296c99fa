--------------------------- MODULE FsSharedProofs ---------------------------
(***************************************************************************)
(* Theorems about FsStorage when requests share temporary files and copy   *)
(* uploads across filesystems: what is true of the stored files without    *)
(* the exclusion that FsStorageProofs assumes.                             *)
(***************************************************************************)
EXTENDS FsStorageProofs

(* The files that the digest in their name speaks of: those of blobs and   *)
(* manifests, and the temporary files their writers share.                 *)
ContentTmp == {TmpOf(x) : x \in ContentPath}
Addressed == ContentPath \cup ContentTmp

(* What the file of a name has to hold.                                    *)
Whole(x) == x.name.sha

AddressedOK == \A x \in Addressed : Exists(x) => Torn(file[x], Whole(x))

(* Writers of one file write the same bytes. A handle on a temporary file  *)
(* that another writer has renamed is a handle on the published file.      *)
WriterOK(p) ==
    LET j == job[p] IN
    /\ pc[p] \in Writing /\ j.path \in ContentPath => hash_content(j.bytes) = j.path.name
    /\ pc[p] \in Finalizing => hash_content(j.bytes) = j.dest.name
    /\ pc[p] \in {"write", "sync"} =>
            IF j.path \in ContentPath THEN fd[p] \in {j.path, TmpOf(j.path), Unlinked}
                                      ELSE fd[p] \notin Addressed \cup UploadPath
    /\ pc[p] = "append" => fd[p] = j.path
    /\ pc[p] = "move" => file[j.path] = j.bytes
    /\ pc[p] = "fill" => fd[p] \in {j.dest, Unlinked}

Writers == \A p \in Proc : WriterOK(p)

SessionsApart ==
    \A p, q \in Proc : p # q /\ pc[p] # "idle" /\ pc[q] # "idle" =>
        Session(job[p]) \cap Session(job[q]) = {}

SharedInv == TypeInv /\ Writers /\ SessionsApart /\ AddressedOK /\ UsedOK

(* Piece i of a file is missing, and a handler still has it to write.      *)
Lacks(bytes, x, i) ==
    /\ bytes # None
    /\ i \in 1..Len(Whole(x))
    /\ ~(i \in DOMAIN bytes /\ bytes[i] = Whole(x)[i])

Due(p, i) == (pc[p] = "write" /\ written[p] < i) \/ pc[p] = "fill"

(* Every piece that a file still lacks has a writer that is to write it,   *)
(* and has that file open.                                                 *)
MissingOwned ==
    \A x \in Addressed, i \in Nat :
        Lacks(file[x], x, i) => \E p \in Proc : fd[p] = x /\ Due(p, i)

(* Paths of content files and of their temporary files.                    *)
LEMMA AddressedFacts ==
    /\ Addressed \subseteq Path /\ ContentPath \subseteq Addressed
    /\ \A x \in Addressed : x \notin TagPath \cup UploadPath \cup {None, Unlinked}
    /\ \A x \in ContentPath : /\ TmpOf(x) \in Addressed /\ TmpOf(x).name = x.name
                              /\ TmpOf(x) \notin ContentPath
    /\ \A x, y \in ContentPath : TmpOf(x) = TmpOf(y) => x = y
    /\ \A x \in TagPath : TmpOf(x) \in TmpPath /\ TmpOf(x) \notin Addressed
<1>1. \A x \in ContentPath : /\ x.in \in {"blobs", "digests"} /\ x.tmp = FALSE
                             /\ x = [in |-> x.in, name |-> x.name, tmp |-> FALSE]
      BY DEF ContentPath, BlobPath, DigestPath, blob_path, manifest_digest_path
<1>2. \A x \in ContentPath : TmpOf(x) = [in |-> x.in, name |-> x.name, tmp |-> TRUE]
      BY <1>1 DEF TmpOf
<1>3. \A x \in TagPath : TmpOf(x).in = "tags"
      BY DEF TagPath, manifest_tag_path, TmpOf
<1>4. \A x \in Addressed : x.in \in {"blobs", "digests"}
      BY <1>1, <1>2 DEF Addressed, ContentTmp
<1>5. \A x \in TagPath : TmpOf(x) \notin Addressed  BY <1>3, <1>4
<1>6. \A x, y \in ContentPath : TmpOf(x) = TmpOf(y) => x = y
  <2> TAKE x, y \in ContentPath
  <2>1. TmpOf(x).in = x.in /\ TmpOf(x).name = x.name  BY <1>2
  <2>2. TmpOf(y).in = y.in /\ TmpOf(y).name = y.name  BY <1>2
  <2>3. /\ x = [in |-> x.in, name |-> x.name, tmp |-> FALSE]
        /\ y = [in |-> y.in, name |-> y.name, tmp |-> FALSE]
        BY <1>1
  <2> QED BY <2>1, <2>2, <2>3
<1>7. \A x \in ContentPath : TmpOf(x) \in Addressed /\ TmpOf(x).name = x.name
      BY <1>2 DEF Addressed, ContentTmp
<1>8. Addressed \subseteq Path /\ \A x \in Addressed : x \notin TagPath \cup UploadPath
      BY PathFacts DEF Addressed, ContentTmp
<1> QED BY <1>5, <1>6, <1>7, <1>8, PathFacts DEF Addressed

(* A name tells what its file has to hold.                                 *)
LEMMA WholeFacts ==
    /\ \A x \in Addressed : /\ Whole(x) \in Bytes /\ Whole(x) # <<>>
                            /\ hash_content(Whole(x)) = x.name
                            /\ \A b : hash_content(b) = x.name => b = Whole(x)
    /\ \A x \in ContentPath : Whole(TmpOf(x)) = Whole(x)
<1>1. \A b : hash_content(b).sha = b  BY DEF hash_content
<1>2. ASSUME NEW d \in BlobDigest PROVE d.sha \in Bytes /\ d.sha # <<>> /\ hash_content(d.sha) = d
  <2>1. PICK b \in Payload : d = hash_content(b)  BY DEF BlobDigest
  <2> QED BY <1>1, <2>1, BytesFacts
<1>3. ASSUME NEW d \in ManifestDigest
      PROVE  d.sha \in Bytes /\ d.sha # <<>> /\ hash_content(d.sha) = d
  <2>1. PICK m \in Manifest : d = hash_content(ManifestBytes(m))  BY DEF ManifestDigest
  <2> QED BY <1>1, <2>1, BytesFacts
<1>4. \A x \in ContentPath : x.name \in BlobDigest \cup ManifestDigest  BY PathFacts
<1>5. \A x \in Addressed : x.name \in BlobDigest \cup ManifestDigest
      BY <1>4, AddressedFacts DEF Addressed, ContentTmp
<1>6. \A x \in Addressed : /\ Whole(x) \in Bytes /\ Whole(x) # <<>>
                           /\ hash_content(Whole(x)) = x.name
      BY <1>2, <1>3, <1>5 DEF Whole
<1>7. \A x \in Addressed : \A b : hash_content(b) = x.name => b = Whole(x)
      BY <1>1 DEF Whole
<1>8. \A x \in ContentPath : Whole(TmpOf(x)) = Whole(x)  BY AddressedFacts DEF Whole
<1> QED BY <1>6, <1>7, <1>8

(* Writing all of a torn file, or one piece of it, leaves it torn at most. *)
LEMMA TornFacts ==
    ASSUME NEW b \in Bytes
    PROVE  /\ Torn(<<>>, b) /\ Torn(b, b)
           /\ \A a \in Bytes : Torn(a, b) => Overwrite(a, b) = b
<1> DEFINE Elem == Chunk \cup Manifest \cup ManifestDigest \cup {Hole}
<1>1. Bytes = Seq(Elem)  BY DEF Bytes
<1> HIDE DEF Elem
<1>2. Torn(<<>>, b) /\ Torn(b, b)  BY <1>1 DEF Torn
<1>3. ASSUME NEW a \in Bytes, Torn(a, b) PROVE Overwrite(a, b) = b
  <2>1. Len(a) <= Len(b)  BY <1>3 DEF Torn
  <2>2. SubSeq(a, Len(b) + 1, Len(a)) = <<>>  BY <1>1, <2>1
  <2>3. b \o <<>> = b  BY <1>1
  <2> QED BY <2>2, <2>3 DEF Overwrite
<1> QED BY <1>2, <1>3

LEMMA TornWriteAt ==
    ASSUME NEW a \in Bytes, NEW b \in Bytes, Torn(a, b), NEW i \in 1..Len(b)
    PROVE  /\ Torn(WriteAt(a, i, b[i]), b)
           /\ i \in DOMAIN WriteAt(a, i, b[i]) /\ WriteAt(a, i, b[i])[i] = b[i]
           /\ \A k \in Nat : k \in DOMAIN a /\ a[k] = b[k] =>
                    k \in DOMAIN WriteAt(a, i, b[i]) /\ WriteAt(a, i, b[i])[k] = b[k]
<1> DEFINE Elem == Chunk \cup Manifest \cup ManifestDigest \cup {Hole}
           n == IF i > Len(a) THEN i ELSE Len(a)
           v(k) == IF k = i THEN b[i] ELSE IF k \in DOMAIN a THEN a[k] ELSE Hole
           w == [k \in 1..n |-> v(k)]
<1>1. Bytes = Seq(Elem)  BY DEF Bytes
<1> HIDE DEF Elem
<1>2. /\ Len(a) \in Nat /\ Len(b) \in Nat /\ DOMAIN a = 1..Len(a) /\ Len(a) <= Len(b)
      /\ \A k \in 1..Len(a) : a[k] \in {b[k], Hole}
      BY <1>1 DEF Torn
<1>3. n \in Nat /\ n <= Len(b) /\ i <= n /\ Len(a) <= n  BY <1>2
<1>4. WriteAt(a, i, b[i]) = w  BY DEF WriteAt
<1>5. w \in Bytes
  <2>1. i \in Nat \ {0} /\ i <= Len(b)  BY <1>2
  <2> QED BY <1>4, <2>1, WriteAtType
<1> HIDE DEF n
<1>6. Len(w) = n /\ DOMAIN w = 1..n
  <2>1. DOMAIN w = 1..n  OBVIOUS
  <2>2. w \in Seq(Elem)  BY <1>1, <1>5
  <2> HIDE DEF w
  <2>3. DOMAIN w = 1..Len(w) /\ Len(w) \in Nat  BY <2>2
  <2> QED BY <1>3, <2>1, <2>3
<1>7. \A k \in 1..n : w[k] = v(k)  OBVIOUS
<1> HIDE DEF w
<1>8. \A k \in 1..n : w[k] \in {b[k], Hole}  BY <1>2, <1>7
<1>9. Torn(w, b)  BY <1>3, <1>6, <1>8 DEF Torn
<1>10. i \in DOMAIN w /\ w[i] = b[i]  BY <1>2, <1>3, <1>6, <1>7
<1>11. \A k \in Nat : k \in DOMAIN a /\ a[k] = b[k] => k \in DOMAIN w /\ w[k] = b[k]
       BY <1>2, <1>3, <1>6, <1>7
<1> QED BY <1>4, <1>9, <1>10, <1>11

(* A file that lacks no piece is the whole one.                            *)
LEMMA NothingMissing ==
    ASSUME NEW x \in Addressed, NEW a \in Bytes, Torn(a, Whole(x)),
           \A i \in Nat : ~Lacks(a, x, i)
    PROVE  hash_content(a) = x.name
<1> DEFINE Elem == Chunk \cup Manifest \cup ManifestDigest \cup {Hole}
           b == Whole(x)
<1>1. Bytes = Seq(Elem)  BY DEF Bytes
<1>2. b \in Bytes /\ hash_content(b) = x.name  BY WholeFacts
<1> HIDE DEF Elem, b
<1>3. a # None /\ Len(a) \in Nat /\ Len(b) \in Nat /\ DOMAIN a = 1..Len(a)
      BY <1>1, <1>2, BytesFacts
<1>4. \A i \in 1..Len(b) : i \in DOMAIN a /\ a[i] = b[i]  BY <1>3 DEF Lacks, b
<1>5. Len(a) <= Len(b)  BY DEF Torn, b
<1>6. Len(a) = Len(b)
  <2>1. Len(b) # 0 => Len(b) \in DOMAIN a  BY <1>3, <1>4
  <2> QED BY <1>3, <1>5, <2>1
<1>7. a = b  BY <1>1, <1>2, <1>3, <1>4, <1>6
<1> QED BY <1>2, <1>7

(* The initial state satisfies the invariant.                              *)
LEMMA SharedInit == Init => SharedInv /\ MissingOwned
<1> SUFFICES ASSUME Init PROVE SharedInv /\ MissingOwned  OBVIOUS
<1>1. Writers /\ SessionsApart  BY DEF Init, Writers, WriterOK, SessionsApart, Writing, Finalizing
<1>2. AddressedOK /\ UsedOK /\ MissingOwned
      BY AddressedFacts, PathFacts DEF Init, AddressedOK, UsedOK, MissingOwned, Lacks, Exists
<1> QED BY <1>1, <1>2, TypeInit DEF SharedInv

(* A handler that stood still, with its handle and its upload untouched.   *)
LEMMA WriterFrame ==
    ASSUME NEW q \in Proc, WriterOK(q), pc'[q] = pc[q], job'[q] = job[q], fd'[q] = fd[q],
           pc[q] = "move" => file'[job[q].path] = file[job[q].path]
    PROVE  WriterOK(q)'
BY DEF WriterOK

(* Two requests in flight stay on uploads of their own when one starts,    *)
LEMMA BeginSessions ==
    ASSUME TypeInv, "session" \in Exclusive, SessionsApart,
           NEW p \in Proc, NEW at, NEW j, Begin(p, at, j)
    PROVE  SessionsApart'
<1> SUFFICES ASSUME NEW a \in Proc, NEW b \in Proc, a # b, pc'[a] # "idle", pc'[b] # "idle"
             PROVE  Session(job'[a]) \cap Session(job'[b]) = {}
      BY DEF SessionsApart, Session
<1>1. CASE a = p  BY <1>1 DEF Begin, Apart, TypeInv, TypeOK
<1>2. CASE b = p  BY <1>2 DEF Begin, Apart, TypeInv, TypeOK
<1>3. CASE a # p /\ b # p  BY <1>3 DEF Begin, SessionsApart, TypeInv, TypeOK
<1> QED BY <1>1, <1>2, <1>3

(* and when one goes on or ends.                                           *)
LEMMA GoOnSessions ==
    ASSUME SessionsApart, NEW p \in Proc,
           \A q \in Proc \ {p} : pc'[q] = pc[q] /\ job'[q] = job[q],
           \/ pc'[p] = "idle"
           \/ pc[p] # "idle" /\ Session(job'[p]) \subseteq Session(job[p])
    PROVE  SessionsApart'
<1> SUFFICES ASSUME NEW a \in Proc, NEW b \in Proc, a # b, pc'[a] # "idle", pc'[b] # "idle"
             PROVE  Session(job'[a]) \cap Session(job'[b]) = {}
      BY DEF SessionsApart, Session
<1>1. CASE a = p  BY <1>1 DEF SessionsApart
<1>2. CASE b = p  BY <1>2 DEF SessionsApart
<1>3. CASE a # p /\ b # p  BY <1>3 DEF SessionsApart
<1> QED BY <1>1, <1>2, <1>3

(* The uploads of two requests in flight are two uploads.                  *)
LEMMA OwnUploads ==
    ASSUME TypeInv, SessionsApart, NEW p \in Proc, NEW q \in Proc, p # q,
           pc[p] \in Finalizing \cup {"append"}, pc[q] \in Finalizing \cup {"append"}
    PROVE  job[p].path # job[q].path
<1>1. ASSUME NEW r \in Proc, pc[r] \in Finalizing \cup {"append"}
      PROVE  job[r].path \in Session(job[r])
      BY <1>1 DEF TypeInv, Shape, JobShape, Session
<1> QED BY <1>1 DEF SessionsApart, Finalizing

(* Where the handle of a handler may be.                                   *)
LEMMA Handles ==
    ASSUME TypeInv, Writers, NEW q \in Proc
    PROVE  /\ fd[q] \in Addressed =>
                 \/ /\ pc[q] \in {"write", "sync"} /\ job[q].path \in ContentPath
                    /\ fd[q] \in {job[q].path, TmpOf(job[q].path)}
                 \/ pc[q] = "fill" /\ job[q].dest \in BlobPath /\ fd[q] = job[q].dest
           /\ fd[q] \in UploadPath => pc[q] = "append" /\ fd[q] = job[q].path
<1>1. CASE pc[q] \in {"write", "sync"}
      BY <1>1, AddressedFacts, PathFacts DEF Writers, WriterOK
<1>2. CASE pc[q] = "append"
      BY <1>2, AddressedFacts DEF Writers, WriterOK, TypeInv, Shape, JobShape
<1>3. CASE pc[q] = "fill"
      BY <1>3, AddressedFacts, PathFacts DEF Writers, WriterOK, TypeInv, Shape, JobShape, Finalizing
<1>4. CASE pc[q] \notin {"write", "sync", "append", "fill"}
  <2>1. fd[q] = None  BY <1>4 DEF TypeInv, TypeOK
  <2> QED BY <2>1, AddressedFacts, PathFacts
<1> QED BY <1>1, <1>2, <1>3, <1>4

(* rename(2) carries the handles of other handlers where they may be.      *)
LEMMA RenameWriters ==
    ASSUME TypeInv, Writers, SessionsApart, NEW p \in Proc, NEW from \in Path, NEW to \in Path,
           Rename(from, to),
           \/ to \in ContentPath \cup TagPath /\ from = TmpOf(to)
           \/ pc[p] = "move" /\ from = job[p].path /\ to \in BlobPath,
           \A q \in Proc \ {p} : pc'[q] = pc[q] /\ job'[q] = job[q]
    PROVE  \A q \in Proc \ {p} : WriterOK(q)'
<1> TAKE q \in Proc \ {p}
<1>0. fd'[q] = IF fd[q] = from THEN to ELSE IF fd[q] = to THEN Unlinked ELSE fd[q]
      BY DEF Rename
<1>1. to \in ContentPath \cup TagPath /\ (from \in UploadPath \/ from = TmpOf(to))
      BY PathFacts DEF TypeInv, Shape, JobShape, Finalizing
<1>2. pc[q] = "move" => file'[job[q].path] = file[job[q].path]
  <2> SUFFICES ASSUME pc[q] = "move" PROVE file'[job[q].path] = file[job[q].path]  OBVIOUS
  <2>1. job[q].path \in UploadPath  BY DEF TypeInv, Shape, JobShape, Finalizing
  <2>2. job[q].path # to /\ job[q].path # from
        BY <1>1, <2>1, PathFacts, OwnUploads DEF Finalizing
  <2> QED BY <2>1, <2>2, PathFacts DEF Rename, TypeInv, TypeOK
<1>3. CASE pc[q] \in {"write", "sync"}
  <2>1. CASE job[q].path \in ContentPath
    <3>1. fd[q] \in {job[q].path, TmpOf(job[q].path), Unlinked}
          BY <1>3, <2>1 DEF Writers, WriterOK
    <3>2. fd[q] = from => to = job[q].path
          BY <1>1, <2>1, <3>1, AddressedFacts, PathFacts
    <3>3. fd'[q] \in {job[q].path, TmpOf(job[q].path), Unlinked}  BY <1>0, <3>1, <3>2
    <3> QED BY <1>3, <2>1, <3>3 DEF Writers, WriterOK, Finalizing
  <2>2. CASE job[q].path \notin ContentPath
    <3>1. fd[q] \notin Addressed \cup UploadPath
          BY <1>3, <2>2 DEF Writers, WriterOK
    <3>2. fd[q] = from => to \notin Addressed \cup UploadPath
          BY <1>1, <3>1, AddressedFacts, PathFacts
    <3>3. fd'[q] \notin Addressed \cup UploadPath
          BY <1>0, <3>1, <3>2, AddressedFacts, PathFacts
    <3> QED BY <1>3, <2>2, <3>3 DEF Writers, WriterOK, Finalizing
  <2> QED BY <2>1, <2>2
<1>4. CASE pc[q] = "append"
  <2>1. fd[q] = job[q].path /\ job[q].path \in UploadPath
        BY <1>4 DEF Writers, WriterOK, TypeInv, Shape, JobShape
  <2>2. job[q].path # from
        BY <1>4, <2>1, PathFacts, OwnUploads DEF Finalizing
  <2>3. fd'[q] = fd[q]  BY <1>0, <1>1, <2>1, <2>2, PathFacts
  <2> QED BY <1>2, <2>3, WriterFrame DEF Writers
<1>5. CASE pc[q] = "fill"
  <2>1. fd[q] \in {job[q].dest, Unlinked} /\ job[q].dest \in BlobPath
        BY <1>5 DEF Writers, WriterOK, TypeInv, Shape, JobShape, Finalizing
  <2>2. fd[q] # from  BY <1>1, <2>1, AddressedFacts, PathFacts
  <2>3. fd'[q] \in {job[q].dest, Unlinked}  BY <1>0, <2>1, <2>2
  <2> QED BY <1>5, <2>3 DEF Writers, WriterOK, Writing
<1>6. CASE pc[q] \notin {"write", "sync", "append", "fill"}
  <2>1. fd[q] = None  BY <1>6 DEF TypeInv, TypeOK
  <2>2. fd'[q] = fd[q]  BY <1>0, <2>1, PathFacts
  <2> QED BY <1>2, <2>2, WriterFrame DEF Writers
<1> QED BY <1>3, <1>4, <1>5, <1>6

(* A step that changes no addressed file, and no upload but one.           *)
LEMMA QuietStep ==
    ASSUME SharedInv, TypeInv', NEW p \in Proc, WriterOK(p)', SessionsApart',
           \A q \in Proc \ {p} : pc'[q] = pc[q] /\ job'[q] = job[q] /\ fd'[q] = fd[q],
           \A q \in Proc \ {p} : pc[q] = "move" => file'[job[q].path] = file[job[q].path],
           \A x \in Addressed : file'[x] = file[x],
           \A x \in UploadPath : file'[x] # None => file[x] # None \/ x.name \in used',
           used \subseteq used'
    PROVE  SharedInv'
<1> USE DEF SharedInv
<1>1. Writers'  BY WriterFrame DEF Writers
<1>2. AddressedOK'  BY DEF AddressedOK, Exists
<1>3. UsedOK'  BY DEF UsedOK, Exists
<1> QED BY <1>1, <1>2, <1>3

(* Starting a request.                                                     *)
LEMMA BeginShared ==
    ASSUME SharedInv, TypeInv', "session" \in Exclusive, NEW p \in Proc, NEW at, NEW j,
           Begin(p, at, j), WriterOK(p)', UNCHANGED <<file, used>>,
           \A q \in Proc \ {p} : fd'[q] = fd[q]
    PROVE  SharedInv'
<1>1. \A q \in Proc \ {p} : pc'[q] = pc[q] /\ job'[q] = job[q]
      BY DEF SharedInv, Begin, TypeInv, TypeOK
<1>2. SessionsApart'  BY BeginSessions DEF SharedInv
<1> QED BY <1>1, <1>2, QuietStep

(* A request answered at once that changes no file.                        *)
LEMMA ReplyShared ==
    ASSUME SharedInv, TypeInv', NEW p \in Proc, NEW r, Reply(p, r), UNCHANGED <<file, fd, used>>
    PROVE  SharedInv'
<1>1. WriterOK(p)'  BY WriterFrame DEF SharedInv, Writers, Reply
<1>2. SessionsApart'  BY DEF SharedInv, SessionsApart, Session, Reply
<1> QED BY <1>1, <1>2, QuietStep DEF Reply

(* remove_file of what no handler of an upload works on.                   *)
LEMMA RemoveShared ==
    ASSUME SharedInv, TypeInv', NEW p \in Proc, NEW path \in Path, RemoveFile(p, path),
           UNCHANGED used,
           \A q \in Proc : pc[q] \in Finalizing \cup {"append"} => job[q].path # path
    PROVE  SharedInv'
<1> USE DEF SharedInv
<1>1. CASE ~Exists(path)  BY <1>1, ReplyShared DEF RemoveFile
<1>2. CASE Exists(path)
  <2>1. /\ \A x \in Path \ {path} : file'[x] = file[x]
        /\ file'[path] = None /\ UNCHANGED <<pc, job>>
        /\ \A q \in Proc : fd'[q] = IF fd[q] = path THEN Unlinked ELSE fd[q]
        BY <1>2 DEF RemoveFile, Reply, Unlink, TypeInv, TypeOK
  <2>2. Writers'
    <3> SUFFICES ASSUME NEW q \in Proc PROVE WriterOK(q)'  BY DEF Writers
    <3>1. pc[q] = "move" => file'[job[q].path] = file[job[q].path]
      <4>1. pc[q] = "move" => job[q].path \in Path \ {path}
            BY PathFacts DEF TypeInv, Shape, JobShape, Finalizing
      <4> QED BY <2>1, <4>1
    <3>2. CASE fd[q] # path  BY <2>1, <3>1, <3>2, WriterFrame DEF Writers
    <3>3. CASE fd[q] = path
      <4>1. pc[q] # "append"  BY <3>3 DEF Writers, WriterOK
      <4>2. Unlinked \notin Addressed \cup UploadPath  BY AddressedFacts, PathFacts
      <4>3. fd'[q] = Unlinked  BY <2>1, <3>3
      <4> QED BY <2>1, <3>1, <4>1, <4>2, <4>3 DEF Writers, WriterOK
    <3> QED BY <3>2, <3>3
  <2>3. SessionsApart'  BY <2>1 DEF SessionsApart, Session
  <2>4. AddressedOK'
    <3>1. \A x \in Addressed : file'[x] # None => file'[x] = file[x]  BY <2>1, AddressedFacts
    <3> QED BY <3>1 DEF AddressedOK, Exists
  <2>5. UsedOK'
    <3>1. \A x \in UploadPath : file'[x] # None => file'[x] = file[x]  BY <2>1, PathFacts
    <3> QED BY <3>1 DEF UsedOK, Exists
  <2> QED BY <2>2, <2>3, <2>4, <2>5
<1> QED BY <1>1, <1>2

(* File::create of a content file or of a temporary file.                  *)
LEMMA CreateShared ==
    ASSUME SharedInv, TypeInv', NEW p \in Proc, NEW path \in Path, path \notin UploadPath,
           Create(p, path), WriterOK(p)', SessionsApart', UNCHANGED used,
           \A q \in Proc \ {p} : pc'[q] = pc[q] /\ job'[q] = job[q]
    PROVE  SharedInv'
<1> USE DEF SharedInv
<1>1. /\ \A x \in Path \ {path} : file'[x] = file[x]
      /\ file'[path] = <<>>
      /\ \A q \in Proc \ {p} : fd'[q] = fd[q]
      BY DEF Create, TypeInv, TypeOK
<1>2. ASSUME NEW q \in Proc, q # p PROVE WriterOK(q)'
  <2>1. pc[q] = "move" => job[q].path \in Path \ {path}
        BY PathFacts DEF TypeInv, Shape, JobShape, Finalizing
  <2> QED BY <1>1, <1>2, <2>1, WriterFrame DEF Writers
<1>3. Writers'  BY <1>2 DEF Writers
<1>4. AddressedOK'
  <2>1. \A x \in Addressed : file'[x] = <<>> \/ file'[x] = file[x]  BY <1>1, AddressedFacts
  <2> QED BY <2>1, WholeFacts, TornFacts DEF AddressedOK, Exists
<1>5. UsedOK'
  <2>1. \A x \in UploadPath : file'[x] = file[x]  BY <1>1, PathFacts
  <2> QED BY <2>1 DEF UsedOK, Exists
<1> QED BY <1>3, <1>4, <1>5

(* What a handler writes into an addressed file, and what is there before. *)
LEMMA WriterHas ==
    ASSUME SharedInv, NEW p \in Proc, pc[p] \in {"write", "fill"}, fd[p] \in Addressed
    PROVE  /\ job[p].bytes = Whole(fd[p]) /\ Whole(fd[p]) \in Bytes
           /\ Contents(fd[p]) = file[fd[p]] /\ file[fd[p]] \in Bytes
           /\ Torn(file[fd[p]], Whole(fd[p]))
<1> USE DEF SharedInv
<1>1. fd[p] \in Path  BY AddressedFacts
<1>2. hash_content(job[p].bytes) = fd[p].name
      BY Handles, AddressedFacts, PathFacts DEF Writers, WriterOK, Writing, Finalizing
<1>3. Exists(fd[p])  BY <1>1 DEF TypeInv, Shape, HandleOK
<1>4. file[fd[p]] \in Bytes  BY <1>1, <1>3 DEF Exists, TypeInv, TypeOK
<1> QED BY <1>1, <1>2, <1>3, <1>4, WholeFacts DEF AddressedOK, Contents

(* A write through a handler's handle that leaves the file torn at most.   *)
LEMMA WriteShared ==
    ASSUME SharedInv, TypeInv', NEW p \in Proc, pc[p] \in {"write", "fill"},
           NEW b, Write(fd[p], b), fd[p] \in Addressed => Torn(b, Whole(fd[p])),
           WriterOK(p)', SessionsApart', UNCHANGED used,
           \A q \in Proc \ {p} : pc'[q] = pc[q] /\ job'[q] = job[q] /\ fd'[q] = fd[q]
    PROVE  /\ SharedInv'
           /\ fd[p] \in Addressed => file'[fd[p]] = b
           /\ \A x \in Addressed \ {fd[p]} : file'[x] = file[x]
<1> USE DEF SharedInv
<1>1. fd[p] \notin UploadPath  BY Handles
<1>2. \A x \in Path \ {fd[p]} : file'[x] = file[x]  BY DEF Write, TypeInv, TypeOK
<1>3. fd[p] \in Addressed => file'[fd[p]] = b  BY AddressedFacts DEF Write, TypeInv, TypeOK
<1>4. ASSUME NEW q \in Proc, q # p PROVE WriterOK(q)'
  <2>1. pc[q] = "move" => job[q].path \in Path \ {fd[p]}
        BY <1>1, PathFacts DEF TypeInv, Shape, JobShape, Finalizing
  <2> QED BY <1>2, <1>4, <2>1, WriterFrame DEF Writers
<1>5. Writers'  BY <1>4 DEF Writers
<1>6. \A x \in Addressed \ {fd[p]} : file'[x] = file[x]  BY <1>2, AddressedFacts
<1>7. AddressedOK'  BY <1>3, <1>6 DEF AddressedOK, Exists
<1>8. UsedOK'
  <2>1. \A x \in UploadPath : file'[x] = file[x]  BY <1>1, <1>2, PathFacts
  <2> QED BY <2>1 DEF UsedOK, Exists
<1> QED BY <1>3, <1>5, <1>6, <1>7, <1>8

(* One piece of write_all goes to its place,                               *)
LEMMA PieceWritten ==
    ASSUME SharedInv, NEW p \in Proc, AtomicWrite(p)
    PROVE  LET n == written[p]  b == WriteAt(Contents(fd[p]), n + 1, job[p].bytes[n + 1]) IN
           /\ Write(fd[p], b)
           /\ fd[p] \in Addressed =>
                 /\ n + 1 \in 1..Len(Whole(fd[p]))
                 /\ Torn(b, Whole(fd[p]))
                 /\ \A i \in Nat : Lacks(b, fd[p], i) => i # n + 1 /\ Lacks(file[fd[p]], fd[p], i)
<1> DEFINE n == written[p]  b == WriteAt(Contents(fd[p]), n + 1, job[p].bytes[n + 1])
           w == Whole(fd[p])
<1>1. pc[p] = "write" /\ Write(fd[p], b)  BY DEF AtomicWrite
<1>2. ASSUME fd[p] \in Addressed
      PROVE  /\ n + 1 \in 1..Len(w) /\ Torn(b, w)
             /\ \A i \in Nat : Lacks(b, fd[p], i) => i # n + 1 /\ Lacks(file[fd[p]], fd[p], i)
  <2>1. /\ job[p].bytes = w /\ w \in Bytes /\ Contents(fd[p]) = file[fd[p]]
        /\ file[fd[p]] \in Bytes /\ Torn(file[fd[p]], w)
        BY <1>1, <1>2, WriterHas
  <2>2. n + 1 \in 1..Len(w)  BY <1>1, <2>1, WriteSpan DEF SharedInv
  <2>3. b = WriteAt(file[fd[p]], n + 1, w[n + 1])  BY <2>1
  <2> HIDE DEF b, w, n
  <2>4. /\ Torn(b, w) /\ n + 1 \in DOMAIN b /\ b[n + 1] = w[n + 1]
        /\ \A k \in Nat : k \in DOMAIN file[fd[p]] /\ file[fd[p]][k] = w[k] =>
                            k \in DOMAIN b /\ b[k] = w[k]
        BY <2>1, <2>2, <2>3, TornWriteAt
  <2>5. file[fd[p]] # None  BY <2>1, BytesFacts
  <2> QED BY <2>2, <2>4, <2>5 DEF Lacks, w
<1> QED BY <1>1, <1>2

(* and fs::write of a copy leaves the whole file.                          *)
LEMMA CopyWritten ==
    ASSUME SharedInv, NEW p \in Proc, FinalizeFill(p)
    PROVE  LET b == Overwrite(Contents(fd[p]), job[p].bytes) IN
           /\ Write(fd[p], b)
           /\ fd[p] \in Addressed => /\ Torn(b, Whole(fd[p]))
                                     /\ \A i \in Nat : ~Lacks(b, fd[p], i)
<1> DEFINE b == Overwrite(Contents(fd[p]), job[p].bytes)
<1>1. pc[p] = "fill" /\ Write(fd[p], b)  BY DEF FinalizeFill
<1>2. ASSUME fd[p] \in Addressed PROVE b = Whole(fd[p]) /\ Whole(fd[p]) \in Bytes
      BY <1>1, <1>2, WriterHas, TornFacts
<1>3. ASSUME fd[p] \in Addressed PROVE \A i \in Nat : ~Lacks(b, fd[p], i)
  <2>1. DOMAIN b = 1..Len(b)  BY <1>2, <1>3 DEF Bytes
  <2> QED BY <1>2, <1>3, <2>1 DEF Lacks
<1> QED BY <1>1, <1>2, <1>3, TornFacts

(* A rename that publishes: content under its own name, or a tag.          *)
LEMMA RenameShared ==
    ASSUME SharedInv, TypeInv', NEW p \in Proc, NEW from \in Path, NEW to \in Path,
           Rename(from, to), Exists(from),
           \/ to \in ContentPath \cup TagPath /\ from = TmpOf(to)
           \/ /\ pc[p] = "move" /\ from = job[p].path /\ to \in BlobPath
              /\ hash_content(file[from]) = to.name,
           WriterOK(p)', SessionsApart', UNCHANGED used,
           \A q \in Proc \ {p} : pc'[q] = pc[q] /\ job'[q] = job[q]
    PROVE  SharedInv'
<1> USE DEF SharedInv
<1>1. Writers'  BY RenameWriters DEF Writers
<1>2. /\ \A x \in Path \ {from, to} : file'[x] = file[x]
      /\ file'[to] \in {file[from], None} /\ file'[from] = None
      BY DEF Rename, TypeInv, TypeOK
<1>3. AddressedOK'
  <2> SUFFICES ASSUME NEW x \in Addressed, file'[x] # None
               PROVE  Torn(file'[x], Whole(x))
      BY DEF AddressedOK, Exists
  <2>1. CASE x = to
    <3>1. to \in ContentPath
          BY <2>1, AddressedFacts, PathFacts DEF TypeInv, Shape, JobShape, Finalizing
    <3>2. file'[to] = file[from]  BY <1>2, <2>1
    <3>3. CASE from = TmpOf(to)
          BY <2>1, <3>1, <3>2, <3>3, AddressedFacts, WholeFacts DEF AddressedOK
    <3>4. CASE hash_content(file[from]) = to.name
          BY <2>1, <3>2, <3>4, WholeFacts, TornFacts
    <3> QED BY <3>3, <3>4
  <2>2. CASE x # to
    <3>1. x # from  BY <1>2
    <3>2. file'[x] = file[x]  BY <1>2, <2>2, <3>1, AddressedFacts
    <3> QED BY <3>2 DEF AddressedOK, Exists
  <2> QED BY <2>1, <2>2
<1>4. UsedOK'
  <2>1. to \notin UploadPath  BY PathFacts
  <2>2. \A x \in UploadPath : file'[x] # None => file'[x] = file[x]  BY <1>2, <2>1, PathFacts
  <2> QED BY <2>2 DEF UsedOK, Exists
<1> QED BY <1>1, <1>3, <1>4

(* Every step of atomic_write,                                             *)
LEMMA AtomicShared ==
    ASSUME SharedInv, TypeInv', NEW p \in Proc,
           AtomicCreate(p) \/ AtomicWrite(p) \/ AtomicSync(p) \/ AtomicRename(p)
    PROVE  SharedInv'
<1> DEFINE path == job[p].path  t == TmpOf(path)
<1> USE DEF SharedInv
<1>0. /\ pc[p] \in Writing /\ path \in ContentPath \cup TagPath
      /\ t \in TmpPath /\ t \in Path /\ path \in Path
      /\ job[p].dest \in TagPath => path \in DigestPath
  <2>1. pc[p] \in Writing
        BY DEF AtomicCreate, AtomicWrite, AtomicSync, AtomicRename, Writing
  <2> QED BY <2>1, PathFacts DEF TypeInv, Shape, JobShape
<1>1. CASE AtomicCreate(p)
  <2>1. Create(p, t) /\ Goto(p, "write") /\ UNCHANGED used  BY <1>1 DEF AtomicCreate
  <2>2. /\ pc'[p] = "write" /\ job' = job /\ fd'[p] = t
        /\ \A q \in Proc \ {p} : pc'[q] = pc[q]
        BY <2>1 DEF Create, Goto, TypeInv, TypeOK
  <2>3. WriterOK(p)'
    <3>1. path \notin ContentPath => t \notin Addressed \cup UploadPath
          BY <1>0, AddressedFacts, PathFacts
    <3> QED BY <1>0, <2>2, <3>1 DEF Writers, WriterOK, Writing, Finalizing
  <2>4. SessionsApart'  BY <1>0, <2>2, GoOnSessions DEF Writing
  <2>5. t \notin UploadPath  BY <1>0, PathFacts
  <2> QED BY <1>0, <2>1, <2>2, <2>3, <2>4, <2>5, CreateShared
<1>2. CASE AtomicWrite(p)
  <2>1. /\ pc[p] = "write" /\ pc'[p] \in {"write", "sync"} /\ UNCHANGED <<job, fd, used>>
        /\ \A q \in Proc \ {p} : pc'[q] = pc[q]
        BY <1>2 DEF AtomicWrite, Advance, TypeInv, TypeOK
  <2>2. WriterOK(p)'  BY <2>1 DEF Writers, WriterOK, Writing, Finalizing
  <2>3. SessionsApart'  BY <2>1, GoOnSessions
  <2> QED BY <1>2, <2>1, <2>2, <2>3, PieceWritten, WriteShared
<1>3. CASE AtomicSync(p)
  <2>1. /\ pc'[p] = "rename" /\ UNCHANGED <<file, job, used>>
        /\ \A q \in Proc \ {p} : pc'[q] = pc[q] /\ fd'[q] = fd[q]
        BY <1>3 DEF AtomicSync, Close, Goto, TypeInv, TypeOK
  <2>2. WriterOK(p)'  BY <1>0, <2>1 DEF Writers, WriterOK, Writing, Finalizing
  <2>3. SessionsApart'  BY <1>0, <2>1, GoOnSessions DEF Writing
  <2> QED BY <2>1, <2>2, <2>3, QuietStep
<1>4. CASE AtomicRename(p)
  <2>0. pc[p] = "rename" /\ fd[p] = None  BY <1>4 DEF AtomicRename, TypeInv, TypeOK
  <2>1. CASE ~Exists(t)
    <3>1. Finish(p, "Io") /\ UNCHANGED <<file, synced, fd, used>>
          BY <1>4, <2>1 DEF AtomicRename
    <3>2. pc'[p] = "idle" /\ \A q \in Proc \ {p} : pc'[q] = pc[q] /\ job'[q] = job[q]
          BY <3>1 DEF Finish, TypeInv, TypeOK
    <3>3. WriterOK(p)'  BY <3>2 DEF WriterOK, Writing, Finalizing
    <3>4. SessionsApart'  BY <3>2, GoOnSessions
    <3> QED BY <3>1, <3>2, <3>3, <3>4, QuietStep
  <2>2. CASE Exists(t)
    <3>1. Rename(t, path) /\ UNCHANGED used  BY <1>4, <2>2 DEF AtomicRename
    <3>2. \A q \in Proc \ {p} : pc'[q] = pc[q] /\ job'[q] = job[q]
          BY <1>4, <2>2 DEF AtomicRename, Finish, TypeInv, TypeOK
    <3>3. \/ pc'[p] = "idle"
          \/ pc'[p] = "create" /\ job'[p].path \in TagPath
          BY <1>4, <2>2 DEF AtomicRename, Finish, TypeInv, TypeOK
    <3>4. WriterOK(p)'  BY <3>3, PathFacts DEF WriterOK, Writing, Finalizing
    <3>5. SessionsApart'
      <4>1. pc'[p] = "create" => Session(job'[p]) = {}  BY <3>3, PathFacts DEF Session
      <4> QED BY <2>0, <3>2, <3>3, <4>1, GoOnSessions
    <3> QED BY <1>0, <2>2, <3>1, <3>2, <3>4, <3>5, RenameShared
  <2> QED BY <2>1, <2>2
<1> QED BY <1>1, <1>2, <1>3, <1>4

(* of upload_append and upload_finalize,                                   *)
LEMMA UploadShared ==
    ASSUME SharedInv, TypeInv', NEW p \in Proc,
           \/ AppendChunk(p) \/ FinalizeMove(p) \/ FinalizeTruncate(p) \/ FinalizeFill(p)
           \/ FinalizeUnlink(p)
    PROVE  SharedInv'
<1> DEFINE u == job[p].path  dest == job[p].dest
<1> USE DEF SharedInv
<1>0. /\ u \in UploadPath /\ u \in Path
      /\ pc[p] \in Finalizing => /\ dest \in BlobPath /\ dest \in ContentPath
                                 /\ dest \in Path \ UploadPath
      BY PathFacts
      DEF AppendChunk, FinalizeMove, FinalizeTruncate, FinalizeFill, FinalizeUnlink, TypeInv, Shape,
          JobShape, Finalizing
<1>1. CASE AppendChunk(p)
  <2>1. pc[p] = "append" /\ fd[p] = u  BY <1>1 DEF AppendChunk, Writers, WriterOK
  <2>2. /\ \A x \in Path \ {u} : file'[x] = file[x]
        /\ pc'[p] = "idle" /\ UNCHANGED used
        /\ \A q \in Proc \ {p} : pc'[q] = pc[q] /\ fd'[q] = fd[q] /\ job'[q] = job[q]
        BY <1>0, <1>1, <2>1 DEF AppendChunk, Write, Close, Finish, TypeInv, TypeOK
  <2>3. WriterOK(p)'  BY <2>2 DEF WriterOK, Writing, Finalizing
  <2>4. SessionsApart'  BY <2>2, GoOnSessions
  <2>5. \A x \in Addressed : file'[x] = file[x]  BY <1>0, <2>2, AddressedFacts
  <2>6. ASSUME NEW q \in Proc \ {p}, pc[q] = "move" PROVE file'[job[q].path] = file[job[q].path]
    <3>1. job[q].path \in UploadPath /\ job[q].path # u
          BY <2>1, <2>6, OwnUploads DEF TypeInv, Shape, JobShape, Finalizing
    <3> QED BY <2>2, <3>1, PathFacts
  <2>7. \A x \in UploadPath : file'[x] # None => file[x] # None
    <3>1. file[u] # None  BY <1>0, <2>1 DEF TypeInv, Shape, HandleOK, Exists
    <3> QED BY <2>2, <3>1, PathFacts
  <2> QED BY <2>2, <2>3, <2>4, <2>5, <2>6, <2>7, QuietStep
<1>2. CASE FinalizeMove(p)
  <2>1. /\ pc[p] = "move" /\ fd[p] = None /\ hash_content(job[p].bytes) = dest.name
        /\ file[u] = job[p].bytes
        BY <1>2 DEF FinalizeMove, Writers, WriterOK, Finalizing, TypeInv, TypeOK
  <2>2. CASE Exists(u) /\ ~CrossFs
    <3>1. Rename(u, dest) /\ Finish(p, "ok") /\ UNCHANGED used
          BY <1>2, <2>2 DEF FinalizeMove
    <3>2. pc'[p] = "idle" /\ \A q \in Proc \ {p} : pc'[q] = pc[q] /\ job'[q] = job[q]
          BY <3>1 DEF Finish, TypeInv, TypeOK
    <3>3. WriterOK(p)'  BY <3>2 DEF WriterOK, Writing, Finalizing
    <3>4. SessionsApart'  BY <3>2, GoOnSessions
    <3> QED BY <1>0, <2>1, <2>2, <3>1, <3>2, <3>3, <3>4, RenameShared DEF Finalizing
  <2>3. CASE ~(Exists(u) /\ ~CrossFs)
    <3>1. /\ pc'[p] = "trunc" /\ UNCHANGED <<file, fd, job, used>>
          /\ \A q \in Proc \ {p} : pc'[q] = pc[q]
          BY <1>2, <2>3 DEF FinalizeMove, Goto, TypeInv, TypeOK
    <3>2. WriterOK(p)'  BY <2>1, <3>1 DEF WriterOK, Writing
    <3>3. SessionsApart'  BY <2>1, <3>1, GoOnSessions
    <3> QED BY <3>1, <3>2, <3>3, QuietStep
  <2> QED BY <2>2, <2>3
<1>3. CASE FinalizeTruncate(p)
  <2>1. pc[p] = "trunc" /\ hash_content(job[p].bytes) = dest.name
        BY <1>3 DEF FinalizeTruncate, Writers, WriterOK, Finalizing
  <2>2. Create(p, dest) /\ Goto(p, "fill") /\ UNCHANGED used  BY <1>3 DEF FinalizeTruncate
  <2>3. /\ pc'[p] = "fill" /\ job' = job /\ fd'[p] = dest
        /\ \A q \in Proc \ {p} : pc'[q] = pc[q]
        BY <2>2 DEF Create, Goto, TypeInv, TypeOK
  <2>4. WriterOK(p)'  BY <2>1, <2>3 DEF WriterOK, Writing
  <2>5. SessionsApart'  BY <2>1, <2>3, GoOnSessions
  <2>6. dest \in Path /\ dest \notin UploadPath  BY <1>0, <2>1 DEF Finalizing
  <2> QED BY <2>2, <2>3, <2>4, <2>5, <2>6, CreateShared
<1>4. CASE FinalizeFill(p)
  <2>1. /\ pc[p] = "fill" /\ Close(p) /\ Goto(p, "unlink") /\ UNCHANGED used
        /\ hash_content(job[p].bytes) = dest.name
        BY <1>4 DEF FinalizeFill, Writers, WriterOK, Finalizing
  <2>2. /\ pc'[p] = "unlink" /\ job' = job
        /\ \A q \in Proc \ {p} : pc'[q] = pc[q] /\ fd'[q] = fd[q]
        BY <2>1 DEF Close, Goto, TypeInv, TypeOK
  <2>3. WriterOK(p)'  BY <2>1, <2>2 DEF WriterOK, Writing
  <2>4. SessionsApart'  BY <2>1, <2>2, GoOnSessions
  <2> QED BY <1>4, <2>1, <2>2, <2>3, <2>4, CopyWritten, WriteShared
<1>5. CASE FinalizeUnlink(p)
  <2>1. /\ pc[p] = "unlink" /\ fd[p] = None /\ Unlink(u) /\ Finish(p, "ok") /\ UNCHANGED used
        BY <1>5 DEF FinalizeUnlink, TypeInv, TypeOK
  <2>2. /\ \A x \in Path \ {u} : file'[x] = file[x]
        /\ file'[u] = None /\ pc'[p] = "idle"
        /\ \A q \in Proc \ {p} : pc'[q] = pc[q] /\ job'[q] = job[q]
        /\ \A q \in Proc : fd[q] # u => fd'[q] = fd[q]
        BY <1>0, <2>1 DEF Unlink, Finish, TypeInv, TypeOK
  <2>3. WriterOK(p)'  BY <2>2 DEF WriterOK, Writing, Finalizing
  <2>4. SessionsApart'  BY <2>2, GoOnSessions
  <2>5. ASSUME NEW q \in Proc \ {p} PROVE fd[q] # u
        BY <1>0, <2>1, Handles, OwnUploads DEF Finalizing
  <2>6. ASSUME NEW q \in Proc \ {p}, pc[q] = "move" PROVE file'[job[q].path] = file[job[q].path]
    <3>1. job[q].path \in UploadPath /\ job[q].path # u
          BY <2>1, <2>6, OwnUploads DEF TypeInv, Shape, JobShape, Finalizing
    <3> QED BY <2>2, <3>1, PathFacts
  <2>7. \A x \in Addressed : file'[x] = file[x]  BY <1>0, <2>2, AddressedFacts
  <2>8. \A x \in UploadPath : file'[x] # None => file[x] # None  BY <2>2, PathFacts
  <2> QED BY <2>1, <2>2, <2>3, <2>4, <2>5, <2>6, <2>7, <2>8, QuietStep
<1> QED BY <1>1, <1>2, <1>3, <1>4, <1>5

(* requests as they come in,                                               *)
LEMMA RequestShared ==
    ASSUME SharedInv, TypeInv', "session" \in Exclusive, NEW p \in Proc,
           \/ \E b \in Payload, d \in BlobDigest : blob_write(p, d, b)
           \/ upload_create(p)
           \/ \E id \in Uuid, c \in Chunk : upload_append(p, id, c)
           \/ \E id \in Uuid, d \in BlobDigest : upload_finalize(p, id, d)
           \/ \E m \in Manifest, t \in Tag \cup {None} : manifest_put(p, m, t)
           \/ \E t \in Tag : manifest_get(p, t)
           \/ ReadManifest(p)
    PROVE  SharedInv'
<1> USE DEF SharedInv
<1>b. ASSUME NEW at, NEW j, Begin(p, at, j) PROVE pc'[p] = at /\ job'[p] = j
      BY <1>b DEF Begin, TypeInv, TypeOK
<1>1. ASSUME NEW b \in Payload, NEW d \in BlobDigest, blob_write(p, d, b) PROVE SharedInv'
  <2>1. CASE hash_content(b) # d  BY <1>1, <2>1, ReplyShared DEF blob_write
  <2>2. CASE hash_content(b) = d
    <3> DEFINE j == [path |-> blob_path(d), bytes |-> b, dest |-> None]
    <3>1. Begin(p, "create", j) /\ UNCHANGED <<file, fd, used>>  BY <1>1, <2>2 DEF blob_write
    <3>2. WriterOK(p)'  BY <1>b, <2>2, <3>1, PathFacts DEF WriterOK, Writing, Finalizing
    <3> HIDE DEF j
    <3> QED BY <3>1, <3>2, BeginShared
  <2> QED BY <2>1, <2>2
<1>2. CASE upload_create(p)
  <2>1. PICK id \in Uuid \ used : /\ file' = [file EXCEPT ![upload_path(id)] = <<>>]
                                  /\ used' = used \cup {id}
        BY <1>2 DEF upload_create
  <2> DEFINE u == upload_path(id)
  <2>2. u \in UploadPath /\ u \in Path /\ u.name = id  BY PathFacts DEF upload_path
  <2>3. file[u] = None  BY <2>2 DEF UsedOK, Exists
  <2>4. \A x \in Path \ {u} : file'[x] = file[x]  BY <2>1
  <2>5. UNCHANGED <<pc, job, fd>>  BY <1>2 DEF upload_create, Reply
  <2>6. ASSUME NEW q \in Proc, pc[q] = "move" PROVE file'[job[q].path] = file[job[q].path]
    <3>1. job[q].path \in UploadPath /\ file[job[q].path] = job[q].bytes /\ job[q].bytes \in Bytes
          BY <2>6, JobFacts DEF TypeInv, TypeOK, Shape, JobShape, Finalizing, Writers, WriterOK
    <3>2. job[q].path # u  BY <2>3, <3>1, BytesFacts
    <3> QED BY <2>4, <3>1, <3>2, PathFacts
  <2>7. WriterOK(p)'  BY <2>5, <2>6, WriterFrame DEF Writers
  <2>8. SessionsApart'  BY <2>5 DEF SessionsApart, Session
  <2>9. \A x \in Addressed : file'[x] = file[x]  BY <2>2, <2>4, AddressedFacts
  <2>10. \A x \in UploadPath : file'[x] # None => file[x] # None \/ x.name \in used'
        BY <2>1, <2>2, <2>4, PathFacts
  <2> QED BY <2>1, <2>5, <2>6, <2>7, <2>8, <2>9, <2>10, QuietStep
<1>3. ASSUME NEW id \in Uuid, NEW c \in Chunk, upload_append(p, id, c) PROVE SharedInv'
  <2>1. CASE ~Exists(upload_path(id))  BY <1>3, <2>1, ReplyShared DEF upload_append
  <2>2. CASE Exists(upload_path(id))
    <3> DEFINE j == [path |-> upload_path(id), bytes |-> <<c>>, dest |-> None]
    <3>1. Begin(p, "append", j)  BY <1>3, <2>2 DEF upload_append
    <3>2. fd'[p] = upload_path(id) /\ \A q \in Proc \ {p} : fd'[q] = fd[q]
          BY <1>3, <2>2 DEF upload_append, TypeInv, TypeOK
    <3>3. UNCHANGED <<file, used>>  BY <1>3, <2>2 DEF upload_append
    <3>4. WriterOK(p)'  BY <1>b, <3>1, <3>2 DEF WriterOK, Writing, Finalizing
    <3> HIDE DEF j
    <3> QED BY <3>1, <3>2, <3>3, <3>4, BeginShared
  <2> QED BY <2>1, <2>2
<1>4. ASSUME NEW id \in Uuid, NEW d \in BlobDigest, upload_finalize(p, id, d) PROVE SharedInv'
  <2> DEFINE u == upload_path(id)
             j == [path |-> u, bytes |-> file[u], dest |-> blob_path(d)]
  <2>1. CASE ~Exists(u)  BY <1>4, <2>1, ReplyShared DEF upload_finalize
  <2>2. CASE Exists(u) /\ hash_content(file[u]) # d
        BY <1>4, <2>2, ReplyShared DEF upload_finalize
  <2>3. CASE Exists(u) /\ hash_content(file[u]) = d
    <3>1. Begin(p, "move", j) /\ UNCHANGED <<file, fd, used>>
          BY <1>4, <2>3 DEF upload_finalize
    <3>2. WriterOK(p)'  BY <1>b, <2>3, <3>1, PathFacts DEF WriterOK, Writing, Finalizing
    <3> HIDE DEF j
    <3> QED BY <3>1, <3>2, BeginShared
  <2> QED BY <2>1, <2>2, <2>3
<1>5. ASSUME NEW m \in Manifest, NEW t \in Tag \cup {None}, manifest_put(p, m, t) PROVE SharedInv'
  <2> DEFINE d == hash_content(ManifestBytes(m))
             j == [path |-> manifest_digest_path(d), bytes |-> ManifestBytes(m),
                   dest |-> IF t \in Tag THEN manifest_tag_path(t) ELSE None]
  <2>1. Begin(p, "create", j) /\ UNCHANGED <<file, fd, used>>  BY <1>5 DEF manifest_put
  <2>2. d \in ManifestDigest  BY DEF ManifestDigest
  <2>3. WriterOK(p)'  BY <1>b, <2>1, <2>2, PathFacts DEF WriterOK, Writing, Finalizing
  <2> HIDE DEF j
  <2> QED BY <2>1, <2>3, BeginShared
<1>6. ASSUME NEW t \in Tag, manifest_get(p, t) PROVE SharedInv'
  <2> DEFINE g == manifest_tag_path(t)
             j == [path |-> None, bytes |-> file[g], dest |-> None]
  <2>1. CASE ~Exists(g) \/ file[g] = <<>>
        BY <1>6, <2>1, ReplyShared DEF manifest_get
  <2>2. CASE Exists(g) /\ file[g] # <<>>
    <3>1. Begin(p, "lookup", j) /\ UNCHANGED <<file, fd, used>>
          BY <1>6, <2>2 DEF manifest_get
    <3>2. WriterOK(p)'  BY <1>b, <3>1 DEF WriterOK, Writing, Finalizing
    <3> HIDE DEF j
    <3> QED BY <3>1, <3>2, BeginShared
  <2> QED BY <2>1, <2>2
<1>7. CASE ReadManifest(p)
  <2>1. /\ UNCHANGED <<file, fd, used>> /\ pc'[p] = "idle"
        /\ \A q \in Proc \ {p} : pc'[q] = pc[q] /\ job'[q] = job[q]
        BY <1>7 DEF ReadManifest, Finish, TypeInv, TypeOK
  <2>2. WriterOK(p)'  BY <2>1 DEF WriterOK, Writing, Finalizing
  <2>3. SessionsApart'  BY <2>1, GoOnSessions
  <2> QED BY <2>1, <2>2, <2>3, QuietStep
<1> QED BY <1>1, <1>2, <1>3, <1>4, <1>5, <1>6, <1>7

(* deletes and cancels,                                                    *)
LEMMA DeleteShared ==
    ASSUME SharedInv, TypeInv', "session" \in Exclusive, NEW p \in Proc,
           \/ \E d \in BlobDigest : blob_delete(p, d)
           \/ \E id \in Uuid : upload_cancel(p, id)
           \/ \E path \in DigestPath \cup TagPath : manifest_delete(p, path)
    PROVE  SharedInv'
<1> USE DEF SharedInv
<1>1. ASSUME NEW path \in ContentPath \cup TagPath, RemoveFile(p, path), UNCHANGED used
      PROVE  SharedInv'
  <2>1. \A q \in Proc : pc[q] \in Finalizing \cup {"append"} => job[q].path # path
        BY PathFacts DEF TypeInv, Shape, JobShape
  <2> QED BY <1>1, <2>1, PathFacts, RemoveShared
<1>2. ASSUME NEW id \in Uuid, upload_cancel(p, id) PROVE SharedInv'
  <2> DEFINE u == upload_path(id)  j == [path |-> u, bytes |-> <<>>, dest |-> None]
  <2>1. ASSUME NEW q \in Proc, pc[q] \in Finalizing \cup {"append"}, job[q].path = u PROVE FALSE
    <3>1. u \in Session(j) /\ u \in Session(job[q])  BY <2>1, PathFacts DEF Session
    <3> QED BY <1>2, <2>1, <3>1 DEF upload_cancel, Apart, Finalizing
  <2> QED BY <1>2, <2>1, PathFacts, RemoveShared DEF upload_cancel
<1>3. ASSUME NEW d \in BlobDigest, blob_delete(p, d) PROVE SharedInv'
      BY <1>1, <1>3, PathFacts DEF blob_delete
<1>4. ASSUME NEW path \in DigestPath \cup TagPath, manifest_delete(p, path) PROVE SharedInv'
      BY <1>1, <1>4, PathFacts DEF manifest_delete
<1> QED BY <1>2, <1>3, <1>4

(* and a crash, or a power failure, which may empty files but not mix them. *)
LEMMA StopShared ==
    ASSUME SharedInv, TypeInv', Crash \/ PowerFailure PROVE SharedInv'
<1> USE DEF SharedInv
<1>1. pc' = [p \in Proc |-> "idle"] /\ used' = used  BY DEF Crash, PowerFailure, Stop
<1>2. Writers' /\ SessionsApart'
      BY <1>1 DEF Writers, WriterOK, SessionsApart, Writing, Finalizing
<1>3. \A x \in Path : file'[x] = file[x] \/ (file[x] # None /\ file'[x] = <<>>)
      BY DEF Crash, PowerFailure, Exists, TypeInv, TypeOK
<1>4. AddressedOK'  BY <1>3, AddressedFacts, WholeFacts, TornFacts DEF AddressedOK, Exists
<1>5. UsedOK'  BY <1>1, <1>3, PathFacts DEF UsedOK, Exists
<1> QED BY <1>2, <1>4, <1>5

(* keep the invariant.                                                     *)
LEMMA SharedStep == ASSUME "session" \in Exclusive PROVE SharedInv /\ [Next]_vars => SharedInv'
<1> SUFFICES ASSUME SharedInv, [Next]_vars PROVE SharedInv'  OBVIOUS
<1>0. TypeInv'  BY TypeStep DEF SharedInv
<1>1. CASE UNCHANGED vars
  <2>1. UNCHANGED <<file, pc, job, fd, used>>  BY <1>1 DEF vars
  <2>2. Writers'  BY <2>1, WriterFrame DEF SharedInv, Writers
  <2>3. SessionsApart' /\ AddressedOK' /\ UsedOK'
        BY <2>1 DEF SharedInv, SessionsApart, Session, AddressedOK, UsedOK, Exists
  <2> QED BY <1>0, <2>2, <2>3 DEF SharedInv
<1>2. CASE Crash \/ PowerFailure  BY <1>0, <1>2, StopShared
<1> QED BY <1>0, <1>1, <1>2, AtomicShared, UploadShared, RequestShared, DeleteShared DEF Next

(* Whatever requests share temporary files, crash or lose power, and with  *)
(* uploads copied across filesystems: a content file may be cut short or   *)
(* have holes where another writer truncated it, but it holds no byte of   *)
(* another file, none out of its place, and not more than its digest names *)
(* - as long as no two requests work on one upload session.                *)
THEOREM NeverForeign == ASSUME "session" \in Exclusive PROVE Spec => []NoForeignBytes
<1>1. SharedInv => NoForeignBytes
      BY AddressedFacts DEF SharedInv, AddressedOK, NoForeignBytes, Whole
<1> QED BY <1>1, SharedInit, SharedStep, PTL DEF Spec

-----------------------------------------------------------------------------
(* Without failures, what is torn is repaired.                             *)

(* A piece that is missing after a step was missing before, and who had to *)
(* write it still has to.                                                  *)
LEMMA OwnedFrame ==
    ASSUME MissingOwned,
           \A x \in Addressed, i \in Nat : Lacks(file'[x], x, i) => Lacks(file[x], x, i),
           \A q \in Proc, i \in Nat : fd[q] \in Addressed /\ Due(q, i) =>
                \/ fd'[q] = fd[q] /\ Due(q, i)'
                \/ ~Lacks(file'[fd[q]], fd[q], i)
    PROVE  MissingOwned'
<1> SUFFICES ASSUME NEW x \in Addressed, NEW i \in Nat, Lacks(file'[x], x, i)
             PROVE  \E q \in Proc : fd'[q] = x /\ Due(q, i)'
      BY DEF MissingOwned
<1>1. PICK q \in Proc : fd[q] = x /\ Due(q, i)  BY DEF MissingOwned
<1> QED BY <1>1

(* A handler that stood still has to write what it had to.                 *)
LEMMA DueFrame ==
    ASSUME NEW q \in Proc, pc'[q] = pc[q], written'[q] = written[q], NEW i \in Nat, Due(q, i)
    PROVE  Due(q, i)'
BY DEF Due

(* A step of a handler that does not fill, and takes no piece away.        *)
LEMMA OwnedIdle ==
    ASSUME MissingOwned, NEW p \in Proc, pc[p] \notin {"write", "fill"}, written' = written,
           \A q \in Proc \ {p} : pc'[q] = pc[q] /\ fd'[q] = fd[q],
           \A x \in Addressed : file'[x] = file[x]
    PROVE  MissingOwned'
<1>1. \A i \in Nat : ~Due(p, i)  BY DEF Due
<1>2. ASSUME NEW q \in Proc, NEW i \in Nat, Due(q, i) PROVE fd'[q] = fd[q] /\ Due(q, i)'
      BY <1>1, <1>2, DueFrame
<1> QED BY <1>2, OwnedFrame

(* remove_file takes a file away; nobody has to fill it.                   *)
LEMMA OwnedRemove ==
    ASSUME TypeInv, MissingOwned, NEW p \in Proc, NEW path \in Path, RemoveFile(p, path)
    PROVE  MissingOwned'
<1>0. UNCHANGED <<pc, written>>  BY DEF RemoveFile, Reply
<1>1. CASE ~Exists(path)
  <2>1. UNCHANGED <<file, fd>>  BY <1>1 DEF RemoveFile
  <2> QED BY <1>0, <2>1, DueFrame, OwnedFrame
<1>2. CASE Exists(path)
  <2>1. /\ \A x \in Path \ {path} : file'[x] = file[x]
        /\ file'[path] = None
        /\ \A q \in Proc : fd'[q] = IF fd[q] = path THEN Unlinked ELSE fd[q]
        BY <1>2 DEF RemoveFile, Reply, Unlink, TypeInv, TypeOK
  <2>2. \A i \in Nat : ~Lacks(file'[path], path, i)  BY <2>1 DEF Lacks
  <2>3. \A x \in Addressed, i \in Nat : Lacks(file'[x], x, i) => Lacks(file[x], x, i)
        BY <2>1, <2>2, AddressedFacts
  <2> QED BY <1>0, <2>1, <2>2, <2>3, DueFrame, OwnedFrame
<1> QED BY <1>1, <1>2

(* File::create makes an empty file that its caller is about to fill.      *)
LEMMA OwnedCreate ==
    ASSUME TypeInv, MissingOwned, NEW p \in Proc, NEW path \in Path, Create(p, path),
           fd[p] = None, pc[p] # "write", pc'[p] \in {"write", "fill"}, written' = written,
           \A q \in Proc \ {p} : pc'[q] = pc[q]
    PROVE  MissingOwned'
<1>1. /\ \A x \in Path \ {path} : file'[x] = file[x]
      /\ fd'[p] = path /\ \A q \in Proc \ {p} : fd'[q] = fd[q]
      BY DEF Create, TypeInv, TypeOK
<1> SUFFICES ASSUME NEW x \in Addressed, NEW i \in Nat, Lacks(file'[x], x, i)
             PROVE  \E q \in Proc : fd'[q] = x /\ Due(q, i)'
      BY DEF MissingOwned
<1>2. CASE x = path
  <2>1. i > 0  BY DEF Lacks
  <2>2. written[p] = 0  BY DEF TypeInv, TypeOK, ProgressOK
  <2> QED BY <1>1, <1>2, <2>1, <2>2 DEF Due
<1>3. CASE x # path
  <2>1. file'[x] = file[x]  BY <1>1, <1>3, AddressedFacts
  <2>2. PICK q \in Proc : fd[q] = x /\ Due(q, i)  BY <2>1 DEF MissingOwned
  <2>3. q # p  BY <2>2, AddressedFacts
  <2> QED BY <1>1, <2>2, <2>3, DueFrame
<1> QED BY <1>2, <1>3

(* rename(2) takes a file and the handles that will complete it along.     *)
LEMMA OwnedRename ==
    ASSUME TypeInv, MissingOwned, NEW p \in Proc, NEW from \in Path, NEW to \in Path, from # to,
           Rename(from, to), fd[p] = None, written' = written, \A q \in Proc \ {p} : pc'[q] = pc[q],
           to \in Addressed => \/ from \in Addressed /\ Whole(from) = Whole(to)
                              \/ \A i \in Nat : ~Lacks(file[from], to, i)
    PROVE  MissingOwned'
<1>1. /\ \A x \in Path \ {from, to} : file'[x] = file[x]
      /\ file'[to] = file[from] /\ file'[from] = None
      /\ \A q \in Proc : fd'[q] = IF fd[q] = from THEN to
                                  ELSE IF fd[q] = to THEN Unlinked ELSE fd[q]
      BY DEF Rename, TypeInv, TypeOK
<1> SUFFICES ASSUME NEW x \in Addressed, NEW i \in Nat, Lacks(file'[x], x, i)
             PROVE  \E q \in Proc : fd'[q] = x /\ Due(q, i)'
      BY DEF MissingOwned
<1> DEFINE y == IF x = to THEN from ELSE x
<1>2. x # from  BY <1>1 DEF Lacks
<1>3. y \in Addressed /\ Lacks(file[y], y, i)
  <2>1. CASE x = to  BY <1>1, <2>1 DEF Lacks
  <2>2. CASE x # to  BY <1>1, <1>2, <2>2, AddressedFacts
  <2> QED BY <2>1, <2>2
<1>4. PICK q \in Proc : fd[q] = y /\ Due(q, i)  BY <1>3 DEF MissingOwned
<1>5. q # p  BY <1>3, <1>4, AddressedFacts
<1>6. fd'[q] = x  BY <1>1, <1>2, <1>4
<1> QED BY <1>4, <1>5, <1>6, DueFrame

(* A writer writes a piece of the file it has open, or all of it.          *)
LEMMA OwnedWrite ==
    ASSUME TypeInv, MissingOwned, NEW p \in Proc, NEW b, Write(fd[p], b),
           \A q \in Proc \ {p} : pc'[q] = pc[q] /\ fd'[q] = fd[q] /\ written'[q] = written[q],
           \A i \in Nat : fd[p] \in Addressed /\ Lacks(b, fd[p], i) =>
                /\ Lacks(file[fd[p]], fd[p], i)
                /\ Due(p, i) => fd'[p] = fd[p] /\ Due(p, i)'
    PROVE  MissingOwned'
<1>1. /\ \A x \in Addressed \ {fd[p]} : file'[x] = file[x]
      /\ fd[p] \in Addressed => file'[fd[p]] = b
      BY AddressedFacts DEF Write, TypeInv, TypeOK
<1>2. \A x \in Addressed, i \in Nat : Lacks(file'[x], x, i) => Lacks(file[x], x, i)  BY <1>1
<1>3. ASSUME NEW q \in Proc, NEW i \in Nat, fd[q] \in Addressed, Due(q, i)
      PROVE  (fd'[q] = fd[q] /\ Due(q, i)') \/ ~Lacks(file'[fd[q]], fd[q], i)
  <2>1. CASE q = p  BY <1>1, <1>3, <2>1
  <2>2. CASE q # p  BY <1>3, <2>2, DueFrame
  <2> QED BY <2>1, <2>2
<1> QED BY <1>2, <1>3, OwnedFrame

(* Every step without a failure keeps missing pieces owned.                *)
LEMMA OwnedStep ==
    ASSUME "session" \in Exclusive, Failures = {}
    PROVE  SharedInv /\ MissingOwned /\ [Next]_vars => MissingOwned'
<1> SUFFICES ASSUME SharedInv, MissingOwned, [Next]_vars PROVE MissingOwned'  OBVIOUS
<1>0. SharedInv'  BY SharedStep
<1> USE DEF SharedInv
<1>1. ASSUME NEW p \in Proc, AtomicCreate(p) PROVE MissingOwned'
  <2>1. /\ Create(p, TmpOf(job[p].path)) /\ pc'[p] = "write" /\ fd[p] = None
        /\ pc[p] # "write" /\ written' = written
        /\ \A q \in Proc \ {p} : pc'[q] = pc[q]
        BY <1>1 DEF AtomicCreate, Goto, TypeInv, TypeOK
  <2>2. TmpOf(job[p].path) \in Path
        BY <1>1, PathFacts DEF AtomicCreate, TypeInv, Shape, JobShape, Writing
  <2> QED BY <2>1, <2>2, OwnedCreate
<1>2. ASSUME NEW p \in Proc, AtomicWrite(p) PROVE MissingOwned'
  <2> DEFINE n == written[p]  b == WriteAt(Contents(fd[p]), n + 1, job[p].bytes[n + 1])
  <2>1. /\ pc[p] = "write" /\ n \in Nat /\ fd' = fd
        /\ n + 1 = Len(job[p].bytes) \/ (pc'[p] = "write" /\ written'[p] = n + 1)
        /\ \A q \in Proc \ {p} : pc'[q] = pc[q] /\ written'[q] = written[q]
        BY <1>2 DEF AtomicWrite, Advance, TypeInv, TypeOK, ProgressOK
  <2>2. /\ Write(fd[p], b)
        /\ fd[p] \in Addressed =>
              \A i \in Nat : Lacks(b, fd[p], i) => i # n + 1 /\ Lacks(file[fd[p]], fd[p], i)
        BY <1>2, PieceWritten
  <2> HIDE DEF b
  <2>3. ASSUME NEW i \in Nat, fd[p] \in Addressed, Lacks(b, fd[p], i), Due(p, i)
        PROVE  Due(p, i)'
    <3>1. n + 1 < i  BY <2>1, <2>2, <2>3 DEF Due
    <3>2. i <= Len(job[p].bytes)  BY <2>1, <2>3, WriterHas DEF Lacks
    <3>3. Len(job[p].bytes) \in Nat  BY <2>1, WriteSpan
    <3>4. n + 1 # Len(job[p].bytes)  BY <2>1, <3>1, <3>2, <3>3
    <3> QED BY <2>1, <3>1, <3>4 DEF Due
  <2> QED BY <2>1, <2>2, <2>3, OwnedWrite
<1>3. ASSUME NEW p \in Proc, AtomicSync(p) PROVE MissingOwned'
  <2>1. /\ pc[p] = "sync" /\ file' = file /\ written' = written
        /\ \A q \in Proc \ {p} : pc'[q] = pc[q] /\ fd'[q] = fd[q]
        BY <1>3 DEF AtomicSync, Close, Goto, TypeInv, TypeOK
  <2> QED BY <2>1, OwnedIdle
<1>4. ASSUME NEW p \in Proc, AtomicRename(p) PROVE MissingOwned'
  <2> DEFINE path == job[p].path  t == TmpOf(path)
  <2>1. pc[p] = "rename" /\ fd[p] = None  BY <1>4 DEF AtomicRename, TypeInv, TypeOK
  <2>2. path \in ContentPath \cup TagPath /\ path \in Path /\ t \in TmpPath /\ t \in Path
        BY <2>1, PathFacts DEF TypeInv, Shape, JobShape, Writing
  <2>3. written' = written /\ \A q \in Proc \ {p} : pc'[q] = pc[q]
        BY <1>4 DEF AtomicRename, Finish, TypeInv, TypeOK
  <2>4. CASE ~Exists(t)
    <3>1. UNCHANGED <<file, fd>>  BY <1>4, <2>4 DEF AtomicRename
    <3> QED BY <2>1, <2>3, <3>1, OwnedIdle
  <2>5. CASE Exists(t)
    <3>1. Rename(t, path)  BY <1>4, <2>5 DEF AtomicRename
    <3>2. t # path  BY <2>2, PathFacts
    <3>3. path \in Addressed => t \in Addressed /\ Whole(t) = Whole(path)
          BY <2>2, AddressedFacts, WholeFacts
    <3> QED BY <2>1, <2>2, <2>3, <3>1, <3>2, <3>3, OwnedRename
  <2> QED BY <2>4, <2>5
<1>5. ASSUME NEW p \in Proc, AppendChunk(p) PROVE MissingOwned'
  <2>1. pc[p] = "append" /\ fd[p] \in UploadPath
        BY <1>5 DEF AppendChunk, Writers, WriterOK, TypeInv, Shape, JobShape
  <2>2. \A x \in Path \ {fd[p]} : file'[x] = file[x]
        BY <1>5 DEF AppendChunk, Write, TypeInv, TypeOK
  <2>3. written' = written /\ \A q \in Proc \ {p} : pc'[q] = pc[q] /\ fd'[q] = fd[q]
        BY <1>5 DEF AppendChunk, Close, Finish, TypeInv, TypeOK
  <2>4. \A x \in Addressed : file'[x] = file[x]  BY <2>1, <2>2, AddressedFacts
  <2> QED BY <2>1, <2>3, <2>4, OwnedIdle
<1>6. ASSUME NEW p \in Proc, FinalizeMove(p) PROVE MissingOwned'
  <2> DEFINE u == job[p].path  dest == job[p].dest
  <2>1. /\ pc[p] = "move" /\ fd[p] = None /\ u \in UploadPath /\ dest \in BlobPath
        /\ file[u] = job[p].bytes /\ hash_content(job[p].bytes) = dest.name
        BY <1>6 DEF FinalizeMove, TypeInv, TypeOK, Shape, JobShape, Finalizing, Writers, WriterOK
  <2>2. written' = written /\ \A q \in Proc \ {p} : pc'[q] = pc[q]
        BY <1>6 DEF FinalizeMove, Finish, Goto, TypeInv, TypeOK
  <2>3. CASE Exists(u) /\ ~CrossFs
    <3>1. Rename(u, dest)  BY <1>6, <2>3 DEF FinalizeMove
    <3>2. \A i \in Nat : ~Lacks(file[u], dest, i)
      <4>1. dest \in Addressed  BY <2>1, AddressedFacts, PathFacts
      <4>2. file[u] = Whole(dest) /\ Whole(dest) \in Bytes  BY <2>1, <4>1, WholeFacts
      <4>3. DOMAIN Whole(dest) = 1..Len(Whole(dest))  BY <4>2 DEF Bytes
      <4> QED BY <4>2, <4>3 DEF Lacks
    <3>3. u \in Path /\ dest \in Path /\ u # dest  BY <2>1, PathFacts
    <3> QED BY <2>1, <2>2, <3>1, <3>2, <3>3, OwnedRename
  <2>4. CASE ~(Exists(u) /\ ~CrossFs)
    <3>1. UNCHANGED <<file, fd>>  BY <1>6, <2>4 DEF FinalizeMove
    <3> QED BY <2>1, <2>2, <3>1, OwnedIdle
  <2> QED BY <2>3, <2>4
<1>7. ASSUME NEW p \in Proc, FinalizeTruncate(p) PROVE MissingOwned'
  <2>1. /\ Create(p, job[p].dest) /\ pc'[p] = "fill" /\ fd[p] = None
        /\ pc[p] # "write" /\ written' = written
        /\ \A q \in Proc \ {p} : pc'[q] = pc[q]
        BY <1>7 DEF FinalizeTruncate, Goto, TypeInv, TypeOK
  <2>2. job[p].dest \in Path
        BY <1>7, PathFacts DEF FinalizeTruncate, TypeInv, Shape, JobShape, Finalizing
  <2> QED BY <2>1, <2>2, OwnedCreate
<1>8. ASSUME NEW p \in Proc, FinalizeFill(p) PROVE MissingOwned'
  <2>1. /\ written' = written
        /\ \A q \in Proc \ {p} : pc'[q] = pc[q] /\ fd'[q] = fd[q]
        BY <1>8 DEF FinalizeFill, Close, Goto, TypeInv, TypeOK
  <2> QED BY <1>8, <2>1, CopyWritten, OwnedWrite
<1>9. ASSUME NEW p \in Proc, FinalizeUnlink(p) PROVE MissingOwned'
  <2> DEFINE u == job[p].path
  <2>1. pc[p] = "unlink" /\ u \in UploadPath /\ Unlink(u)
        BY <1>9 DEF FinalizeUnlink, TypeInv, Shape, JobShape, Finalizing
  <2>2. /\ \A x \in Path \ {u} : file'[x] = file[x]
        /\ \A q \in Proc : fd'[q] = fd[q] \/ fd[q] = u
        /\ written' = written /\ \A q \in Proc \ {p} : pc'[q] = pc[q]
        BY <1>9, <2>1 DEF FinalizeUnlink, Unlink, Finish, TypeInv, TypeOK
  <2>3. \A x \in Addressed : file'[x] = file[x] /\ x # u  BY <2>1, <2>2, AddressedFacts
  <2>4. \A i \in Nat : ~Due(p, i)  BY <2>1 DEF Due
  <2>5. ASSUME NEW q \in Proc, NEW i \in Nat, fd[q] \in Addressed, Due(q, i)
        PROVE  fd'[q] = fd[q] /\ Due(q, i)'
        BY <2>2, <2>3, <2>4, <2>5, DueFrame
  <2> QED BY <2>3, <2>5, OwnedFrame
<1>10. ASSUME NEW p \in Proc, upload_create(p) PROVE MissingOwned'
  <2>1. PICK id \in Uuid \ used : file' = [file EXCEPT ![upload_path(id)] = <<>>]
        BY <1>10 DEF upload_create
  <2>2. upload_path(id) \in UploadPath  BY PathFacts
  <2>3. \A x \in Addressed : file'[x] = file[x]
        BY <2>1, <2>2, AddressedFacts DEF TypeInv, TypeOK
  <2>4. UNCHANGED <<pc, fd, written>>  BY <1>10 DEF upload_create, Reply
  <2> QED BY <2>3, <2>4, DueFrame, OwnedFrame
<1>11. ASSUME NEW p \in Proc,
              \/ \E b \in Payload, d \in BlobDigest : blob_write(p, d, b)
              \/ \E id \in Uuid, c \in Chunk : upload_append(p, id, c)
              \/ \E id \in Uuid, d \in BlobDigest : upload_finalize(p, id, d)
              \/ \E m \in Manifest, t \in Tag \cup {None} : manifest_put(p, m, t)
              \/ \E t \in Tag : manifest_get(p, t)
              \/ ReadManifest(p)
       PROVE  MissingOwned'
  <2>1. pc[p] \in {"idle", "lookup"} /\ file' = file
        BY <1>11
        DEF blob_write, upload_append, upload_finalize, manifest_put, manifest_get, ReadManifest,
            Begin, Reply
  <2>2. written' = written /\ \A q \in Proc \ {p} : pc'[q] = pc[q] /\ fd'[q] = fd[q]
        BY <1>11
        DEF blob_write, upload_append, upload_finalize, manifest_put, manifest_get, ReadManifest,
            Begin, Reply, Finish, TypeInv, TypeOK
  <2> QED BY <2>1, <2>2, OwnedIdle
<1>12. ASSUME NEW p \in Proc,
              \/ \E d \in BlobDigest : blob_delete(p, d)
              \/ \E id \in Uuid : upload_cancel(p, id)
              \/ \E path \in DigestPath \cup TagPath : manifest_delete(p, path)
       PROVE  MissingOwned'
  <2>1. PICK path \in Path : RemoveFile(p, path)
        BY <1>12, PathFacts DEF blob_delete, upload_cancel, manifest_delete
  <2> QED BY <2>1, OwnedRemove
<1>13. CASE Crash \/ PowerFailure  BY <1>13 DEF Crash, PowerFailure
<1>14. CASE UNCHANGED vars  BY <1>14, DueFrame, OwnedFrame DEF vars
<1> QED BY <1>1, <1>2, <1>3, <1>4, <1>5, <1>6, <1>7, <1>8, <1>9, <1>10, <1>11, <1>12, <1>13, <1>14
    DEF Next

(* Without failures, the writers of a content file repair what they tear:  *)
(* once no request works on it, it holds the bytes its digest names, even  *)
(* when writers share its temporary file or truncate it under each other.  *)
THEOREM SettledFiles ==
    ASSUME "session" \in Exclusive, Failures = {}
    PROVE  Spec => []SettledIntact
<1>1. SharedInv /\ MissingOwned => SettledIntact
  <2> SUFFICES ASSUME SharedInv, MissingOwned, NEW x \in ContentPath, Exists(x),
                      \A p \in Proc : x \notin {job[p].path, job[p].dest}
               PROVE  hash_content(file[x]) = x.name
        BY DEF SettledIntact
  <2>1. x \in Addressed /\ x # None  BY AddressedFacts
  <2>2. \A i \in Nat : ~Lacks(file[x], x, i)
    <3> SUFFICES ASSUME NEW i \in Nat, Lacks(file[x], x, i) PROVE FALSE  OBVIOUS
    <3>1. PICK p \in Proc : fd[p] = x /\ Due(p, i)  BY <2>1 DEF MissingOwned
    <3>2. \A y \in ContentPath : TmpOf(y) # x  BY AddressedFacts
    <3> QED BY <2>1, <3>1, <3>2, Handles DEF SharedInv
  <2>3. file[x] \in Bytes /\ Torn(file[x], Whole(x))
        BY <2>1, AddressedFacts DEF SharedInv, AddressedOK, Exists, TypeInv, TypeOK
  <2> QED BY <2>1, <2>2, <2>3, NothingMissing
<1> QED BY <1>1, SharedInit, SharedStep, OwnedStep, PTL DEF Spec

=============================================================================
