------------------------------ MODULE FsStorage ------------------------------
(***************************************************************************)
(* One filesystem root of the registry (crates/rspace-registry-fs), at the *)
(* granularity of the system calls its async functions await between.      *)
(*                                                                         *)
(* A request handler (a member of Proc) may be suspended at every await,   *)
(* so requests interleave between the calls; nothing in FsStorage locks.   *)
(* The directory tree is a map from paths to bytes. An open file is known  *)
(* by the path it has now: a handle follows its file across a rename, and  *)
(* File::create on an existing path truncates a file that other handlers   *)
(* may have open.                                                          *)
(*                                                                         *)
(* The state is that of one repository: the paths of two repositories are  *)
(* disjoint, and blobs and uploads ignore the repository.                  *)
(***************************************************************************)
EXTENDS Naturals, Sequences, FiniteSets

CONSTANTS
    Proc,        \* request handlers that may be in flight together
    Chunk,       \* pieces of blob content
    Payload,     \* blob contents clients push: sequences of chunks
    Manifest,    \* manifest documents
    Tag,         \* tag names
    Stem,        \* Stem[t]: what Path::with_extension keeps of the name t
    Uuid,        \* upload session ids
    MaxChunks,   \* bound: a longer upload is not appended to
    Hole,        \* a piece that was never written: a reader finds zeros
    None,        \* no file, no path
    Unlinked,    \* an open file that no path names any more
    Exclusive,   \* which of {"tmp", "session"} two requests never share
    CrossFs,     \* uploads/ and blobs/ are on different filesystems
    Failures     \* which of {"crash", "power"} may happen

VARIABLES
    file,        \* directory tree: path -> bytes, None if there is no file
    synced,      \* paths whose bytes have reached the disk
    pc,          \* where each request handler is suspended
    job,         \* its arguments: [path, bytes, dest]
    fd,          \* the path its open file has now, None if it has none
    written,     \* pieces of its bytes that write_all has written so far
    resp,        \* the answer the last step gave, "none" if it gave none
    used,        \* upload ids handed out
    puts,        \* history: the <<tag, digest>> pairs manifest_put was given
    dropped      \* history: manifest digests deleted by a request

vars == <<file, synced, pc, job, fd, written, resp, used, puts, dropped>>

-----------------------------------------------------------------------------
(* Content and names.                                                      *)

(* sha256/sha512 of a byte string: a collision-free name for the bytes.    *)
hash_content(bytes) == [sha |-> bytes]

(* The file of a manifest holds its document, a tag file the digest text.  *)
ManifestBytes(m) == <<m>>
TagBytes(d) == <<d>>

BlobDigest == {hash_content(b) : b \in Payload}
ManifestDigest == {hash_content(ManifestBytes(m)) : m \in Manifest}

(* A string of bytes is a sequence of pieces, what one write(2) moves: up  *)
(* to 2 MB of a blob. A document or a digest is one piece.                 *)
Bytes == Seq(Chunk \cup Manifest \cup ManifestDigest \cup {Hole})

blob_path(d) == [in |-> "blobs", name |-> d, tmp |-> FALSE]
manifest_digest_path(d) == [in |-> "digests", name |-> d, tmp |-> FALSE]
manifest_tag_path(t) == [in |-> "tags", name |-> t, tmp |-> FALSE]
upload_path(id) == [in |-> "uploads", name |-> id, tmp |-> FALSE]

BlobPath == {blob_path(d) : d \in BlobDigest}
DigestPath == {manifest_digest_path(d) : d \in ManifestDigest}
ContentPath == BlobPath \cup DigestPath
TagPath == {manifest_tag_path(t) : t \in Tag}
UploadPath == {upload_path(id) : id \in Uuid}

(* path.with_extension("tmp"): a digest has no dot, so its temporary file  *)
(* is its own; a tag loses what follows its last dot.                      *)
TmpOf(p) ==
    [in |-> p.in, name |-> IF p.in = "tags" THEN Stem[p.name] ELSE p.name, tmp |-> TRUE]

TmpPath == {TmpOf(p) : p \in ContentPath \cup TagPath}
Path == ContentPath \cup TagPath \cup UploadPath \cup TmpPath

PC == {"idle", "create", "write", "sync", "rename",       \* atomic_write
       "append",                                          \* upload_append
       "move", "trunc", "fill", "unlink",                 \* upload_finalize
       "lookup"}                                          \* manifest_get

Result == {"none", "ok", "NotFound", "DigestMismatch", "Io", "Internal"}

Job == [path : Path \cup {None}, bytes : Bytes, dest : Path \cup {None}]
NoJob == [path |-> None, bytes |-> <<>>, dest |-> None]

ASSUME ConstantsOK ==
    /\ Payload \subseteq Seq(Chunk)
    /\ <<>> \notin Payload
    /\ MaxChunks \in Nat
    /\ Exclusive \subseteq {"tmp", "session"}
    /\ CrossFs \in BOOLEAN
    /\ Failures \subseteq {"crash", "power"}
    /\ None \notin Bytes \cup Path \cup Tag \cup ManifestDigest
    /\ Unlinked \notin Path \cup {None}

(* Only atomic_write is suspended with a part of its bytes written.        *)
ProgressOK ==
    /\ written \in [Proc -> Nat]
    /\ \A p \in Proc : pc[p] # "write" => written[p] = 0

(* Every variable has its type, and a handler has a file open exactly      *)
(* while it is suspended between opening the file and its last use of it.  *)
TypeOK ==
    /\ file \in [Path -> Bytes \cup {None}]
    /\ synced \subseteq Path
    /\ pc \in [Proc -> PC]
    /\ job \in [Proc -> Job]
    /\ fd \in [Proc -> Path \cup {None, Unlinked}]
    /\ \A p \in Proc : fd[p] # None <=> pc[p] \in {"write", "sync", "append", "fill"}
    /\ ProgressOK
    /\ resp \in Result
    /\ used \subseteq Uuid
    /\ puts \subseteq Tag \X ManifestDigest
    /\ dropped \subseteq ManifestDigest

Init ==
    /\ file = [p \in Path |-> None]
    /\ synced = {}
    /\ pc = [p \in Proc |-> "idle"]
    /\ job = [p \in Proc |-> NoJob]
    /\ fd = [p \in Proc |-> None]
    /\ written = [p \in Proc |-> 0]
    /\ resp = "none"
    /\ used = {}
    /\ puts = {}
    /\ dropped = {}

-----------------------------------------------------------------------------
(* Files.                                                                  *)

Exists(path) == file[path] # None

(* File::create: truncate the file at the path, or make a new empty one.   *)
Create(p, path) ==
    /\ file' = [file EXCEPT ![path] = <<>>]
    /\ synced' = synced \ {path}
    /\ fd' = [fd EXCEPT ![p] = path]

Close(p) == fd' = [fd EXCEPT ![p] = None]

(* A write from the start of the file: what is longer than it stays.       *)
Overwrite(old, new) == new \o SubSeq(old, Len(new) + 1, Len(old))

(* A piece written at its place, which may lie beyond the end of a file    *)
(* that was truncated meanwhile: what is skipped is a hole.                *)
WriteAt(old, i, piece) ==
    [k \in 1..(IF i > Len(old) THEN i ELSE Len(old)) |->
        IF k = i THEN piece ELSE IF k \in DOMAIN old THEN old[k] ELSE Hole]

(* A write through an open file; it is lost with a file that was unlinked. *)
Write(path, bytes) ==
    /\ file' = IF path \in Path THEN [file EXCEPT ![path] = bytes] ELSE file
    /\ synced' = synced \ {path}

(* rename(2): handles on the file it replaces keep an unlinked file.       *)
Rename(from, to) ==
    /\ file' = [file EXCEPT ![to] = file[from], ![from] = None]
    /\ synced' = (synced \ {from, to}) \cup (IF from \in synced THEN {to} ELSE {})
    /\ fd' = [q \in Proc |-> IF fd[q] = from THEN to
                             ELSE IF fd[q] = to THEN Unlinked ELSE fd[q]]

Unlink(path) ==
    /\ file' = [file EXCEPT ![path] = None]
    /\ synced' = synced \ {path}
    /\ fd' = [q \in Proc |-> IF fd[q] = path THEN Unlinked ELSE fd[q]]

(* The bytes an open file holds.                                           *)
Contents(path) == IF path \in Path THEN file[path] ELSE <<>>

-----------------------------------------------------------------------------
(* Requests.                                                               *)

(* What a request does not share with one in flight, when the clients keep *)
(* such requests apart (Exclusive): temporary files, upload sessions.      *)
TmpFiles(j) == IF j.path \in UploadPath THEN {}
               ELSE {TmpOf(path) : path \in {j.path, j.dest} \cap (ContentPath \cup TagPath)}

Session(j) == {j.path} \cap UploadPath

Apart(j) ==
    \A q \in Proc : pc[q] # "idle" =>
        /\ "tmp" \in Exclusive => TmpFiles(j) \cap TmpFiles(job[q]) = {}
        /\ "session" \in Exclusive => Session(j) \cap Session(job[q]) = {}

Begin(p, at, j) ==
    /\ pc[p] = "idle"
    /\ Apart(j)
    /\ pc' = [pc EXCEPT ![p] = at]
    /\ job' = [job EXCEPT ![p] = j]
    /\ resp' = "none"
    /\ UNCHANGED written

(* A request that is answered in the step it is received in.               *)
Reply(p, r) ==
    /\ pc[p] = "idle"
    /\ resp' = r
    /\ UNCHANGED <<pc, job, written>>

(* The last step of a request.                                             *)
Finish(p, r) ==
    /\ pc' = [pc EXCEPT ![p] = "idle"]
    /\ job' = [job EXCEPT ![p] = NoJob]
    /\ resp' = r
    /\ UNCHANGED written

Goto(p, to) ==
    /\ pc' = [pc EXCEPT ![p] = to]
    /\ resp' = "none"
    /\ UNCHANGED <<job, written>>

-----------------------------------------------------------------------------
(* atomic_write(job.path, job.bytes): temporary file, write, sync, rename. *)

(* Seeded fault: the file is written in place.                             *)
AtomicCreate_InPlace(p) ==
    /\ pc[p] = "create"
    /\ Create(p, job[p].path)
    /\ Goto(p, "write")
    /\ UNCHANGED <<used, puts, dropped>>

(* Seeded fault: the handle is dropped at once.                            *)
AtomicCreate_NoHandle(p) ==
    /\ pc[p] = "create"
    /\ file' = [file EXCEPT ![TmpOf(job[p].path)] = <<>>]
    /\ synced' = synced \ {TmpOf(job[p].path)}
    /\ Goto(p, "write")
    /\ UNCHANGED <<fd, used, puts, dropped>>

AtomicCreate(p) ==
    /\ pc[p] = "create"
    /\ Create(p, TmpOf(job[p].path))
    /\ Goto(p, "write")
    /\ UNCHANGED <<used, puts, dropped>>

(* One piece has been written, at its place or elsewhere. write_all comes  *)
(* back for the next one, and flush after the last.                        *)
Advance(p) ==
    LET done == written[p] + 1 IN
    /\ IF done = Len(job[p].bytes)
       THEN pc' = [pc EXCEPT ![p] = "sync"] /\ written' = [written EXCEPT ![p] = 0]
       ELSE written' = [written EXCEPT ![p] = done] /\ UNCHANGED pc
    /\ resp' = "none"
    /\ UNCHANGED <<job, fd>>

(* Seeded fault: a file that is already there is not written again.        *)
AtomicWrite_SkipExisting(p) ==
    /\ pc[p] = "write"
    /\ IF Exists(job[p].path) /\ written[p] = 0
       THEN Finish(p, "ok") /\ Close(p) /\ UNCHANGED <<file, synced>>
       ELSE /\ Write(fd[p], WriteAt(Contents(fd[p]), written[p] + 1, job[p].bytes[written[p] + 1]))
            /\ Advance(p)
    /\ UNCHANGED <<used, puts, dropped>>

(* Seeded fault: the temporary file is opened in append mode.              *)
AtomicWrite_Append(p) ==
    /\ pc[p] = "write"
    /\ Write(fd[p], Append(Contents(fd[p]), job[p].bytes[written[p] + 1]))
    /\ Advance(p)
    /\ UNCHANGED <<used, puts, dropped>>

(* One write of write_all. The file it goes to may have been renamed, or   *)
(* truncated, by another writer since the last one.                        *)
AtomicWrite(p) ==
    /\ pc[p] = "write"
    /\ Write(fd[p], WriteAt(Contents(fd[p]), written[p] + 1, job[p].bytes[written[p] + 1]))
    /\ Advance(p)
    /\ UNCHANGED <<used, puts, dropped>>

(* Seeded fault: sync_all is left out.                                     *)
AtomicSync_Skipped(p) ==
    /\ pc[p] = "sync"
    /\ Close(p)
    /\ Goto(p, "rename")
    /\ UNCHANGED <<file, synced, used, puts, dropped>>

(* sync_all, then drop(f).                                                 *)
AtomicSync(p) ==
    /\ pc[p] = "sync"
    /\ synced' = synced \cup ({fd[p]} \cap Path)
    /\ Close(p)
    /\ Goto(p, "rename")
    /\ UNCHANGED <<file, used, puts, dropped>>

(* The rename fails when another writer has already moved the temporary    *)
(* file. After a manifest's file, manifest_put goes on to its tag.         *)
AtomicRename(p) ==
    LET path == job[p].path  tag == job[p].dest IN
    /\ pc[p] = "rename"
    /\ IF ~Exists(TmpOf(path))
       THEN Finish(p, "Io") /\ UNCHANGED <<file, synced, fd>>
       ELSE /\ Rename(TmpOf(path), path)
            /\ IF tag \in TagPath
               THEN /\ pc' = [pc EXCEPT ![p] = "create"]
                    /\ job' = [job EXCEPT ![p] = [path |-> tag, bytes |-> TagBytes(path.name),
                                                  dest |-> None]]
                    /\ resp' = "none"
                    /\ UNCHANGED written
               ELSE Finish(p, "ok")
    /\ UNCHANGED <<used, puts, dropped>>

-----------------------------------------------------------------------------
(* Blobs.                                                                  *)

blob_write(p, expected, content) ==
    /\ IF hash_content(content) # expected
       THEN Reply(p, "DigestMismatch")
       ELSE Begin(p, "create", [path |-> blob_path(expected), bytes |-> content, dest |-> None])
    /\ UNCHANGED <<file, synced, fd, used, puts, dropped>>

(* remove_file, a missing file answered with NotFound.                     *)
RemoveFile(p, path) ==
    IF Exists(path) THEN Unlink(path) /\ Reply(p, "ok")
                    ELSE Reply(p, "NotFound") /\ UNCHANGED <<file, synced, fd>>

blob_delete(p, d) ==
    /\ RemoveFile(p, blob_path(d))
    /\ UNCHANGED <<used, puts, dropped>>

-----------------------------------------------------------------------------
(* Upload sessions.                                                        *)

upload_create(p) ==
    /\ \E id \in Uuid \ used :
        /\ file' = [file EXCEPT ![upload_path(id)] = <<>>]
        /\ used' = used \cup {id}
    /\ Reply(p, "ok")
    /\ UNCHANGED <<synced, fd, puts, dropped>>

(* Open the upload for appending; the write comes later, to that file.     *)
upload_append(p, id, chunk) ==
    LET path == upload_path(id) IN
    /\ IF ~Exists(path)
       THEN Reply(p, "NotFound") /\ UNCHANGED fd
       ELSE /\ Len(file[path]) < MaxChunks
            /\ Begin(p, "append", [path |-> path, bytes |-> <<chunk>>, dest |-> None])
            /\ fd' = [fd EXCEPT ![p] = path]
    /\ UNCHANGED <<file, synced, used, puts, dropped>>

AppendChunk(p) ==
    /\ pc[p] = "append"
    /\ Write(fd[p], Contents(fd[p]) \o job[p].bytes)
    /\ Close(p)
    /\ Finish(p, "ok")
    /\ UNCHANGED <<used, puts, dropped>>

(* Seeded fault: the digest is not verified.                               *)
upload_finalize_Unverified(p, id, expected) ==
    LET path == upload_path(id) IN
    /\ IF ~Exists(path)
       THEN Reply(p, "NotFound")
       ELSE Begin(p, "move", [path |-> path, bytes |-> file[path], dest |-> blob_path(expected)])
    /\ UNCHANGED <<file, synced, fd, used, puts, dropped>>

(* Read the upload and verify it; the move comes later.                    *)
upload_finalize(p, id, expected) ==
    LET path == upload_path(id) IN
    /\ IF ~Exists(path)
       THEN Reply(p, "NotFound")
       ELSE IF hash_content(file[path]) # expected
       THEN Reply(p, "DigestMismatch")
       ELSE Begin(p, "move", [path |-> path, bytes |-> file[path], dest |-> blob_path(expected)])
    /\ UNCHANGED <<file, synced, fd, used, puts, dropped>>

(* Rename the upload to the blob; if that fails, fs::write a copy.         *)
FinalizeMove(p) ==
    /\ pc[p] = "move"
    /\ IF Exists(job[p].path) /\ ~CrossFs
       THEN Rename(job[p].path, job[p].dest) /\ Finish(p, "ok")
       ELSE Goto(p, "trunc") /\ UNCHANGED <<file, synced, fd>>
    /\ UNCHANGED <<used, puts, dropped>>

FinalizeTruncate(p) ==
    /\ pc[p] = "trunc"
    /\ Create(p, job[p].dest)
    /\ Goto(p, "fill")
    /\ UNCHANGED <<used, puts, dropped>>

FinalizeFill(p) ==
    /\ pc[p] = "fill"
    /\ Write(fd[p], Overwrite(Contents(fd[p]), job[p].bytes))
    /\ Close(p)
    /\ Goto(p, "unlink")
    /\ UNCHANGED <<used, puts, dropped>>

(* let _ = remove_file: a missing upload is no error.                      *)
FinalizeUnlink(p) ==
    /\ pc[p] = "unlink"
    /\ Unlink(job[p].path)
    /\ Finish(p, "ok")
    /\ UNCHANGED <<used, puts, dropped>>

upload_cancel(p, id) ==
    /\ Apart([path |-> upload_path(id), bytes |-> <<>>, dest |-> None])
    /\ RemoveFile(p, upload_path(id))
    /\ UNCHANGED <<used, puts, dropped>>

-----------------------------------------------------------------------------
(* Manifests. A reference is a tag or a digest; None stands for a put by   *)
(* digest, which writes no tag.                                            *)

(* Seeded fault: the tag is written before the manifest.                   *)
manifest_put_TagFirst(p, m, tag) ==
    LET d == hash_content(ManifestBytes(m)) IN
    /\ Begin(p, "create",
             IF tag \in Tag
             THEN [path |-> manifest_tag_path(tag), bytes |-> TagBytes(d),
                   dest |-> manifest_digest_path(d)]
             ELSE [path |-> manifest_digest_path(d), bytes |-> ManifestBytes(m), dest |-> None])
    /\ puts' = puts \cup ({tag} \cap Tag) \X {d}
    /\ UNCHANGED <<file, synced, fd, used, dropped>>

manifest_put(p, m, tag) ==
    LET d == hash_content(ManifestBytes(m)) IN
    /\ Begin(p, "create", [path |-> manifest_digest_path(d), bytes |-> ManifestBytes(m),
                           dest |-> IF tag \in Tag THEN manifest_tag_path(tag) ELSE None])
    /\ puts' = puts \cup ({tag} \cap Tag) \X {d}
    /\ UNCHANGED <<file, synced, fd, used, dropped>>

(* manifest_get of a tag: read the tag file, then the file it names. A tag *)
(* file that does not hold a digest is StorageError::Internal.             *)
manifest_get(p, tag) ==
    LET path == manifest_tag_path(tag) IN
    /\ IF ~Exists(path)
       THEN Reply(p, "NotFound")
       ELSE IF file[path] = <<>>
       THEN Reply(p, "Internal")
       ELSE Begin(p, "lookup", [path |-> None, bytes |-> file[path], dest |-> None])
    /\ UNCHANGED <<file, synced, fd, used, puts, dropped>>

ReadManifest(p) ==
    /\ pc[p] = "lookup"
    /\ Finish(p, IF Exists(manifest_digest_path(job[p].bytes[1])) THEN "ok" ELSE "NotFound")
    /\ UNCHANGED <<file, synced, fd, used, puts, dropped>>

manifest_delete(p, path) ==
    /\ RemoveFile(p, path)
    /\ dropped' = IF path \in DigestPath /\ Exists(path) THEN dropped \cup {path.name} ELSE dropped
    /\ UNCHANGED <<used, puts>>

-----------------------------------------------------------------------------
(* Failures.                                                               *)

(* All requests in flight are lost; the files stay as they are. A power    *)
(* failure also takes the bytes of files that were never synced. Directory *)
(* operations are taken to be durable in the order they were made.         *)
Stop ==
    /\ pc' = [p \in Proc |-> "idle"]
    /\ job' = [p \in Proc |-> NoJob]
    /\ fd' = [p \in Proc |-> None]
    /\ written' = [p \in Proc |-> 0]
    /\ resp' = "none"
    /\ UNCHANGED <<used, puts, dropped>>

Crash ==
    /\ "crash" \in Failures
    /\ Stop
    /\ UNCHANGED <<file, synced>>

PowerFailure ==
    /\ "power" \in Failures
    /\ \E lost \in SUBSET {path \in Path \ synced : Exists(path)} :
        file' = [path \in Path |-> IF path \in lost THEN <<>> ELSE file[path]]
    /\ synced' = {path \in Path : Exists(path)}
    /\ Stop

-----------------------------------------------------------------------------
Next ==
    \/ \E p \in Proc :
        \/ AtomicCreate(p) \/ AtomicWrite(p) \/ AtomicSync(p) \/ AtomicRename(p)
        \/ \E b \in Payload, d \in BlobDigest : blob_write(p, d, b)
        \/ \E d \in BlobDigest : blob_delete(p, d)
        \/ upload_create(p)
        \/ \E id \in Uuid :
            \/ \E c \in Chunk : upload_append(p, id, c)
            \/ \E d \in BlobDigest : upload_finalize(p, id, d)
            \/ upload_cancel(p, id)
        \/ AppendChunk(p)
        \/ FinalizeMove(p) \/ FinalizeTruncate(p) \/ FinalizeFill(p) \/ FinalizeUnlink(p)
        \/ \E m \in Manifest, t \in Tag \cup {None} : manifest_put(p, m, t)
        \/ \E t \in Tag : manifest_get(p, t)
        \/ ReadManifest(p)
        \/ \E path \in DigestPath \cup TagPath : manifest_delete(p, path)
    \/ Crash
    \/ PowerFailure

Spec == Init /\ [][Next]_vars

-----------------------------------------------------------------------------
(* The objects that readers of the directory tree see, and the requests    *)
(* that handlers have accepted.                                            *)

StoredBlobs == {d \in BlobDigest : file[blob_path(d)] # None /\ hash_content(file[blob_path(d)]) = d}
StoredManifests ==
    {d \in ManifestDigest : /\ file[manifest_digest_path(d)] # None
                            /\ hash_content(file[manifest_digest_path(d)]) = d}
StoredTags ==
    [t \in Tag |-> IF \E d \in ManifestDigest : file[manifest_tag_path(t)] = TagBytes(d)
                   THEN file[manifest_tag_path(t)][1] ELSE None]

Request(p) ==
    LET j == job[p] IN
    CASE pc[p] \in {"create", "write", "sync", "rename"} ->
            [op |-> IF j.path \in BlobPath THEN "blob"
                    ELSE IF j.path \in DigestPath THEN "manifest" ELSE "tag",
             digest |-> IF j.path \in TagPath THEN j.bytes[1] ELSE j.path.name,
             tag |-> IF j.path \in TagPath THEN j.path.name
                     ELSE IF j.dest \in TagPath THEN j.dest.name ELSE None]
      [] pc[p] \in {"move", "trunc", "fill", "unlink"} ->
            [op |-> "blob", digest |-> j.dest.name, tag |-> None]
      [] pc[p] = "lookup" -> [op |-> "read", digest |-> j.bytes[1], tag |-> None]
      [] OTHER -> None

Store == INSTANCE ObjectStore WITH
    blobs <- StoredBlobs, manifests <- StoredManifests, tags <- StoredTags,
    pending <- [p \in Proc |-> Request(p)], answer <- resp

-----------------------------------------------------------------------------
(* Properties.                                                             *)

(* FsStorage is an implementation of the Storage trait: chains of system   *)
(* calls, interleaved with other requests and cut by crashes, look like    *)
(* writes of whole objects. A blob, a manifest or a tag changes only by a  *)
(* request for it, at one moment, and no step of a request fails.          *)
Implements == Store!Spec

(* A reader of a blob or of a manifest by digest gets the bytes the digest *)
(* names: whatever happened before, every file under blobs/ and digests/   *)
(* hashes to its own name (blob_write, upload_finalize, manifest_put).     *)
ContentAddressed ==
    \A path \in ContentPath : Exists(path) => hash_content(file[path]) = path.name

(* The same of manifests alone, which atomic_write syncs before the rename *)
(* that publishes them.                                                    *)
ManifestIntact ==
    \A path \in DigestPath : Exists(path) => hash_content(file[path]) = path.name

(* A tag resolves to a digest that somebody pushed under this very tag:    *)
(* the tag file is never empty, torn, or the file of another tag.          *)
TagFromPut ==
    \A t \in Tag : Exists(manifest_tag_path(t)) =>
        \E d \in ManifestDigest :
            /\ <<t, d>> \in puts
            /\ file[manifest_tag_path(t)] = TagBytes(d)

(* manifest_put's order: a tag is never visible before its manifest. The   *)
(* manifest a tag names is stored, unless a request deleted it.            *)
TagTargetExists ==
    \A t \in Tag : Exists(manifest_tag_path(t)) =>
        LET d == file[manifest_tag_path(t)][1]
        IN  Exists(manifest_digest_path(d)) \/ d \in dropped

(* No request fails for what another one or a crash left behind: no rename *)
(* misses its temporary file, no stored tag is unreadable.                 *)
RequestsSucceed == resp \notin {"Io", "Internal"}

(* What writers of the same bytes may leave when they truncate each other: *)
(* nothing beyond the end, and every piece its own or a hole.              *)
Torn(bytes, whole) ==
    Len(bytes) <= Len(whole) /\ \A i \in DOMAIN bytes : bytes[i] \in {whole[i], Hole}

(* Writers that share a temporary file may publish it early, and a later   *)
(* one may truncate what was published: a content file may be cut short or *)
(* have holes. But never does it hold bytes of another file, bytes out of  *)
(* their place, or more than its own.                                      *)
NoForeignBytes ==
    \A path \in ContentPath : Exists(path) => Torn(file[path], path.name.sha)

(* Without failures, the writers of a file repair what they tore: once no  *)
(* request on a content path is in flight, its file is complete.           *)
SettledIntact ==
    \A path \in ContentPath :
        Exists(path) /\ (\A p \in Proc : path \notin {job[p].path, job[p].dest}) =>
            hash_content(file[path]) = path.name

=============================================================================
