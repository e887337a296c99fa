------------------------------ MODULE Migrate ------------------------------
(***************************************************************************)
(* Moving a class of repositories to another volume (migrate::run) while   *)
(* clients push, read and delete: overlay, backfill, collapse, drain.      *)
(*                                                                         *)
(* A backend is the sequence of volumes behind it: <<v>> is FsStorage, a   *)
(* longer one a MultiStore, primary first (nested ones read, write and     *)
(* delete as the concatenation does). A request resolves its backend once  *)
(* (RepoRouter::resolve) and then works on it volume by volume, whatever   *)
(* the rule says by then.                                                  *)
(***************************************************************************)
EXTENDS Naturals, Sequences, FiniteSets

CONSTANTS
    Repo,        \* repository names
    Class,       \* those the migrated rule matches; the rest stay on Origin
    Hidden,      \* those list_repos misses: a path component tags or digests
    Tag,         \* tag names
    Manifest,    \* manifest documents
    Blob,        \* blob digests
    Refs,        \* Refs[m]: the blobs m references
    Volume,      \* storage roots
    Origin,      \* the volume every rule has at startup
    Target,      \* volumes an operator migrates to
    Drains,      \* the values of drain an operator asks for
    Client,      \* clients, each making one call at a time
    Ops,         \* which of {"push", "read", "delete", "abandon"} clients do
    Paused,      \* no push is under way from the start to the overlay
    MaxRuns,     \* bound: migrations started
    MaxFails,    \* bound: migrations that end with a storage error
    MaxRestarts, \* bound: restarts of the process
    None

VARIABLES
    content,     \* volume -> the blobs and manifests stored there
    tags,        \* volume -> <<repo, tag>> -> manifest its file names, or None
    known,       \* volume -> repositories with a directory
    rule,        \* the backend of the class's route rule
    call,        \* client -> the call it is in, or None
    mpc,         \* where the migration is
    job,         \* [to, drain], the backend moved from, old, and its repos
    left,        \* repositories it still has to copy or to purge
    cur,         \* the repository being copied
    todo,        \* listed and not read or purged yet
    want,        \* blobs and manifests to copy
    ptrs,        \* tag pointers to copy
    buf,         \* read from the source and not written yet, or None
    runs, fails, restarts,
    steady,      \* history: images served at the start, undeleted since
    acked,       \* history: images whose push was acknowledged, undeleted since
    latest,      \* history: tag -> manifest of the last acknowledged push
    quiet,       \* history: no request since the migration started
    missed       \* history: without drain, a read of a steady image found nothing

store == <<content, tags, known>>
copying == <<left, cur, todo, want, ptrs, buf>>
bounds == <<runs, fails, restarts>>
history == <<steady, acked, latest, quiet, missed>>
vars == <<store, rule, call, mpc, job, copying, bounds, history>>

-----------------------------------------------------------------------------
(* Content. FsStorage ignores the repository of a blob.                    *)

BlobItem(b) == [kind |-> "blob", repo |-> None, name |-> b]
ManifestItem(r, m) == [kind |-> "manifest", repo |-> r, name |-> m]
TagItem(r, t) == [kind |-> "tag", repo |-> r, name |-> t]

(* What copy_repo remembers of a tag.                                      *)
Pointer(r, t, m) == [kind |-> "pointer", repo |-> r, name |-> t, target |-> m]

Blobs(m) == {BlobItem(b) : b \in Refs[m]}

Content == {BlobItem(b) : b \in Blob} \cup {ManifestItem(r, m) : r \in Repo, m \in Manifest}
TagItems == {TagItem(r, t) : r \in Repo, t \in Tag}
Pointers == {Pointer(r, t, m) : r \in Repo, t \in Tag, m \in Manifest}

Image == Repo \X Manifest
Items(x) == Blobs(x[2]) \cup {ManifestItem(x[1], x[2])}
NoTags == [k \in Repo \X Tag |-> None]

ASSUME ConstantsOK ==
    /\ Class \subseteq Repo /\ Hidden \subseteq Repo
    /\ \A m \in Manifest : Refs[m] \subseteq Blob
    /\ Origin \in Volume /\ Target \subseteq Volume
    /\ Drains \subseteq BOOLEAN
    /\ Ops \subseteq {"push", "read", "delete", "abandon"}
    /\ Paused \in BOOLEAN
    /\ MaxRuns \in Nat /\ MaxFails \in Nat /\ MaxRestarts \in Nat
    /\ None \notin Repo \cup Manifest \cup Content \cup Pointers

Backend == Seq(Volume)

Call == [op : {"blob", "blobbed", "manifest"}, repo : Repo, item : Content, tag : Tag,
         via : Backend]
        \cup [op : {"read", "delete"}, repo : Repo, item : Content \cup TagItems, via : Backend]

ASSUME CallsApart == None \notin Call

TypeOK ==
    /\ content \in [Volume -> SUBSET Content]
    /\ tags \in [Volume -> [Repo \X Tag -> Manifest \cup {None}]]
    /\ known \in [Volume -> SUBSET Repo]
    /\ rule \in Backend /\ rule # <<>>
    /\ call \in [Client -> Call \cup {None}]
    /\ mpc \in {"idle", "listed", "backfill", "tags", "digests", "copy", "purge", "sweep",
                "done", "failed"}
    /\ job \in [to : Volume, drain : BOOLEAN, old : Backend, repos : SUBSET Class]
    /\ left \subseteq job.repos
    /\ cur \in Class \cup {None}
    /\ todo \subseteq Content \cup TagItems
    /\ want \subseteq Content
    /\ ptrs \subseteq Pointers
    /\ buf \in Content \cup Pointers \cup {None}
    /\ runs \in 0..MaxRuns /\ fails \in 0..MaxFails /\ restarts \in 0..MaxRestarts
    /\ steady \subseteq Image /\ acked \subseteq Image
    /\ latest \in [Repo \X Tag -> Manifest \cup {None}]
    /\ quiet \in BOOLEAN /\ missed \in BOOLEAN

Init ==
    /\ content = [v \in Volume |-> {}]
    /\ tags = [v \in Volume |-> NoTags]
    /\ known = [v \in Volume |-> {}]
    /\ rule = <<Origin>>
    /\ call = [c \in Client |-> None]
    /\ mpc = "idle"
    /\ job = [to |-> Origin, drain |-> FALSE, old |-> <<Origin>>, repos |-> {}]
    /\ left = {} /\ cur = None /\ todo = {} /\ want = {} /\ ptrs = {} /\ buf = None
    /\ runs = 0 /\ fails = 0 /\ restarts = 0
    /\ steady = {} /\ acked = {} /\ latest = NoTags /\ quiet = TRUE /\ missed = FALSE

-----------------------------------------------------------------------------
(* Backends.                                                               *)

Volumes(be) == {be[i] : i \in DOMAIN be}

(* RepoRouter::resolve, for the two rules of the model.                    *)
resolve(r) == IF r \in Class THEN rule ELSE <<Origin>>

Has(be, item) == \E v \in Volumes(be) : item \in content[v]

(* manifest_get of a tag on one volume: a tag whose manifest is gone is    *)
(* NotFound, so a MultiStore goes on to the next volume.                   *)
TagOn(v, r, t) ==
    IF ManifestItem(r, tags[v][<<r, t>>]) \in content[v] THEN tags[v][<<r, t>>] ELSE None

TagVia(be, r, t) ==
    LET hits == {i \in DOMAIN be : TagOn(be[i], r, t) # None}
    IN  IF hits = {} THEN None
        ELSE TagOn(be[CHOOSE i \in hits : \A k \in hits : i <= k], r, t)

Served(x) == \A item \in Items(x) : Has(resolve(x[1]), item)

list_tags(be, r) ==
    {TagItem(r, t) : t \in {u \in Tag : \E v \in Volumes(be) : tags[v][<<r, u>>] # None}}

list_manifest_digests(be, r) ==
    {item \in UNION {content[v] : v \in Volumes(be)} : item.kind = "manifest" /\ item.repo = r}

(* manifest_put on a volume, by tag or (None) by digest.                   *)
PutManifest(v, r, t, m) ==
    /\ content' = [content EXCEPT ![v] = @ \cup {ManifestItem(r, m)}]
    /\ known' = [known EXCEPT ![v] = @ \cup {r}]
    /\ tags' = IF t \in Tag THEN [tags EXCEPT ![v][<<r, t>>] = m] ELSE tags

(* Remove a blob, a manifest or a tag from a set of volumes.               *)
Remove(vs, item) ==
    /\ content' = [v \in Volume |-> IF v \in vs THEN content[v] \ {item} ELSE content[v]]
    /\ tags' = IF item.kind = "tag"
               THEN [v \in Volume |-> IF v \in vs
                        THEN [tags[v] EXCEPT ![<<item.repo, item.name>>] = None] ELSE tags[v]]
               ELSE tags
    /\ UNCHANGED known

-----------------------------------------------------------------------------
(* Clients.                                                                *)

Pushing == {"blob", "blobbed", "manifest"}

(* With Paused, no push comes between the start and the overlay.           *)
MayPush == Paused => mpc # "listed"
NoPush == Paused => \A c \in Client : call[c] # None => call[c].op \notin Pushing

StartPush(c, r, t, m) ==
    /\ "push" \in Ops /\ MayPush
    /\ call[c] = None
    /\ call' = [call EXCEPT ![c] = [op |-> "blob", repo |-> r, item |-> ManifestItem(r, m),
                                    tag |-> t, via |-> resolve(r)]]
    /\ quiet' = FALSE
    /\ UNCHANGED <<store, rule, mpc, job, copying, bounds, steady, acked, latest, missed>>

(* The client pushes the blobs that HEAD does not find.                    *)
PushBlobs(c) ==
    /\ call[c] # None /\ call[c].op = "blob"
    /\ content' = [content EXCEPT ![Head(call[c].via)] = @ \cup
                      {item \in Blobs(call[c].item.name) : ~Has(call[c].via, item)}]
    /\ call' = [call EXCEPT ![c].op = "blobbed"]
    /\ quiet' = FALSE
    /\ UNCHANGED <<tags, known, rule, mpc, job, copying, bounds, steady, acked, latest, missed>>

(* A request of its own: the backend is resolved again.                    *)
StartPut(c) ==
    /\ call[c] # None /\ call[c].op = "blobbed"
    /\ call' = [call EXCEPT ![c].op = "manifest", ![c].via = resolve(call[c].repo)]
    /\ quiet' = FALSE
    /\ UNCHANGED <<store, rule, mpc, job, copying, bounds, steady, acked, latest, missed>>

FinishPut(c) ==
    LET r == call[c].repo  m == call[c].item.name IN
    /\ call[c] # None /\ call[c].op = "manifest"
    /\ PutManifest(Head(call[c].via), r, call[c].tag, m)
    /\ acked' = acked \cup {<<r, m>>}
    /\ latest' = [latest EXCEPT ![<<r, call[c].tag>>] = m]
    /\ call' = [call EXCEPT ![c] = None]
    /\ quiet' = FALSE
    /\ UNCHANGED <<rule, mpc, job, copying, bounds, steady, missed>>

StartRead(c, r, item) ==
    /\ "read" \in Ops
    /\ call[c] = None
    /\ item.kind = "manifest" => item.repo = r
    /\ call' = [call EXCEPT ![c] = [op |-> "read", repo |-> r, item |-> item,
                                    via |-> resolve(r)]]
    /\ quiet' = FALSE
    /\ UNCHANGED <<store, rule, mpc, job, copying, bounds, steady, acked, latest, missed>>

(* read_fallthrough: one volume at a time, the primary first.              *)
ReadVolume(c) ==
    LET item == call[c].item
        hit == item \in content[Head(call[c].via)]
        last == Len(call[c].via) = 1
    IN
    /\ call[c] # None /\ call[c].op = "read"
    /\ call' = [call EXCEPT ![c] = IF hit \/ last THEN None
                                   ELSE [call[c] EXCEPT !.via = Tail(call[c].via)]]
    /\ missed' = (missed \/ (/\ ~hit /\ last /\ ~job.drain
                             /\ \E x \in steady : x[1] = call[c].repo /\ item \in Items(x)))
    /\ quiet' = FALSE
    /\ UNCHANGED <<store, rule, mpc, job, copying, bounds, steady, acked, latest>>

StartDelete(c, r, item) ==
    /\ "delete" \in Ops
    /\ call[c] = None
    /\ item.kind # "blob" => item.repo = r
    /\ call' = [call EXCEPT ![c] = [op |-> "delete", repo |-> r, item |-> item,
                                    via |-> resolve(r)]]
    /\ steady' = {x \in steady : item \notin Items(x)}
    /\ acked' = {x \in acked : item \notin Items(x)}
    /\ latest' = [k \in DOMAIN latest |->
                    IF item \in {TagItem(k[1], k[2]), ManifestItem(k[1], latest[k])}
                    THEN None ELSE latest[k]]
    /\ quiet' = FALSE
    /\ UNCHANGED <<store, rule, mpc, job, copying, bounds, missed>>

(* Deletes apply to every volume, in the order of the partitions.          *)
DeleteOnVolume(c) ==
    /\ call[c] # None /\ call[c].op = "delete"
    /\ Remove({Head(call[c].via)}, call[c].item)
    /\ call' = [call EXCEPT ![c] = IF Len(call[c].via) = 1 THEN None
                                   ELSE [call[c] EXCEPT !.via = Tail(call[c].via)]]
    /\ quiet' = FALSE
    /\ UNCHANGED <<rule, mpc, job, copying, bounds, steady, acked, latest, missed>>

(* The client hangs up, or its request fails. What was pushed stays.       *)
GiveUp(c) ==
    /\ "abandon" \in Ops
    /\ call[c] # None
    /\ call' = [call EXCEPT ![c] = None]
    /\ quiet' = FALSE
    /\ UNCHANGED <<store, rule, mpc, job, copying, bounds, steady, acked, latest, missed>>

-----------------------------------------------------------------------------
(* migrate::run. One migration of the class at a time.                     *)

(* A delete of part of the image is under way.                             *)
Doomed(x) == \E c \in Client : /\ call[c] # None /\ call[c].op = "delete"
                               /\ call[c].item \in Items(x)

(* What walk_repos lists on the volumes of a backend. A hidden repository  *)
(* is not listed; a directory above it is, and has nothing to copy.        *)
list_repos(be) == UNION {known[v] : v \in Volumes(be)} \ Hidden

(* repo_migrate opens the destination anew, so the test for a rule that    *)
(* already has this backend (Arc::ptr_eq) is never true.                   *)
Start(to, drain) ==
    LET repos == list_repos(rule) \cap Class IN
    /\ mpc \in {"idle", "done", "failed"}
    /\ runs < MaxRuns
    /\ NoPush
    /\ runs' = runs + 1
    /\ job' = [to |-> to, drain |-> drain, old |-> rule, repos |-> repos]
    /\ left' = repos
    /\ mpc' = "listed"
    /\ steady' = {x \in Image : Served(x) /\ ~Doomed(x)}
    /\ quiet' = \A c \in Client : call[c] = None
    /\ UNCHANGED <<store, rule, call, cur, todo, want, ptrs, buf, fails, restarts,
                   acked, latest, missed>>

(* Seeded fault: the new volume is the fallback.                           *)
Overlay_OldFirst ==
    /\ mpc = "listed"
    /\ rule' = Append(job.old, job.to)
    /\ mpc' = "backfill"
    /\ UNCHANGED <<store, call, job, copying, bounds, history>>

(* Seeded fault: the old volume is dropped at once.                        *)
Overlay_NewOnly ==
    /\ mpc = "listed"
    /\ rule' = <<job.to>>
    /\ mpc' = "backfill"
    /\ UNCHANGED <<store, call, job, copying, bounds, history>>

Overlay ==
    /\ mpc = "listed"
    /\ rule' = <<job.to>> \o job.old
    /\ mpc' = "backfill"
    /\ UNCHANGED <<store, call, job, copying, bounds, history>>

(* The migration is over and its local state is gone.                      *)
End(how) ==
    /\ mpc' = how
    /\ left' = {} /\ cur' = None /\ todo' = {} /\ want' = {} /\ ptrs' = {} /\ buf' = None

(* Seeded fault: the repository is not taken off the list.                 *)
CopyRepo_Again(r) ==
    /\ mpc = "backfill"
    /\ r \in left
    /\ cur' = r
    /\ todo' = list_tags(job.old, r)
    /\ want' = {} /\ ptrs' = {}
    /\ mpc' = "tags"
    /\ UNCHANGED <<store, rule, call, job, left, buf, bounds, history>>

(* copy_repo: the tags of the next repository.                             *)
CopyRepo(r) ==
    /\ mpc = "backfill"
    /\ r \in left
    /\ left' = left \ {r}
    /\ cur' = r
    /\ todo' = list_tags(job.old, r)
    /\ want' = {} /\ ptrs' = {}
    /\ mpc' = "tags"
    /\ UNCHANGED <<store, rule, call, job, buf, bounds, history>>

(* A tag that cannot be read, deleted meanwhile or dangling, ends the run. *)
ReadTag(item) ==
    LET m == TagVia(job.old, cur, item.name) IN
    /\ mpc = "tags"
    /\ item \in todo
    /\ IF m = None
       THEN End("failed")
       ELSE /\ todo' = todo \ {item}
            /\ want' = want \cup Items(<<cur, m>>)
            /\ ptrs' = ptrs \cup {Pointer(cur, item.name, m)}
            /\ UNCHANGED <<mpc, left, cur, buf>>
    /\ UNCHANGED <<store, rule, call, job, bounds, history>>

(* Seeded fault: only what a tag reaches is copied.                        *)
ListDigests_TagsOnly ==
    /\ mpc = "tags" /\ todo = {}
    /\ mpc' = "digests"
    /\ UNCHANGED <<store, rule, call, job, copying, bounds, history>>

(* Manifests that no tag reaches.                                          *)
ListDigests ==
    /\ mpc = "tags" /\ todo = {}
    /\ todo' = list_manifest_digests(job.old, cur) \ want
    /\ mpc' = "digests"
    /\ UNCHANGED <<store, rule, call, job, left, cur, want, ptrs, buf, bounds, history>>

ReadDigest(item) ==
    /\ mpc = "digests"
    /\ item \in todo
    /\ todo' = todo \ {item}
    /\ want' = IF Has(job.old, item) THEN want \cup Items(<<cur, item.name>>) ELSE want
    /\ UNCHANGED <<store, rule, call, mpc, job, left, cur, ptrs, buf, bounds, history>>

StartCopy ==
    /\ mpc = "digests" /\ todo = {}
    /\ mpc' = "copy"
    /\ UNCHANGED <<store, rule, call, job, copying, bounds, history>>

(* Blobs before manifests; what the destination has is skipped, and so is  *)
(* what the source has no more.                                            *)
FetchItem(item) ==
    /\ mpc = "copy" /\ buf = None
    /\ item \in want
    /\ item.kind = "manifest" => \A other \in want : other.kind = "manifest"
    /\ want' = want \ {item}
    /\ buf' = IF item \notin content[job.to] /\ Has(job.old, item) THEN item ELSE None
    /\ UNCHANGED <<store, rule, call, mpc, job, left, cur, todo, ptrs, bounds, history>>

StoreItem ==
    /\ mpc = "copy" /\ buf \in Content
    /\ IF buf.kind = "manifest"
       THEN PutManifest(job.to, cur, None, buf.name)
       ELSE content' = [content EXCEPT ![job.to] = @ \cup {buf}] /\ UNCHANGED <<tags, known>>
    /\ buf' = None
    /\ UNCHANGED <<rule, call, mpc, job, left, cur, todo, want, ptrs, bounds, history>>

(* Tag pointers are always written to match the source.                    *)
FetchTag(ptr) ==
    /\ mpc = "copy" /\ buf = None /\ want = {}
    /\ ptr \in ptrs
    /\ ptrs' = ptrs \ {ptr}
    /\ buf' = IF Has(job.old, ManifestItem(cur, ptr.target)) THEN ptr ELSE None
    /\ UNCHANGED <<store, rule, call, mpc, job, left, cur, todo, want, bounds, history>>

StoreTag ==
    /\ mpc = "copy" /\ buf \in Pointers
    /\ PutManifest(job.to, cur, buf.name, buf.target)
    /\ buf' = None
    /\ UNCHANGED <<rule, call, mpc, job, left, cur, todo, want, ptrs, bounds, history>>

EndRepo ==
    /\ mpc = "copy" /\ buf = None /\ want = {} /\ ptrs = {}
    /\ mpc' = "backfill"
    /\ cur' = None
    /\ UNCHANGED <<store, rule, call, job, left, todo, want, ptrs, buf, bounds, history>>

(* Seeded fault: the drain takes every repository the pattern matches.     *)
Collapse_WholeClass ==
    /\ mpc = "backfill" /\ left = {}
    /\ rule' = <<job.to>>
    /\ mpc' = IF job.drain THEN "purge" ELSE "done"
    /\ left' = IF job.drain THEN Class ELSE {}
    /\ UNCHANGED <<store, call, job, cur, todo, want, ptrs, buf, bounds, history>>

(* The old volume leaves the read path.                                    *)
Collapse ==
    /\ mpc = "backfill" /\ left = {}
    /\ rule' = <<job.to>>
    /\ mpc' = IF job.drain THEN "purge" ELSE "done"
    /\ left' = IF job.drain THEN job.repos ELSE {}
    /\ UNCHANGED <<store, call, job, cur, todo, want, ptrs, buf, bounds, history>>

(* Seeded fault: only the tags are purged.                                 *)
PurgeRepo_TagsOnly(r) ==
    /\ mpc = "purge" /\ todo = {}
    /\ r \in left
    /\ left' = left \ {r}
    /\ todo' = list_tags(job.old, r)
    /\ UNCHANGED <<store, rule, call, mpc, job, cur, want, ptrs, buf, bounds, history>>

(* purge_repo_manifests: list, then delete on every volume of the source.  *)
PurgeRepo(r) ==
    /\ mpc = "purge" /\ todo = {}
    /\ r \in left
    /\ left' = left \ {r}
    /\ todo' = list_tags(job.old, r) \cup list_manifest_digests(job.old, r)
    /\ UNCHANGED <<store, rule, call, mpc, job, cur, want, ptrs, buf, bounds, history>>

Purge(item) ==
    /\ mpc = "purge"
    /\ item \in todo
    /\ item.kind = "manifest" => \A other \in todo : other.kind = "manifest"
    /\ todo' = todo \ {item}
    /\ Remove(Volumes(job.old), item)
    /\ UNCHANGED <<rule, call, mpc, job, left, cur, want, ptrs, buf, bounds, history>>

(* gc::run on the source (module Gc), its marking and listing in one step: *)
(* it reads the manifests of the repositories that are listed.             *)
Mark ==
    LET held == UNION {content[v] : v \in Volumes(job.old)}
        read == {item \in held : item.kind = "manifest" /\ item.repo \in list_repos(job.old)}
        reachable == UNION {Blobs(item.name) : item \in read}
    IN
    /\ mpc = "purge" /\ todo = {} /\ left = {}
    /\ todo' = {item \in held : item.kind = "blob"} \ reachable
    /\ mpc' = "sweep"
    /\ UNCHANGED <<store, rule, call, job, left, cur, want, ptrs, buf, bounds, history>>

Sweep(item) ==
    /\ mpc = "sweep"
    /\ item \in todo
    /\ todo' = todo \ {item}
    /\ Remove(Volumes(job.old), item)
    /\ UNCHANGED <<rule, call, mpc, job, left, cur, want, ptrs, buf, bounds, history>>

Done ==
    /\ mpc = "sweep" /\ todo = {}
    /\ mpc' = "done"
    /\ UNCHANGED <<store, rule, call, job, copying, bounds, history>>

(* A storage error ends the run where it is; the rule stays as it is.      *)
Fail ==
    /\ mpc \notin {"idle", "done", "failed"}
    /\ fails < MaxFails
    /\ fails' = fails + 1
    /\ End("failed")
    /\ UNCHANGED <<store, rule, call, job, runs, restarts, history>>

(* What GET /admin/jobs/<id> says of the migration last started: the task  *)
(* that repo_migrate spawns records how run ends, and the table is not     *)
(* durable.                                                                *)
JobState ==
    CASE mpc = "idle" -> "unknown"
      [] mpc = "done" -> "done"
      [] mpc = "failed" -> "failed"
      [] OTHER -> "running"

(* The rules and the job are in memory only.                               *)
Restart ==
    /\ restarts < MaxRestarts
    /\ restarts' = restarts + 1
    /\ rule' = <<Origin>>
    /\ call' = [c \in Client |-> None]
    /\ End("idle")
    /\ UNCHANGED <<store, job, runs, fails, history>>

-----------------------------------------------------------------------------
Requests ==
    \E c \in Client :
        \/ \E r \in Repo, t \in Tag, m \in Manifest : StartPush(c, r, t, m)
        \/ PushBlobs(c)
        \/ StartPut(c)
        \/ FinishPut(c)
        \/ \E r \in Repo, item \in Content : StartRead(c, r, item)
        \/ ReadVolume(c)
        \/ \E r \in Repo, item \in Content \cup TagItems : StartDelete(c, r, item)
        \/ DeleteOnVolume(c)
        \/ GiveUp(c)

Step ==
    \/ Overlay
    \/ \E r \in Class : CopyRepo(r)
    \/ \E item \in TagItems : ReadTag(item)
    \/ ListDigests
    \/ \E item \in Content : ReadDigest(item)
    \/ StartCopy
    \/ \E item \in Content : FetchItem(item)
    \/ StoreItem
    \/ \E ptr \in Pointers : FetchTag(ptr)
    \/ StoreTag
    \/ EndRepo
    \/ Collapse
    \/ \E r \in Class : PurgeRepo(r)
    \/ \E item \in Content \cup TagItems : Purge(item)
    \/ Mark
    \/ \E item \in Content : Sweep(item)
    \/ Done

Next ==
    \/ Requests
    \/ \E to \in Target, drain \in Drains : Start(to, drain)
    \/ Step
    \/ Fail
    \/ Restart

Spec == Init /\ [][Next]_vars

(* The task of the migration is scheduled; clients and operators may stop. *)
FairSpec == Spec /\ WF_vars(Step)

-----------------------------------------------------------------------------
(* Properties.                                                             *)

(* Zero miss: an image that was served when the migration started, and     *)
(* that nobody deleted, is served at every moment of it and afterwards, by *)
(* the backend its rule has then, whatever requests and failures come in   *)
(* between (run: overlay, copy_repo, upsert, purge and gc).                *)
ImagesKept == \A x \in steady : Served(x)

(* A read of such an image finds it, although it looks at one volume after *)
(* the other while a migration without drain goes on, fails, or is         *)
(* forgotten by a restart (read_fallthrough, copy_repo).                   *)
ReadersServed == ~missed

(* An image whose push was acknowledged is served until it is deleted, if  *)
(* migrations start while no push is under way, and none is given up. A    *)
(* restart forgets the new volume, and with it what was pushed there       *)
(* (PutManifest, Collapse).                                                *)
PushKept == restarts = 0 => \A x \in acked : Served(x)

(* A tag names the manifest of the last push under it (copy_repo's tags).  *)
TagCurrent ==
    \A k \in DOMAIN latest :
        latest[k] # None => TagVia(resolve(k[1]), k[1], k[2]) = latest[k]

(* A drain that ran alone leaves nothing of the class on the old backend:  *)
(* no manifest, and no blob but those of a repository staying there        *)
(* (purge_repo_manifests, then gc::run, on a source of several volumes).   *)
DrainReclaims ==
    mpc = "done" /\ job.drain /\ quiet =>
        \A v \in Volumes(job.old) : \A item \in content[v] :
            \E x \in (Repo \ Class) \X Manifest :
                item \in Items(x) /\ Has(job.old, ManifestItem(x[1], x[2]))

(* A job that is reported as running does not stay so for ever: run ends,  *)
(* with a report or with an error, and its task says so (repo_migrate,     *)
(* Jobs::finish, Jobs::fail).                                              *)
MigrationEnds == JobState = "running" ~> JobState # "running"

=============================================================================
