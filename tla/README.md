# Verification of rspace_registry

TLA+ models of rspace_registry, an OCI registry in Rust: its storage layers, its
background tasks, and the server with its authorization; the TLC runs that check
them on small instances, and TLAPS proofs of the results that hold for every
instance.

## 1. The system

| Part | State | Operations | Hard because |
|---|---|---|---|
| `FsStorage` (`rspace-registry-fs`) | files under `blobs/`, `manifests/<repo>/{tags,digests}/`, `uploads/` | blob write, read, delete; upload create, append, finalize, cancel; manifest put, get, delete; listings | no locks; every function is a chain of system calls with an await between any two; crashes |
| `gc::run` | none of its own: lists, a set of marks | mark and sweep over any `Storage` | runs beside pushes and deletes, over several backends |
| `migrate::run` | the route rule of a class; lists of what to copy | overlay, backfill, collapse, drain | requests in flight keep the backend they resolved; fails and is run again; the overlay is in memory only |
| `MultiStore` | partitions, one of them primary | reads fall through, writes to the primary, deletes and listings everywhere | a read or a delete is several calls |
| `RepoRouter` | ordered rules, pattern to backend | resolve, repoint, upsert, unions | rules change under requests |
| `replicate::run` | lists of what to copy | primary to secondaries, in a loop | runs beside writes and deletes |
| `QuotaStorage` | a usage cache with a TTL | check, write, count | check and count are apart |
| Handlers, HTTP router | none | the OCI API and the admin API | several storage calls per request |
| Jobs | a table in memory | start, finish, fail | lost by a restart |
| Kubernetes authorization | two verdict caches | classify, TokenReview, SubjectAccessReview | stale verdicts |
| Digests, manifests, errors, CLI | none | parsing, formatting, wiring | |

All parts share one process: an axum server runs each request as a task, so
requests interleave wherever a handler awaits. The layers call downwards:
handlers, `QuotaStorage`, `RepoRouter`, then `MultiStore` or `FsStorage`. The
collector, the migration and the replication loop are clients of the same
`Storage` trait and hold nothing that keeps requests out.

What makes the parts correct:

- a file under a digest hashes to that digest, always; a tag names a digest
  that was pushed under it, and its manifest is there first;
- the collector takes no blob from an image that is there to stay, and leaves
  no garbage behind;
- a migration loses nothing: what was served is served at every moment, what is
  pushed meanwhile stays, and the old volume is freed;
- sequential pushes never exceed a quota, and concurrent ones only so far;
- what a tag names on a secondary is there whole, what is deleted stays deleted,
  and secondaries catch up with the primary when writes cease;
- a handler runs only for a request whose verb, in the namespace its path names,
  was allowed, on verdicts that are not older than the cache's TTL and the reviews
  themselves;
- what was answered with 201 is where its repository is routed to; a listing
  followed to its end shows every name once, as far as its links bring names back.

## 2. Modules

### FsStorage

One root, at the granularity of system calls. `file` maps paths to bytes, and
`synced` holds the paths whose bytes are on the disk. A handler `p` is
suspended at `pc[p]` with the arguments `job[p]` and an open file `fd[p]`,
known by the path it has *now*: `Rename` and `Unlink` carry handles along,
which is what makes a shared temporary file dangerous. `atomic_write` is the
chain `AtomicCreate`, `AtomicWrite` once for each piece, `AtomicSync`, `AtomicRename`;
`manifest_put` runs it twice. `write_all` on a tokio `File` hands over at most 2 MB at a
time and awaits in between: `written[p]` counts the pieces, and `WriteAt` puts one at
its place, which may lie beyond the end of a file that another writer has truncated
meanwhile. What is skipped then is a `Hole`. `upload_finalize` reads and verifies, then `FinalizeMove`, or the
three steps of the copy when the rename fails.

Data: a digest is a collision-free name of the bytes, a blob is a sequence of
chunks, a manifest or a tag file one symbol. A chunk is one piece, and so is a tag file.
Manifests are taken to be below 2 MB (the server sets no limit) and so are one piece, too;
blobs are what shows what a longer write can do. An append
carries one piece: a longer one is several appends. `fs::write`, which makes the copy across filesystems,
is one blocking call after its truncation. `Stem[t]` is what
`Path::with_extension` keeps of a tag name.
Tags called `x.tmp` are left out. Full disks and read-only roots are left out.
What the listings return is the set of files there are; no property of this
module is about them.

`Exclusive` says what requests are kept from sharing (`"tmp"`, `"session"`), so
that each run states the assumption it needs. `CrossFs` puts `uploads/` on
another filesystem. `Failures` allows `Crash` (requests are lost, files stay)
and `PowerFailure` (unsynced bytes are lost too). Directory operations are taken
to be durable in order.

### ObjectStore

What the `Storage` trait promises, without files: a blob or a manifest is stored
or not, a tag names one digest. A request is accepted (its content verified),
takes effect in one step (`Store`; `StoreManifest` and then `StoreTag`), and is
answered; `Stop` loses the requests and no object; no answer is an I/O error.
`FsStorage` implements it: `Implements` is the abstract specification under the
mapping that takes the files with a digest for a name to the stored objects, and
the chain of `atomic_write`, from its creation of the temporary file to its
rename, to an accepted request.
The modules below build on this: where they call `Storage`, a call is one step.

### Gc

`gc::run` with each `Storage` call as a step, over backends to which
repositories are routed by `Home`, beside clients that push (blobs, then the
manifest), delete manifests and delete blobs. `Hidden` are the repositories
that `walk_repos` misses. `Refs[m]` is what `parse_manifest_refs` finds. A call
to `locate_owner` and the delete that follows are one step. History: `steady`,
the images complete when the collector started and untouched since, `quiet`, and
`lone`, the garbage there was one copy of when a run that is still alone began.

### Migrate

`migrate::run` beside clients. A backend is the sequence of volumes behind it:
`<<v>>` is an `FsStorage`, `<<new, old>>` the overlay, and a nested overlay the
concatenation, which reads, writes and deletes the same. A call keeps the
backend it resolved in `via` and drops a volume with each step, so reads and
deletes interleave with the migration volume by volume. The migration lists and
reads tags and digests, then fetches and stores one object at a time, with the
fetched one in `buf`. The drain purges and then collects as `Gc` does, its
marking in one step. `list_repos` leaves out the repositories in `Hidden`, as in `Gc`:
those that `walk_repos` misses are neither copied nor marked. `Fail` is a storage error at any step; `Restart` puts the
rule back to what the configuration says. `JobState` is what the job table
reports: a restart loses it. One migration of a class at a time;
`Arc::ptr_eq` is never true because `repo_migrate` opens the destination anew.
`DrainReclaims` is about every volume of the backend that was drained: a run
after a failed one drains two.

`Ops` says what clients do. One that gives up (`GiveUp`: it hangs up, or its request
fails) leaves behind what it has pushed.

History: `steady` (images served when the migration started and not deleted
since), `acked` and `latest` (acknowledged pushes), `quiet`, `missed`.
`Paused` keeps pushes away between the start and the overlay.

### Quota

`QuotaStorage` over the rule of one volume. A write of a new blob is a chain of
steps of its handler: `Begin` (the existence check), for an upload `upload_status`
(its size), `enforce` (a fresh cache
entry, or none), `Scan` (the listing of `used_bytes`), `Insert` (the entry, and
the decision), `Write`, `bump`. The backend is resolved anew by `enforce`,
`Write` and `bump`, as the code does. `blob_write` knows the bytes it checks and counts. For an upload they are
the offset of its session when `upload_status` is asked, and 0 if that fails
(`unwrap_or(0)`); what is finalized later is whatever the session holds then, and it
may have grown: `upload_status` reads any offset up to the size of the blob. The size of a listed blob is asked for
later and is 0 if the blob is gone by then: `blob_delete` chooses which of the
scans under way find it gone, which is every outcome there is, because the order
of the listing is arbitrary. `cache` is keyed by address, and `Repoint` may open
a backend at an address that a closed one had. `Drop` is an error or a client
that hangs up. A TTL passes at any moment (`Expire`). Sums do not come near
2^64, so `saturating_add` is `+`.

History: `breach` (a checked write left its volume above the limit) and
`disturbed`, what has come between the steps of writes: another write, an
uncounted write, a rule changed, an address reused, a delete missed by a scan, an upload measured
short of what was then finalized.

### Replicate

`replicate::run` over the partitions of a `MultiStore`, for one repository:
`content[p]` and `tags[p]` are what partition `p` has. It is a repository that `list_repos`
returns; one that `walk_repos` misses is never replicated. `blob_write` and
`manifest_put` go to the primary. `Delete` goes through the partitions one by
one (`DeleteOn`, or `DeleteFails`, after which the others are still tried).
A pass of a runner (the loop, the admin endpoint) lists the tags its glob matches,
reads them (`ReadTag`, which ends the pass if the tag's manifest is gone), walks
children (`ReadChild`), without a glob reads every digest too, and copies into one
secondary after another: blobs, manifests, tags. It holds what it fetched in
`held` until it stores it. `Fail` is a storage error at any step. Passes of
several runners overlap. Clients put a manifest once what it
refers to has been pushed, and go on believing that it is there. Reads that fall
through to the secondaries change nothing; `Migrate` has them.

Which tags a glob matches is a constant (`Globs`). That the target lacks an
object and that the primary has it are looked up in one step. A manifest's subject
is looked up as a blob and not found there, so it adds nothing.

History: `deleted`, what some request set out to delete, and `gone`, what a
request deleted without an error, with no pass under way and no put since.

### K8sAuth

The gate of `--auth k8s`. `gate[p]` is where the request of task `p` is and
which verdicts it has got. `check` decides what needs no review; then
`token_lookup`, `review_token`, `sar_lookup`, `review_access`: a cache is locked
for a lookup or an insert, never across a review, so two requests may both ask and
both insert. The cluster may change its mind at any moment: a review is answered
with any verdict, given at any moment since it was asked (`age`). `Tick` is
time: entries count down, verdicts get older, a review ends within
`ReviewTimeout`. Code between two awaits takes no time. An expired entry is kept
for one tick, which is when a lookup could still find it; later a lookup
finds it expired all the same. `Ttl` is at least 1; with 0 no entry is ever served.

The key of the access cache has the user and not the user's groups, so groups are
taken to be a function of the user.

### Server

The process: `require_auth` and `dispatch` of `router.rs`, the gate, and the
handlers over a `RepoRouter`. A path is the sequence of its segments. `classify`
(k8s.rs) and `Endpoint` with `Table` (router.rs) are two parsers of the same
path, as in the code. `Handlers(req)` is the handler of a request, or none for
404, 405, or a name, digest or id that is malformed. A handler is the chain of
its storage calls: `upload_start`, for one, is `mount_exists`, `mount_read`,
`mount_write` or `upload_post`. `task[p].root` is the backend a call uses; it is
resolved when the call before it has ended, and the rules may change before the
call takes effect. `Abort` is a storage error or a client that hangs up, between
any two calls. `Receive` chooses any request of `Request[auth]`; `FollowLink` is
a client that follows the link of a page.

`Permitted` demands of the verdict that let a handler run, one that pulls included,
that it is about the user of the request's token, the verb the handler needs, and the
namespace of the repository its path names, however the path was read. Not of a
`Clipped` name, one whose second component is a routing word: `repo_from_rest` takes its first
component for all of it, which then has no namespace of its own. And not of the source of
a mount: `from` stands in the query, and nobody asks about it.

Data: names are sequences of segments, and a name may have a word of the routing
table (`Markers`) inside, as `validate_repo_name` lets it. (A segment that only begins with
`uploads` counts as `uploads` in `repo_from_rest`; it moves the cut between routing words, never before
the second component.) `WellFormed` says what
a request is: any path of segments, any parameters, and the body its handler
parses. `DiskTypes` says what may be on the roots at the start.
What a pattern matches is a constant, its length too; `Resolve` is
the choice between the patterns that match. `walk_repos` lists a name with a component
`tags` or `digests` as what stands before that (`Listed`). Names are compared by `Rank`, a
total order on finitely many names (`NamesOrdered`); a client starts a listing at
its beginning (`ListingQueries`). The last name of a page is put into the link as it is
and comes back through the query parser, which makes a space of `+` and a byte of `%7E`:
`Decoded` is where the next page starts, and a page is `bent` when that is not where the last one
ended. A tag with `&` may change `n` as well, and one that is no header value gets no link;
both are left out, as is what a client makes of the link. Names of repositories and
digests come back as they are. A page
of size 0 shows nothing and has no link, as in the code. Digests of referrers are
read one call at a time. The admin endpoints that start jobs are `Gc`,
`Replicate` and `Migrate`.

History: `acked`, the blobs and manifests answered with 201 and not deleted since,
of repositories that were not re-routed since; `watch[p]`, the names that were
there all the time (`must`), the ones that ever were (`may`), and whether the
repository `moved`; for the catalog, whether a root dropped out of the rules.

### MC modules

`MCFsStorage`, `MCGc`, `MCMigrate`, `MCQuota`, `MCReplicate` and `MCServer` give names to the model values and the
functions the configurations use. Operators named `<Definition>_<Fault>` are
seeded faults: each stands for a plausible bug in the definition it is named
after, and shows that some property would notice.

## 3. Runs

| Run | Checks | Shows |
|---|---|---|
| FsBlobs | TypeOK, ContentAddressed, Implements | blobs are intact with crashes, when writers are kept apart; the files are an object store |
| FsManifests | TagFromPut, TagTargetExists, RequestsSucceed, ManifestIntact, Implements | manifests and tags likewise, with power failures too (the sync before the rename protects them); nothing fails for what a crash left |
| FsSharedTmp | NoForeignBytes, SettledIntact | writers that do share a file may leave it cut short or with holes, with nothing foreign in it, and leave it complete in the end |
| GcRouted | TypeOK, SteadyKept, QuietRunCollects, RepeatedRunsCollect | the collector is safe over two backends; one run deletes the garbage there is one copy of, and repeated runs what it leaves on other backends |
| MigrateDrain | TypeOK, ImagesKept, DrainReclaims, MigrationEnds | zero miss with drain, failures, deletes, pushes given up and a neighbour on the volume; a drain frees the volume; the migration ends |
| MigrateReads | ReadersServed, PushKept | no read misses without drain, across failures and restarts; pushes survive, with drain too, if none is under way between the start and the overlay, nothing is deleted, no push given up, and the class has the volume to itself (see the assumptions below) |
| Quota | TypeOK, SequentialHonest, UsageBounded | sequential pushes keep to the limit, if no upload is measured short; `n` concurrent handlers use at most `n * (limit + (n-1) * largest blob)` |
| Replicate | TypeOK, ReplicaComplete, DeletedGone, Converges | a secondary has the blobs of its manifests and, below each tag, the whole tree of images, whenever a pass stops and whatever other passes do; what was deleted undisturbed stays deleted; secondaries converge |
| Server | TypeOK, FreshVerdicts, Permitted, ListingExact, AckedVisible | the two parsers of a path agree on what a request may do, pulls included; verdicts expire; pages are exact beside pushes and deletes, as long as the links bring back the names; mounts across backends, uploads and puts are where they were acknowledged |

Runs that are expected to fail, each against a sentence of the repository
(quoted under `findings` in PROJECT.json):

| Run | Violates | What happens |
|---|---|---|
| FsTornBlob | ContentAddressed | two pushes of a blob share a temporary file; an empty blob is published |
| MigrateRerun | ImagesKept | the second run drains the volume it fills |
| MigrateTagBack | TagCurrent | the backfill sets back a tag that was pushed since the overlay |

The passing runs make assumptions that the code does not enforce. Each is
needed; the change to a configuration that shows it:

| Configuration | Change | Then |
|---|---|---|
| FsManifests | two tags, `Stem <- SharedStem`, `Exclusive = {}` | TagFromPut fails: `v1.0` and `v1.1` share `v1.tmp` |
| FsBlobs | `Exclusive = {"tmp"}` | ContentAddressed fails: a chunk arrives between the check and the rename of `upload_finalize` |
| FsBlobs | `CrossFs = TRUE` | ContentAddressed fails: the copy is made in place |
| GcRouted | `Lone` without its condition on the copies | QuietRunCollects fails: one copy is deleted, and none on a backend without a repository |
| GcRouted | `SteadyKept` for images that are pushed while the collector runs | fails: "unreferenced" (gc.rs:5-7) means not referenced when its repository was listed, and a push whose manifest arrives after its repository was listed loses its blobs |
| GcRouted | `Hidden = {r2}`, one backend | SteadyKept fails: `team/tags/app` is never listed |
| MigrateDrain | `Hidden = {r1}`, the class, or `{r2}`, its neighbour on the volume | ImagesKept fails: an image that is not listed is not copied, and the drain's sweep takes the blobs of one that was not marked |
| MigrateReads | `Hidden = {r1}` | PushKept fails: what was acknowledged is not copied, and gone after the collapse |
| MigrateReads | `Paused = FALSE` | PushKept fails: a request that resolved before the overlay writes to the old volume. ReadersServed still holds (7 million states) |
| MigrateReads | `"delete"` added to `Ops`, one client | PushKept fails: a blob that no manifest references any more is found on the old volume by a push (through the overlay), is not copied, and is gone after the collapse |
| MigrateReads | `"abandon"` added to `Ops`, one client, one manifest | PushKept fails likewise: the blob is what a push left that was given up |
| MigrateReads | `Repo = {r1, r2}`, the class still `{r1}`, one manifest, one client | PushKept fails: while the overlay serves the class, a client finds a layer on the old volume that only a repository outside the class has there, and does not push it; no manifest of the class there names it, so it is not copied, and the collapse drops the volume. That "no new writes reach the old volume" (migrate.rs:77-79) is not enough |
| MigrateReads | `MaxRuns = 2`, `Target = {v1, v2}`, `Drains = {FALSE}`, `MaxRestarts = 0`, one manifest | ReadersServed fails: a read that was routed before the first migration looks at its volume when the second has started, for what was pushed to the new volume in between. It holds if no read is under way at a start |
| Migrate | `~job.drain` dropped from `ReadVolume`'s history | ReadersServed fails: the drain overtakes a reader |
| Quota | `"short"` allowed by `SequentialHonest` | SequentialHonest fails: a chunk that arrives between the status and the finalize, or a status that failed, lets a blob pass that does not fit |
| Quota | `"short"` allowed by `UsageBounded`, `MaxUpsets = 2` | UsageBounded fails: each such upload is charged for less than it has, so the limit is passed again and again within one TTL |
| Quota | `"missed"` allowed by `UsageBounded`, `MaxUpsets = 2` | UsageBounded fails: a scan misses a blob whose push is under way, and the limit is filled again, as often as one likes. The overshoot is not "small" (quota.rs:22) |
| Replicate | `gone` without `clean` | DeletedGone fails, and with it "the next read should never find it on a stale replica" (multi.rs:12-13) taken without conditions: a pass that holds an object writes it again after the delete, and a delete that fails on one partition is answered with Ok if another had the object |
| Replicate | Converges without its condition on dangling tags | fails: a tag whose manifest was deleted by digest ends every pass at `ReadTag` |
| Replicate | every blob of the primary in `Synced` | Converges fails: only blobs that a manifest references are copied |
| Server | `Permitted` without `Clipped`, `Y <- <<"b", "blobs", "y">>`, `DefaultNs = "a"` | Permitted fails: `classify` takes for the name what stands before the first routing word, the routing table what stands before the last. They are not "in lock-step" (k8s.rs:131) on such names, which `validate_repo_name` accepts, and `b/blobs/y` is authorized in the default namespace |
| Server | `Permitted` with the namespace of `from` demanded of `mount_read` | fails: the source of a mount is read without a review in its namespace |
| Server | ListingExact without `~bent` | fails: a link with `%7E` or `+` in its last name starts the next page elsewhere, and names are shown again or left out |
| Server | ListingExact with `known` in place of `walk_repos` | fails: `b/tags/z` has a directory and is in no catalog |
| Server | `acked` without `Routed` | AckedVisible fails: a write in flight while the rules change completes on the old backend, as the comment in repo_router.rs says |
| Server | ListingExact without `moved`, three tasks, `Request` a tags list and a put of one repository and its re-routing | ListingExact fails: a put and a listing in flight both finish on the old backend, and the name was never where the repository is routed to. Two tasks cannot show it |
| Server | `Moves` without its clause on the catalog, three tasks, `Request` the catalog, a put and a rule that takes the put's root out of the rules | ListingExact fails: the catalog goes through the backends there were when it began (`distinct_backends`), and shows a repository that was put on one of them when no rule named it any more. It was the proof of ListingExact that showed it; two tasks cannot |

Bounds. Two handlers are enough for every race of two requests; FsSharedTmp
has three because one writer can repair what the other tore, and a content of two pieces, so that a
truncation can fall between them. Two chunks make a
content with a proper prefix; `MaxChunks` lets an upload grow beyond every
content. Two manifests and one tag make a tag that moves; two images that share
one layer make a delete that must not take the other's blob. Two volumes are an
overlay. Five blobs are one more than two handlers can store under a limit
of one byte, so that UsageBounded could fail; `MaxUpsets` is 1 (a short reading is one, too), two volumes and
reused addresses, and a third handler, are left to the proofs. Replicate has an index, its image and
one layer, so that children, blobs and order matter, and a loop without a glob
beside admin passes with one; three calls are a push with a delete, or a blob, a
manifest and its index. In Server two tasks serve up to three requests, of 20
kinds, on a disk that has an image and its referrer, and directories of a repository with a routing
word in its name and of one that no listing shows; a tag sorts first and comes back from a link
behind the others; on the way a rule for one of
the two repositories can be added, or the rule `*` sent to the other root. Under `k8s` two requests go through the
gate with every verb in two namespaces, pulls of every kind among them; `Ttl` 2 and `ReviewTimeout` 1 let an
entry be served, be served while it ages, and expire. `Symmetry` permutes the two
tasks. `MaxRuns`, `MaxFails`, `MaxRestarts` and `MaxAborts` are 0, 1 or 2: a
failure, and the run after it. `CHECK_DEADLOCK FALSE` stands where requests
or upload ids run out, or where nothing need happen after a migration.

Fairness. `Gc!FairSpec` assumes that the collector's task is scheduled (tokio
polls a ready task) and that an operator keeps starting it; clients may stop.
`Migrate!FairSpec` assumes only that the task of a migration is scheduled.
`Replicate!FairSpec` assumes that the loop's interval fires again after a pass
(`spawn_loop`), that passes under way are scheduled, and that a delete
that was started is carried through the partitions. Admin passes need never start,
clients may stop, and errors need not happen; that they cease is in the bound
`MaxFails`.

## 4. Proofs

`FsStorageProofs` proves, for any number of handlers, contents, tags and
sessions:

- `TypeCorrect`: `TypeOK`, with every failure and every kind of sharing;
- `ContentIntegrity`: `ContentAddressed`, `ManifestDurability`:
  `ManifestIntact`, `TagIntegrity`: `TagFromPut`, all from `KeptApart`
  (temporary files and sessions are not shared, one filesystem), the first
  without power failure.

`KeptApart` is needed: dropping any part of it fails (FsTornBlob, and the first
three lines of the table of assumptions). The invariant `IInv` adds to the type invariant
that requests in flight have disjoint temporary files and sessions
(`Disjoint`), that an open file is the handler's own (`Owners`), what each
file holds at each point of the chain that writes it (`FilesOK`), and that
upload files belong to ids handed out (`UsedOK`). The properties alone are not
inductive: that a rename publishes the right bytes depends on nobody having
touched the temporary file since its sync. From the same `IInv`:

- `TagAfterManifest`: `TagTargetExists`, power failures included. It needs one
  thing more: a `manifest_put` that has begun the tag's chain has its manifest
  in place, or a delete of it has come since (`TargetInv`).
- `NoRequestFails`: `RequestsSucceed`, which is about the answers of single steps
  and so follows from where `IInv` says each handler's file is.

`FsSharedProofs` asks what is left when writers do share temporary files and
uploads are copied across filesystems, for any number of writers:

- `NeverForeign`: `NoForeignBytes`, from `"session" \in Exclusive` alone, with
  every failure. A file may be cut short or have holes where another writer truncated it between two
  pieces (`Torn`). `SharedInv` says that writers of one content file or of its
  temporary file write the same bytes (`WriterOK`), and that a handle on a
  temporary file may be one on the published file by now, since another writer
  may have renamed it.
- `SettledFiles`: `SettledIntact`, without failures (they leave what FsTornBlob
  shows). Every piece that a file lacks has a writer with that file open that has yet to write
  it (`MissingOwned`), so none is missing when nobody writes.

`FsStorageRefinement` proves `Refinement`: `Implements`, so `FsStorage`
implements `ObjectStore`, for any number of handlers, contents, tags and
sessions, from `KeptApart` and without power failure. Every step of the detailed
specification is matched with one of the abstract one, action by action, under
`IInv`; what a rename publishes is the step that needs `FilesOK`. With a power
failure the claim is false of uploads, which are never synced.

`ReplicateProofs` is about any number of partitions, runners, images and tags,
with storage errors anywhere and no assumption:

- `TypeCorrect`: `TypeOK`. It includes that a pass holds something
  only while it has a target, so `StoreItem` and `StoreTag` always write to a
  secondary, never to the primary.
- `SecondariesComplete`: `ReplicaComplete`: the blobs of each manifest, and the whole tree of images
  below each tag (`WholeTree`), are there or were deleted. Of an index without a tag its images may be missing, because
  manifests are copied in the order of their digests. `CompleteInv` says that whatever a
  manifest names was pushed before it (`Pushed`), that a pass wants
  what the manifests it wants name (`Wanted`), and that once it stores manifests
  all the blobs it wants are on the target, or deleted
  (`Copied`). The property alone cannot tell why a manifest may be stored.
- `DeletesStick`: `DeletedGone`. No pass holds what is gone, or a tag of that name to write
  (`HoldsNothingGone`), and an undisturbed delete has cleared the partitions it
  has been to (`Sweeping`).

`GcProofs` is about any number of repositories, backends, images and clients:

- `TypeCorrect`: `TypeOK`.
- `CollectorSafe`: `SteadyKept`, if no repository is hidden. The invariant says
  that while the collector marks, a steady image is marked, about to be read, or
  its repository still to be listed, and that all are marked when it sweeps
  (`MarkInv`); and that every repository with a manifest has a directory
  (`DirsKnown`).
- `QuietRunComplete`: `QuietRunCollects`. While a run is alone, garbage with one
  copy stays unreferenced, is never marked, and is gone or still to be swept
  (`LoneOK`).

`QuotaProofs` proves `Honest`: `SequentialHonest` for any number of handlers,
classes, limits, blobs, volumes and addresses, and `QuotaTypes`. While writes
are sequential, one handler at most is in a write, on the backend of the rule
(`Alone`); a fresh entry is never below the usage but for a write not counted
yet, or one about to bring back what a delete took (`CacheCovers`); a scan is
never below it, and a checked write fits (`ScanCovers`). What is checked and counted is the size of the blob, unless an upload was
measured short (`Sized`). The cache is the
point: a re-push of a blob that was there is not counted, and must not be,
because the entry was never lowered by the delete.

`OverlapsBounded` is `UsageBounded`, for finitely many handlers and blobs. The
code's checks bound no sum directly: a scan that is put into the cache late
makes the entry too low by everything written and counted since, so neither
the entry nor any one scan bounds the usage. `BoundInv` keeps an account
instead: the volume is `n` fills of the limit and `n - 1` blobs (`Fill`), of which every
handler with a scan that found room (`Low`) keeps one free. What is on the volume
and may come to it stays within the others, and as much as one of these scans
found (`ReachFits`); a fresh entry that can let a write pass misses no more than
the fills of the handlers that are past their scans (`CacheFits`). A scan that
goes into the cache gives its fill to the writes that the low entry lets
pass; and a fresh entry has a handler that is past its scan (`Plausible`), or else
these would be one fill short. The bytes of a set are the cardinality
of a set of pairs (`Pieces`), so that they add up without an induction. That no scan
misses a blob and no upload is measured short is needed: with either TLC finds the bound
broken (last table of section 3).

`ServerProofs` is about any number of tasks, tokens, repositories, roots, rules
and requests, whatever paths and parameters these have:

- `FreshForever`: `FreshVerdicts`. An entry's age and the time it has left never
  exceed together the TTL and one review (`EntryOK`), and a verdict a request has
  shown is no older than an entry may be, plus the review it waits for
  (`ShownOK`). The bound on what leaves the gate says nothing of entries, so it
  is not inductive.
- `AlwaysPermitted`: `Permitted`, with no assumption on names. The two parsers agree on the action
  of every path there is (`LockStep`). On its name they need not, but a routing word cuts it off no earlier
  than at its second component, and the namespace hangs on the first (`SameNamespace`): so they agree on that, too,
  unless the name is clipped. These are facts about sequences of any length. The invariant
  (`AdmissionInv`) carries what `check` was told through both caches and both reviews to the
  handler, and from each step of a handler's chain to the next.
- `AckedStaysVisible`: `AckedVisible`. It is inductive once the rules are known never to be
  empty, so that every repository has a root, and every task to work on one (`StoreInv`): the step
  that acknowledges is the one that has stored what it acknowledges, also in a
  mount, and a rule that changes takes the acknowledgements of the repositories
  it moves with it, and no others.
- `ListingsExact`: `ListingExact`, for pages of any size and any number of backends,
  beside requests of every kind; order and completeness as long as no link came back as another name,
  and of repositories as `walk_repos` lists them. A listing is exact at its end because of what holds in its
  middle (`ListInv`): what a call has found, and what is on the backends it has
  yet to ask, is all that was there all the time, and nothing that never was
  (`BagOK`); the pages a client has seen show everything up to the last name
  (`SeenOK`), so that the next page joins on without a gap or a repetition
  (`PagesJoin`). That a set of names can be put in order is had from the number
  of names below each, without an induction (`SortedExists`).
- `TypeCorrect`: `TypeOK`. With it goes `TypeInv`: the chain a task is in
  is one that its request leads to (`Serves`), and a task has work exactly while
  its gate has a request.

`MigrateProofs` is about any number of volumes, repositories, images, clients,
runs, failures and restarts. All but the first assume that every repository is listed (`Hidden = {}`):

- `TypeCorrect`: `TypeOK`. The type invariant proved with it knows which repositories
  have a directory where (`KnownOK`), and what each phase of the migration has in
  hand (`PhaseOK`).
- `ZeroMiss`: `ImagesKept`, if `Fresh` has held throughout: no restart, and no
  volume drained to itself (`Apart`). MigrateRerun shows why the second is needed; a
  restart drops a rule that holds the only copy. The invariant has two layers.
  `BackfillInv` is about the copy, up to the collapse: the old backend has every steady
  image (`SourceHas`), the destination has those of the repositories gone through
  (`CopiedHas`), the lists of the one under way
  cover the others with all that their manifests name (`Closed`, `Listed`,
  `Wanted`), and no delete under way is for any of it (`Spared`). It holds with
  restarts and re-runs, too. `KeptInv` adds that all of it is on the destination once
  the rule has collapsed (`DestinationHas`), and that the drain's sweep spares what a
  neighbour on the old volume uses (`SweepSpares`).
- `ReadsNeverMiss`: `ReadersServed` up to the end of the first migration, without
  drain, failures and restarts included. The last volume a read will look at is the old one, or the destination
  once the migration is done (`ReadsLead`); the old volume keeps
  every steady image (`OriginHas`).
- `LaterReadsNeverMiss`: `ReadersServed` over any number of migrations, failed ones
  repeated too, from `Fresh` and `Rested`: no read is under way when a migration starts.
  Without `Rested` it is false (table of assumptions). Where the old volume of
  one migration is the destination of another there is no volume a read can rely
  on; what holds is that the volumes a read has yet to look at have the object
  between them (`ReadsHave`), as they had when it began (`ZeroMiss`).
- `DrainComplete`: `DrainReclaims`, with no other assumption: however many volumes the drained
  backend has, after any runs before. While nobody interferes, what is left of the class
  there is still on the list of the purge (`ClassOn`), and the blobs that nobody
  staying uses are on that of the sweep (`SweptOn`).
- `PushesKept`: `PushKept`, over any number of migrations, with and without drain, and failures, until a
  restart. It assumes `Alone` (the class has its volumes to itself, nothing is
  deleted, no push given up, and none under way at an overlay; without any of these it is
  false, as the table of assumptions shows) and `Apart`. The property is not inductive, because a push
  skips the blobs it finds, and may find them on a volume that is about to leave
  the rule. `PushInv` says why that does no harm. Whatever lies on any volume belongs to an image that is
  acknowledged or being pushed (`Stored`), so a blob that was found is copied on
  behalf of that image: what the old backend has of an image and the destination lacks is still due
  for one (`AllDue`), and at the collapse nothing is due. A push in flight writes
  where the rule does and finds nothing that the rule has not (`SameHead`), so the blobs
  it counts on are there when its manifest arrives (`Ready`).

Only model-checked are the liveness properties (`MigrationEnds`, `RepeatedRunsCollect`, `Converges`):
liveness under fairness and `ENABLED` are beyond the prover.

## 5. Plan

What is left are pure functions: `glob_match` against a reference definition; `parse_duration` with its overflow.

## 6. Not modelled

HTTP parsing, headers, status codes, media types and the artifact-type filter;
the syntax of digests and of the htpasswd file, password hashing, TLS; the ids and
reports of jobs; argument parsing and wiring at startup; packaging. They hold no
state that outlives a request. `parse_duration` multiplies without
a check for overflow (`parse_size` has one), once, at startup. Uploads have no power-failure
guarantee to check: `upload_finalize` never syncs.
