------------------------------- MODULE Server -------------------------------
(***************************************************************************)
(* The HTTP server of one process: require_auth and dispatch (router.rs),  *)
(* the gate of module K8sAuth, and the handlers (handlers.rs) over a       *)
(* RepoRouter. Several handler tasks run at once; every storage call is a  *)
(* step, atomic as ObjectStore says, on the backend its repository was     *)
(* routed to when the step before it ended, so requests and changed rules  *)
(* come in between. A client that gets a page of a listing with a link     *)
(* follows it.                                                             *)
(*                                                                         *)
(* A path is the sequence of its segments, a repository name the sequence  *)
(* of its components. Paths outside /v2, /admin and /token get a 404 and   *)
(* are left out. The admin endpoints that collect, replicate and migrate   *)
(* are the subject of modules Gc, Replicate and Migrate.                   *)
(***************************************************************************)
EXTENDS K8sAuth, FiniteSets, SequencesExt

CONSTANTS
    Modes,       \* which of {"none", "htpasswd", "k8s"} --auth may be
    Accepted,    \* the credentials the htpasswd file accepts
    Repo,        \* repository names
    Tag,         \* tag names
    Manifest,    \* manifest documents, each named by its digest
    SubjectOf,   \* the subject of each manifest, or None
    Chunk,       \* pieces of blobs
    Blob,        \* digests of blobs
    Content,     \* the chunks each blob consists of
    Uuid,        \* ids of upload sessions
    MaxChunks,   \* bound: a longer upload is not appended to
    Rank,        \* the order of repositories, of tags, and of manifests
    Decoded,     \* the place in it of what the query parser makes of a name
    Root,        \* storage roots
    Pattern,     \* patterns of route rules
    Matches,     \* the repositories each pattern matches
    Length,      \* the length of each pattern
    Rules,       \* the rules the command line gives
    Disks,       \* what may be on the roots when the process starts
    Request,     \* Request[mode]: what clients ask for
    MaxRequests  \* bound, by mode: requests, not counting followed links

VARIABLES
    auth,        \* the mode of this process
    rules,       \* the ordered route rules: [pattern, root]
    blobs,       \* root -> blobs
    docs,        \* root -> <<repo, digest, document>>
    tags,        \* root -> <<repo, tag, digest>>
    known,       \* root -> repositories that have a directory
    uploads,     \* root -> upload session -> chunks, None, or Ended
    task,        \* what each handler task does
    page,        \* what the client of a task got of a listing
    sent,        \* requests received
    acked,       \* history: <<repo, x>> acknowledged, undeleted, not re-routed
    watch        \* history: what a listing must and may show

store == <<blobs, docs, tags, known, uploads>>
vars == <<authVars, auth, rules, store, task, page, sent, acked, watch>>

Digest == Blob \cup Manifest
Segment == Tag \cup Digest \cup Uuid \cup STRING
Ended == <<None>>

-----------------------------------------------------------------------------
(* Paths.                                                                  *)

EndsIn(rest, s) == Len(rest) > Len(s) /\ SubSeq(rest, Len(rest) - Len(s) + 1, Len(rest)) = s
Before(rest, n) == SubSeq(rest, 1, Len(rest) - n)

(* The last segment of a path that ends in a slash.                        *)
Blank == ""

IsVersion(path) == path \in {<<"v2">>, <<"v2", Blank>>}

(* What stands between the name of a repository and a reference.           *)
Markers == {"blobs", "manifests", "referrers"}

(* The name before the first segment that is a marker, in this order.      *)
repo_from_rest(rest) ==
    LET Is(m) == {i \in 2..(Len(rest) - 1) : rest[i] = m}
        found == <<{i \in Is("blobs") : rest[i + 1] = "uploads"},
                   Is("blobs"), Is("manifests"), Is("referrers")>>
        some == {k \in DOMAIN found : found[k] # {}}
    IN  IF some = {} THEN <<>> ELSE SubSeq(rest, 1, Min(found[Min(some)]) - 1)

(* Seeded fault: a POST is taken for a read.                               *)
classify_PostReads(method, path) ==
    LET rest == Tail(path) IN
    CASE IsVersion(path) -> [action |-> "Version", repo |-> <<>>]
      [] Head(path) = "admin" -> [action |-> "Admin", repo |-> <<>>]
      [] path = <<"v2", "_catalog">> -> [action |-> "List", repo |-> <<>>]
      [] Head(path) = "v2" /\ EndsIn(rest, <<"tags", "list">>) ->
            [action |-> "List", repo |-> Before(rest, 2)]
      [] OTHER -> [action |-> CASE method \in {"PATCH", "PUT"} -> "Push"
                                [] method = "DELETE" -> "Delete"
                                [] OTHER -> "Pull",
                   repo |-> repo_from_rest(rest)]

(* What check is told of a request.                                        *)
classify(method, path) ==
    LET rest == Tail(path) IN
    CASE IsVersion(path) -> [action |-> "Version", repo |-> <<>>]
      [] Head(path) = "admin" -> [action |-> "Admin", repo |-> <<>>]
      [] path = <<"v2", "_catalog">> -> [action |-> "List", repo |-> <<>>]
      [] Head(path) = "v2" /\ EndsIn(rest, <<"tags", "list">>) ->
            [action |-> "List", repo |-> Before(rest, 2)]
      [] OTHER -> [action |-> CASE method \in {"POST", "PATCH", "PUT"} -> "Push"
                                [] method = "DELETE" -> "Delete"
                                [] OTHER -> "Pull",
                   repo |-> repo_from_rest(rest)]

(* The endpoint a path names, with the repository and what follows it.     *)
Endpoint(path) ==
    LET rest == Tail(path)
        start == IF Last(path) = Blank THEN Front(rest) ELSE rest
        E(at, repo, ref) == [at |-> at, repo |-> repo, ref |-> ref]
    IN
    CASE path = <<"token">> -> E("token", <<>>, None)
      [] IsVersion(path) -> E("version", <<>>, None)
      [] Head(path) = "admin" -> E(IF Len(path) = 2 /\ Last(path) \in {"repo-roots", "repo-root"}
                                  THEN Last(path) ELSE "none", <<>>, None)
      [] path = <<"v2", "_catalog">> -> E("catalog", <<>>, None)
      [] Head(path) = "v2" /\ EndsIn(rest, <<"tags", "list">>) ->
            E("tags", Before(rest, 2), None)
      [] Head(path) = "v2" /\ EndsIn(start, <<"blobs", "uploads">>) ->
            E("uploads", Before(start, 2), None)
      [] OTHER ->
            IF EndsIn(Front(rest), <<"blobs", "uploads">>)
            THEN E("upload", Before(rest, 3), Last(rest))
            ELSE IF Len(rest) > 2 /\ Last(rest) # Blank /\ rest[Len(rest) - 1] \in Markers
            THEN E(rest[Len(rest) - 1], Before(rest, 2), Last(rest))
            ELSE E("none", <<>>, None)

(* The routing table: endpoint, methods, handler.                          *)
Table == {
    <<"token", {"GET"}, "token_endpoint">>,
    <<"version", {"GET", "HEAD"}, "version_check">>,
    <<"catalog", {"GET", "HEAD"}, "catalog">>,
    <<"tags", {"GET", "HEAD"}, "tags_list">>,
    <<"uploads", {"POST"}, "upload_start">>,
    <<"upload", {"GET"}, "upload_status">>,
    <<"upload", {"PATCH"}, "upload_chunk">>,
    <<"upload", {"PUT"}, "upload_finish">>,
    <<"upload", {"DELETE"}, "upload_cancel">>,
    <<"manifests", {"GET", "HEAD"}, "manifest_get">>,
    <<"manifests", {"PUT"}, "manifest_put">>,
    <<"manifests", {"DELETE"}, "manifest_delete">>,
    <<"blobs", {"GET", "HEAD"}, "blob_get">>,
    <<"blobs", {"DELETE"}, "blob_delete">>,
    <<"referrers", {"GET"}, "referrers">>,
    <<"repo-roots", {"GET", "HEAD"}, "repo_roots_list">>,
    <<"repo-root", {"POST"}, "repo_root_upsert">>}

(* The handler of a request, with its arguments: none for a 404 or a 405,  *)
(* or when the name or a digest or session id in the path is not one.      *)
Handlers(req) ==
    LET e == Endpoint(req.path) IN
    {[do |-> h[3], repo |-> e.repo, ref |-> e.ref] : h \in {h \in Table :
        /\ h[1] = e.at /\ req.method \in h[2]
        /\ e.repo \in Repo \cup {<<>>}
        /\ e.at \in {"blobs", "referrers"} => e.ref \in Digest
        /\ e.at = "upload" => e.ref \in Uuid}}

(* A request as it is parsed; the handlers that read a body get theirs:    *)
(* manifest_put takes any document, the digest it has names it.            *)
WellFormed(req) ==
    /\ req = [method |-> req.method, path |-> req.path, q |-> req.q, body |-> req.body,
              token |-> req.token, loopback |-> req.loopback]
    /\ req.path \in Seq(Segment)
    /\ \/ req.path = <<"token">> \/ IsVersion(req.path)
       \/ Len(req.path) > 1 /\ Head(req.path) \in {"v2", "admin"}
    /\ req.token \in Token \cup {None} /\ req.loopback \in BOOLEAN
    /\ \A h \in Handlers(req) :
        /\ h.do = "manifest_put" => req.body \in Manifest
        /\ h.do \in {"upload_start", "upload_chunk", "upload_finish"} => req.body \in Seq(Chunk)
        /\ h.do = "repo_root_upsert" => req.body \in [pattern : Pattern, root : Root]

(* Handlers that read one thing and change nothing.                        *)
Reads == {"version_check", "token_endpoint", "upload_status", "manifest_get", "blob_get",
          "repo_roots_list"}

Listings == {"catalog", "tags_list", "referrers"}

Step == {h[3] : h \in Table} \cup
        {"mount_read", "mount_write", "upload_post", "upload_finalize",
         "list_repos", "has_repo", "referrers_read"}

(* A query parameter.                                                      *)
Query(req, k) == IF k \in DOMAIN req.q THEN req.q[k] ELSE None

Free == [do |-> "idle", repo |-> <<>>, ref |-> None, root |-> None, req |-> None,
         left |-> {}, bag |-> {}]
NoPage == [of |-> None, seen |-> <<>>, link |-> None, bent |-> FALSE, over |-> FALSE, found |-> TRUE]

-----------------------------------------------------------------------------
(* RepoRouter.                                                             *)

(* The longest pattern that matches, of these the first; else the last.    *)
Resolve(rs, repo) ==
    LET hits == {i \in DOMAIN rs : repo \in Matches[rs[i].pattern]}
        Longer(i, j) == \/ Length[rs[i].pattern] > Length[rs[j].pattern]
                        \/ Length[rs[i].pattern] = Length[rs[j].pattern] /\ i <= j
    IN  rs[IF hits = {} THEN Len(rs)
           ELSE CHOOSE i \in hits : \A j \in hits : Longer(i, j)].root

resolve(repo) == Resolve(rules, repo)

distinct_backends == {rules[i].root : i \in DOMAIN rules}

upsert(pattern, root) ==
    LET same == {i \in DOMAIN rules : rules[i].pattern = pattern} IN
    rules' = IF same = {} THEN Append(rules, [pattern |-> pattern, root |-> root])
             ELSE [rules EXCEPT ![Min(same)].root = root]

list_tags(v, repo) == {t \in Tag : \E m \in Manifest : <<repo, t, m>> \in tags[v]}
list_manifest_digests(v, repo) == {d \in Manifest : \E m \in Manifest : <<repo, d, m>> \in docs[v]}

(* The digest names a manifest whose subject is s.                         *)
Refers(v, repo, d, s) == \E m \in Manifest : <<repo, d, m>> \in docs[v] /\ SubjectOf[m] = s

(* The name a directory of a repository is listed under: neither tags nor  *)
(* digests is entered, so of a name with such a component only what stands *)
(* before it, whether that is a repository or not.                         *)
Listed(repo) ==
    LET words == {i \in DOMAIN repo : repo[i] \in {"tags", "digests"}} IN
    IF words = {} THEN repo ELSE SubSeq(repo, 1, Min(words) - 1)

walk_repos(v) == {Listed(r) : r \in known[v]} \ {<<>>}

(* What a listing is about, as the store stands.                           *)
Names(l) ==
    LET repos == UNION {walk_repos(v) : v \in distinct_backends} IN
    CASE l = None -> {}
      [] l # None /\ l.do = "catalog" -> repos
      [] l # None /\ l.do = "tags_list" ->
            list_tags(resolve(l.repo), l.repo) \cup ({l.repo} \cap repos)
      [] OTHER -> {d \in Manifest : Refers(resolve(l.repo), l.repo, d, l.ref)}

-----------------------------------------------------------------------------
ASSUME ServerConstants ==
    /\ Modes \subseteq {"none", "htpasswd", "k8s"}
    /\ Accepted \subseteq Token
    /\ Repo \subseteq Seq(Segment)
    /\ \A r \in Repo : r # <<>> /\ (Len(r) > 1 => Head(r) \in Namespace)
    /\ Blob \cap Manifest = {}
    /\ \A r \in Repo : Listed(r) \in Repo \cup {<<>>}
    /\ None \notin Repo \cup Root \cup Digest \cup Uuid
    /\ SubjectOf \in [Manifest -> Digest \cup {None}]
    /\ Content \in [Blob -> Seq(Chunk)]
    /\ Matches \in [Pattern -> SUBSET Repo] /\ Length \in [Pattern -> Nat]
    /\ Rules \in Seq([pattern : Pattern, root : Root]) /\ Rules # <<>>
    /\ \A mode \in Modes : \A req \in Request[mode] : WellFormed(req)
    /\ \A mode \in Modes : MaxRequests[mode] \in Nat
    /\ MaxChunks \in Nat

(* Names are compared byte by byte, and a file name is of bounded length.  *)
(* Tags are not validated, and one with a plus, a percent or an ampersand  *)
(* comes back from a query as another name.                                *)
ASSUME NamesOrdered ==
    /\ IsFiniteSet(Repo) /\ IsFiniteSet(Tag) /\ IsFiniteSet(Manifest)
    /\ Repo \cap Tag = {}
    /\ Rank \in [Repo \cup Tag \cup Manifest -> Nat] /\ None \notin Nat
    /\ \A S \in {Repo, Tag, Manifest} : \A x, y \in S : Rank[x] = Rank[y] => x = y
    /\ Decoded \in [Repo \cup Tag \cup Manifest -> Nat]
    /\ \A x \in Repo \cup Manifest : Decoded[x] = Rank[x]

(* A client asks for a listing from its beginning, in pages of n names if  *)
(* it says so; referrers takes no n.                                       *)
ASSUME ListingQueries ==
    \A mode \in Modes : \A req \in Request[mode] : \A h \in Handlers(req) :
        h.do \in Listings => /\ h # None
                             /\ Query(req, "last") = None /\ Query(req, "n") \in Nat \cup {None}
                             /\ h.do = "referrers" => Query(req, "n") = None

(* What may be on the roots.                                               *)
ASSUME DiskTypes ==
    \A disk \in Disks :
        /\ disk.blobs \in [Root -> SUBSET Blob]
        /\ disk.docs \in [Root -> SUBSET (Repo \X Manifest \X Manifest)]
        /\ disk.tags \in [Root -> SUBSET (Repo \X Tag \X Manifest)]
        /\ disk.known \in [Root -> SUBSET Repo]

TypeOK ==
    /\ GateType
    /\ auth \in Modes
    /\ rules \in Seq([pattern : Pattern, root : Root])
    /\ blobs \in [Root -> SUBSET Blob]
    /\ docs \in [Root -> SUBSET (Repo \X Manifest \X Manifest)]
    /\ tags \in [Root -> SUBSET (Repo \X Tag \X Manifest)]
    /\ known \in [Root -> SUBSET Repo]
    /\ uploads \in [Root -> [Uuid -> Seq(Chunk) \cup {None, Ended}]]
    /\ \A p \in Task :
        /\ task[p].do \in Step \cup {"idle", "auth"}
        /\ task[p].do = "idle" <=> gate[p].at = "idle"
        /\ task[p].do \in Step => gate[p].at = "open"
        /\ task[p].repo \in Repo \cup {<<>>}
        /\ page[p].seen \in Seq(Repo \cup Tag \cup Manifest)
        /\ task[p].root \in Root \cup {None}
        /\ task[p].do \in Step => task[p].root # None
        /\ watch[p].must \subseteq watch[p].may
    /\ sent \in 0..MaxRequests[auth]
    /\ acked \subseteq Repo \X Digest

Init ==
    /\ AuthInit
    /\ auth \in Modes
    /\ rules = Rules
    /\ \E disk \in Disks :
        /\ blobs = disk.blobs /\ docs = disk.docs /\ tags = disk.tags /\ known = disk.known
    /\ uploads = [v \in Root |-> [u \in Uuid |-> None]]
    /\ task = [p \in Task |-> Free]
    /\ page = [p \in Task |-> NoPage]
    /\ sent = 0
    /\ acked = {}
    /\ watch = [p \in Task |-> [must |-> {}, may |-> {}, moved |-> FALSE]]

-----------------------------------------------------------------------------
(* require_auth and dispatch.                                              *)

Opens(p, open) ==
    /\ gate' = [gate EXCEPT ![p] = [Shut EXCEPT !.at = IF open THEN "open" ELSE "shut"]]
    /\ UNCHANGED <<token_cache, sar_cache>>

(* The htpasswd file has the user with this password.                      *)
verify(token) == token \in Accepted

(* The token endpoint has the token reviewed, and no more.                 *)
token_endpoint == [action |-> "Token", repo |-> <<>>]

require_auth(p, req) ==
    IF auth = "none" \/ (req.method = "GET" /\ IsVersion(req.path)) THEN Opens(p, TRUE)
    ELSE IF auth = "htpasswd" THEN Opens(p, req.path = <<"token">> \/ verify(req.token))
    ELSE LET op == IF req.path = <<"token">> THEN token_endpoint
                   ELSE classify(req.method, req.path)
         IN  check(p, op.action, op.repo, req.token, req.loopback /\ op.action # "Token")

Begin(p, req) ==
    /\ task[p].do = "idle"
    /\ task' = [task EXCEPT ![p] = [Free EXCEPT !.do = "auth", !.req = req]]
    /\ require_auth(p, req)

Receive(p, req) ==
    LET l == {h \in Handlers(req) : h.do \in Listings}
        of == IF l = {} THEN None ELSE CHOOSE h \in l : TRUE IN
    /\ sent < MaxRequests[auth] /\ sent' = sent + 1
    /\ Begin(p, req)
    /\ page' = [page EXCEPT ![p] = [NoPage EXCEPT !.of = of]]
    /\ watch' = [watch EXCEPT ![p] = [must |-> Names(of), may |-> Names(of), moved |-> FALSE]]
    /\ UNCHANGED <<auth, rules, store, acked>>

(* The repository listed is routed to another root, or a root whose        *)
(* repositories are listed is no longer one of a rule.                     *)
Moves(l) ==
    /\ l # None
    /\ IF l.do = "catalog" THEN ~(distinct_backends \subseteq distinct_backends')
                           ELSE resolve(l.repo)' # resolve(l.repo)

(* Every other step: what was there all the time, and what ever was.       *)
Watching == watch' = [p \in Task |-> [must |-> watch[p].must \cap Names(page[p].of)',
                                      may |-> watch[p].may \cup Names(page[p].of)',
                                      moved |-> watch[p].moved \/ Moves(page[p].of)]]

(* The next page: the same request with the last name of this one.         *)
FollowLink(p) ==
    /\ page[p].link # None
    /\ Begin(p, [task[p].req EXCEPT !.q = [n |-> task[p].req.q.n, last |-> page[p].link]])
    /\ page' = [page EXCEPT ![p].link = None]
    /\ UNCHANGED <<auth, rules, store, sent, acked>>
    /\ Watching

(* Seeded fault: what one request has shown is kept for the next.          *)
Answered_KeepsGate(p) ==
    task' = [task EXCEPT ![p] = [Free EXCEPT !.req = task[p].req]] /\ UNCHANGED authVars

(* The task is through: an answer, whatever it is, or none.                *)
Answered(p) ==
    /\ task' = [task EXCEPT ![p] = [Free EXCEPT !.req = task[p].req]]
    /\ gate' = [gate EXCEPT ![p] = Shut]
    /\ UNCHANGED <<token_cache, sar_cache>>

(* The next call of the handler, about a repository.                       *)
Goes(p, do, repo) ==
    /\ task' = [task EXCEPT ![p] = [@ EXCEPT !.do = do, !.root = resolve(repo)]]
    /\ UNCHANGED authVars

(* The gate lets the request through: its body is read, its path parsed.   *)
dispatch(p) ==
    LET hs == Handlers(task[p].req) IN
    /\ task[p].do = "auth"
    /\ \/ gate[p].at = "shut" /\ Answered(p)
       \/ /\ gate[p].at = "open"
          /\ IF hs = {} THEN Answered(p)
             ELSE /\ \E h \in hs : task' = [task EXCEPT ![p] =
                        [Free EXCEPT !.do = h.do, !.repo = h.repo, !.ref = h.ref,
                                     !.root = resolve(h.repo), !.req = task[p].req]]
                  /\ UNCHANGED authVars
    /\ UNCHANGED <<auth, rules, store, page, sent, acked>>

(* A storage error, or the client is gone and its handler dropped.         *)
Abort(p) ==
    /\ task[p].do \in Step
    /\ Answered(p)
    /\ UNCHANGED <<auth, rules, store, page, sent, acked>>

ReadOnly(p) ==
    /\ task[p].do \in Reads
    /\ Answered(p)
    /\ UNCHANGED <<auth, rules, store, page, sent, acked>>

-----------------------------------------------------------------------------
(* Manifests and blobs.                                                    *)

(* Where a task works, which may be where its repository was before.       *)
At(p) == task[p].root
Routed(p) == At(p) = resolve(task[p].repo)

Acknowledge(p, x) == acked' = IF Routed(p) THEN acked \cup {<<task[p].repo, x>>} ELSE acked

(* The document is stored before its digest is compared with the path's.   *)
manifest_put(p) ==
    LET repo == task[p].repo  ref == task[p].ref  m == task[p].req.body IN
    /\ task[p].do = "manifest_put"
    /\ docs' = [docs EXCEPT ![At(p)] = @ \cup {<<repo, m, m>>}]
    /\ known' = [known EXCEPT ![At(p)] = @ \cup {repo}]
    /\ tags' = IF ref \notin Tag THEN tags
               ELSE [tags EXCEPT ![At(p)] = {x \in @ : <<x[1], x[2]>> # <<repo, ref>>}
                                            \cup {<<repo, ref, m>>}]
    /\ IF ref \in Manifest /\ ref # m THEN UNCHANGED acked ELSE Acknowledge(p, m)
    /\ Answered(p)
    /\ UNCHANGED <<auth, rules, blobs, uploads, page, sent>>

(* By tag, the pointer is deleted; by digest, the document.                *)
manifest_delete(p) ==
    LET Gone(x) == x[1] = task[p].repo /\ x[2] = task[p].ref IN
    /\ task[p].do = "manifest_delete"
    /\ docs' = [docs EXCEPT ![At(p)] = {x \in @ : ~Gone(x)}]
    /\ tags' = [tags EXCEPT ![At(p)] = {x \in @ : ~Gone(x)}]
    /\ acked' = {x \in acked : ~(Gone(x) /\ Routed(p))}
    /\ Answered(p)
    /\ UNCHANGED <<auth, rules, blobs, known, uploads, page, sent>>

(* Blobs are shared by the repositories of a root.                         *)
blob_delete(p) ==
    /\ task[p].do = "blob_delete"
    /\ blobs' = [blobs EXCEPT ![At(p)] = @ \ {task[p].ref}]
    /\ acked' = {x \in acked : x[2] # task[p].ref \/ resolve(x[1]) # At(p)}
    /\ Answered(p)
    /\ UNCHANGED <<auth, rules, docs, tags, known, uploads, page, sent>>

Writes(p, b) ==
    /\ blobs' = [blobs EXCEPT ![At(p)] = @ \cup {b}]
    /\ Acknowledge(p, b)
    /\ Answered(p)

-----------------------------------------------------------------------------
(* Uploads.                                                                *)

(* Seeded fault: the source has the blob, so the mount is done.            *)
mount_read_NoCopy(p) ==
    LET b == Query(task[p].req, "mount") IN
    /\ task[p].do = "mount_read"
    /\ \/ b \in blobs[At(p)] /\ acked' = acked \cup {<<task[p].repo, b>>} /\ Answered(p)
       \/ Goes(p, "upload_post", task[p].repo) /\ UNCHANGED acked
    /\ UNCHANGED <<auth, rules, store, page, sent>>

(* upload_start: with mount, does the target have the blob?                *)
mount_exists(p) ==
    LET b == Query(task[p].req, "mount")
        from == Query(task[p].req, "from") IN
    /\ task[p].do = "upload_start" /\ b \in Blob
    /\ IF b \in blobs[At(p)] THEN Acknowledge(p, b) /\ Answered(p)
       ELSE /\ IF from \in Repo THEN Goes(p, "mount_read", from)
               ELSE Goes(p, "upload_post", task[p].repo)
            /\ UNCHANGED acked
    /\ UNCHANGED <<auth, rules, store, page, sent>>

(* Else it is read from the source; any error falls through to an upload.  *)
mount_read(p) ==
    /\ task[p].do = "mount_read"
    /\ \/ Query(task[p].req, "mount") \in blobs[At(p)] /\ Goes(p, "mount_write", task[p].repo)
       \/ Goes(p, "upload_post", task[p].repo)
    /\ UNCHANGED <<auth, rules, store, page, sent, acked>>

mount_write(p) ==
    /\ task[p].do = "mount_write"
    /\ Writes(p, Query(task[p].req, "mount"))
    /\ UNCHANGED <<auth, rules, docs, tags, known, uploads, page, sent>>

(* With digest, the body is the blob; else a session is opened.            *)
upload_post(p) ==
    LET d == Query(task[p].req, "digest") IN
    /\ \/ task[p].do = "upload_post"
       \/ task[p].do = "upload_start" /\ Query(task[p].req, "mount") \notin Blob
    /\ \/ /\ d # None
          /\ IF d \in Blob /\ Content[d] = task[p].req.body THEN Writes(p, d)
             ELSE Answered(p) /\ UNCHANGED <<blobs, acked>>
          /\ UNCHANGED uploads
       \/ /\ d = None
          /\ \E u \in Uuid : /\ \A v \in Root : uploads[v][u] = None
                             /\ uploads' = [uploads EXCEPT ![At(p)][u] = <<>>]
          /\ Answered(p)
          /\ UNCHANGED <<blobs, acked>>
    /\ UNCHANGED <<auth, rules, docs, tags, known, page, sent>>

Session(p) == uploads[At(p)][task[p].ref]
Open(p) == Session(p) \notin {None, Ended}
Appends(p) == uploads' = [uploads EXCEPT ![At(p)][task[p].ref] = @ \o task[p].req.body]
Fits(p) == Len(Session(p)) + Len(task[p].req.body) <= MaxChunks

upload_chunk(p) ==
    /\ task[p].do = "upload_chunk"
    /\ IF ~Open(p) THEN UNCHANGED uploads ELSE Fits(p) /\ Appends(p)
    /\ Answered(p)
    /\ UNCHANGED <<auth, rules, blobs, docs, tags, known, page, sent, acked>>

(* upload_finish: the last chunk is appended,                              *)
upload_finish(p) ==
    /\ task[p].do = "upload_finish"
    /\ IF Query(task[p].req, "digest") \notin Digest \/ (task[p].req.body # <<>> /\ ~Open(p))
       THEN Answered(p) /\ UNCHANGED uploads
       ELSE /\ IF task[p].req.body = <<>> THEN UNCHANGED uploads ELSE Fits(p) /\ Appends(p)
            /\ Goes(p, "upload_finalize", task[p].repo)
    /\ UNCHANGED <<auth, rules, blobs, docs, tags, known, page, sent, acked>>

(* and the session becomes the blob if it has that digest.                 *)
upload_finalize(p) ==
    LET d == Query(task[p].req, "digest") IN
    /\ task[p].do = "upload_finalize"
    /\ IF Open(p) /\ d \in Blob /\ Content[d] = Session(p)
       THEN Writes(p, d) /\ uploads' = [uploads EXCEPT ![At(p)][task[p].ref] = Ended]
       ELSE Answered(p) /\ UNCHANGED <<blobs, uploads, acked>>
    /\ UNCHANGED <<auth, rules, docs, tags, known, page, sent>>

upload_cancel(p) ==
    /\ task[p].do = "upload_cancel"
    /\ uploads' = IF Open(p) THEN [uploads EXCEPT ![At(p)][task[p].ref] = Ended] ELSE uploads
    /\ Answered(p)
    /\ UNCHANGED <<auth, rules, blobs, docs, tags, known, page, sent, acked>>

-----------------------------------------------------------------------------
(* Listings.                                                               *)

(* All of the names, in order.                                             *)
Sorted(names) == CHOOSE s \in [1..Cardinality(names) -> names] :
                    \A i, j \in DOMAIN s : i < j => Rank[s[i]] < Rank[s[j]]

(* Seeded fault: the page begins with the last name of the one before.     *)
Respond_Inclusive(p, names) ==
    LET q == task[p].req
        after == {x \in names : Query(q, "last") = None \/ Rank[x] >= Query(q, "last")}
        shown == IF Query(q, "n") = None THEN Sorted(after)
                 ELSE SubSeq(Sorted(after), 1, Min({Len(Sorted(after)), Query(q, "n")}))
        more == Len(shown) < Cardinality(after)
    IN
    /\ page' = [page EXCEPT
            ![p].seen = @ \o shown, ![p].over = ~more,
            ![p].link = IF more /\ shown # <<>> THEN Rank[Last(shown)] ELSE None]
    /\ Answered(p)

(* The names after last, the first n of them, and a link if there are more. *)
(* The last name goes into the link as it is, and is decoded when it comes *)
(* back: the link is bent if it comes back as another.                     *)
Respond(p, names) ==
    LET q == task[p].req
        after == {x \in names : Query(q, "last") = None \/ Rank[x] > Query(q, "last")}
        shown == IF Query(q, "n") = None THEN Sorted(after)
                 ELSE SubSeq(Sorted(after), 1, Min({Len(Sorted(after)), Query(q, "n")}))
        more == Len(shown) < Cardinality(after)
        link == more /\ shown # <<>>
    IN
    /\ page' = [page EXCEPT
            ![p].seen = @ \o shown, ![p].over = ~more,
            ![p].link = IF link THEN Decoded[Last(shown)] ELSE None,
            ![p].bent = @ \/ (link /\ Decoded[Last(shown)] # Rank[Last(shown)])]
    /\ Answered(p)

(* RepoRouter::list_repos goes through the backends of the rules.          *)
ListsRepos(p, do) ==
    /\ task' = [task EXCEPT ![p] = [@ EXCEPT !.do = do, !.left = distinct_backends, !.bag = {}]]
    /\ UNCHANGED <<authVars, page>>

catalog(p) ==
    /\ task[p].do = "catalog"
    /\ ListsRepos(p, "list_repos")
    /\ UNCHANGED <<auth, rules, store, sent, acked>>

list_repos(p) ==
    /\ task[p].do \in {"list_repos", "has_repo"}
    /\ \E v \in task[p].left :
        task' = [task EXCEPT ![p].left = @ \ {v}, ![p].bag = @ \cup walk_repos(v)]
    /\ UNCHANGED <<authVars, auth, rules, store, page, sent, acked>>

catalog_page(p) ==
    /\ task[p].do = "list_repos" /\ task[p].left = {}
    /\ Respond(p, task[p].bag)
    /\ UNCHANGED <<auth, rules, store, sent, acked>>

(* A repository without tags may have none, or not be there.               *)
tags_list(p) ==
    /\ task[p].do = "tags_list"
    /\ LET names == list_tags(At(p), task[p].repo) IN
       IF names = {} THEN ListsRepos(p, "has_repo") ELSE Respond(p, names)
    /\ UNCHANGED <<auth, rules, store, sent, acked>>

has_repo(p) ==
    /\ task[p].do = "has_repo" /\ task[p].left = {}
    /\ IF task[p].repo \in task[p].bag THEN Respond(p, {})
       ELSE page' = [page EXCEPT ![p] = [@ EXCEPT !.over = TRUE, !.found = FALSE]] /\ Answered(p)
    /\ UNCHANGED <<auth, rules, store, sent, acked>>

(* The digests are listed, then read one by one; one that is not there any *)
(* more is skipped.                                                        *)
referrers(p) ==
    /\ task[p].do = "referrers"
    /\ task' = [task EXCEPT ![p] = [@ EXCEPT !.do = "referrers_read",
                                             !.left = list_manifest_digests(At(p), task[p].repo)]]
    /\ UNCHANGED <<authVars, auth, rules, store, page, sent, acked>>

referrers_read(p) ==
    /\ task[p].do = "referrers_read"
    /\ \/ /\ \E d \in task[p].left :
                task' = [task EXCEPT
                    ![p].left = @ \ {d},
                    ![p].bag = @ \cup {e \in {d} : Refers(At(p), task[p].repo, e, task[p].ref)},
                    ![p].root = resolve(task[p].repo)]
          /\ UNCHANGED <<authVars, page>>
       \/ task[p].left = {} /\ Respond(p, task[p].bag)
    /\ UNCHANGED <<auth, rules, store, sent, acked>>

-----------------------------------------------------------------------------
(* repo_root_upsert: a new rule, or another root for one. What was         *)
(* acknowledged for a repository that goes elsewhere stays where it was.   *)
repo_root_upsert(p) ==
    LET body == task[p].req.body IN
    /\ task[p].do = "repo_root_upsert"
    /\ upsert(body.pattern, body.root)
    /\ acked' = {x \in acked : Resolve(rules', x[1]) = resolve(x[1])}
    /\ Answered(p)
    /\ UNCHANGED <<auth, store, page, sent>>

Ticks ==
    /\ auth = "k8s"
    /\ Tick
    /\ UNCHANGED <<auth, rules, store, task, page, sent, acked>>

Gate(p) ==
    /\ GateStep(p)
    /\ UNCHANGED <<auth, rules, store, task, page, sent, acked>>

Handle(p) ==
    \/ Gate(p) \/ dispatch(p) \/ Abort(p) \/ ReadOnly(p)
    \/ manifest_put(p) \/ manifest_delete(p) \/ blob_delete(p)
    \/ mount_exists(p) \/ mount_read(p) \/ mount_write(p) \/ upload_post(p)
    \/ upload_chunk(p) \/ upload_finish(p) \/ upload_finalize(p) \/ upload_cancel(p)
    \/ catalog(p) \/ list_repos(p) \/ catalog_page(p) \/ tags_list(p) \/ has_repo(p)
    \/ referrers(p) \/ referrers_read(p) \/ repo_root_upsert(p)

Next ==
    \/ \E p \in Task : \/ \E req \in Request[auth] : Receive(p, req)
                       \/ FollowLink(p)
                       \/ Handle(p) /\ Watching
    \/ Ticks /\ Watching

Spec == Init /\ [][Next]_vars

-----------------------------------------------------------------------------
(* Properties.                                                             *)

(* What a handler needs, whatever the path looked like.                    *)
Needs(do) ==
    CASE do \in {"manifest_put", "upload_start", "mount_read", "mount_write", "upload_post",
                 "upload_chunk", "upload_finish", "upload_finalize", "repo_roots_list",
                 "repo_root_upsert"} -> "update"
      [] do \in {"manifest_delete", "blob_delete", "upload_cancel"} -> "delete"
      [] do \in {"catalog", "list_repos", "tags_list", "has_repo"} -> "list"
      [] OTHER -> "get"

(* A name whose second component is a word that ends names: repo_from_rest *)
(* takes the first component for all of it.                                *)
Clipped(repo) == Len(repo) > 1 /\ repo[2] \in Markers

(* classify is kept in lock-step with the routing table: under k8s every   *)
(* handler but the version probe and the token endpoint, the pulls too,    *)
(* runs only for a request whose user the cluster allowed the verb of that *)
(* handler in the namespace of the repository its path names (check,       *)
(* dispatch), unless it came over the loopback. The namespace may be       *)
(* another for a clipped name; a mount's source, which is in the query, is *)
(* not asked about.                                                        *)
Permitted ==
    auth = "k8s" => \A p \in Task :
        LET t == task[p]  may == gate[p].may IN
        t.do \in Step \ {"version_check", "token_endpoint"} /\ ~(AllowLoopback /\ t.req.loopback) =>
            /\ may # None /\ may.ok
            /\ may.of[1] = UserOf[t.req.token] /\ may.of[3] = Needs(t.do)
            /\ ~Clipped(t.repo) => may.of[2] = namespace_for(t.repo)

(* A listing whose pages a client has followed to the end shows no name    *)
(* that never was there, and, as long as no link came back as another      *)
(* name, every name that was there from its first request to its last, in  *)
(* order and once, unless the repository moves in between or, for the      *)
(* catalog's clause on names that never were, a root drops out of the      *)
(* rules; a repository there all the time is not unknown (catalog,         *)
(* tags_list, referrers). A repository is there as walk_repos lists it.    *)
ListingExact ==
    \A p \in Task : page[p].over =>
        LET seen == page[p].seen IN
        /\ ~page[p].bent =>
            /\ \A i, j \in DOMAIN seen : i < j => Rank[seen[i]] < Rank[seen[j]]
            /\ page[p].of.do = "catalog" \/ ~watch[p].moved =>
                  watch[p].must \ {page[p].of.repo} \subseteq ToSet(seen)
        /\ ~watch[p].moved => ToSet(seen) \subseteq watch[p].may
        /\ ~page[p].found => page[p].of.repo \notin watch[p].must

(* What was answered with 201, by an upload, a mount or a put, is where    *)
(* the repository is routed to, until a request deletes it there or the    *)
(* rules route the repository elsewhere, even while the request was under  *)
(* way (upload_start copies the bytes if source and target are on          *)
(* different backends).                                                    *)
AckedVisible ==
    \A x \in acked :
        IF x[2] \in Blob THEN x[2] \in blobs[resolve(x[1])]
        ELSE <<x[1], x[2], x[2]>> \in docs[resolve(x[1])]

=============================================================================
