--------------------------------- MODULE Gc ---------------------------------
(***************************************************************************)
(* Mark-and-sweep garbage collection (gc::run) over a routed store, while  *)
(* clients push and delete. Every Storage call of the collector is a step, *)
(* so requests come between its listings, its reads and its deletes.       *)
(*                                                                         *)
(* A repository lives on the backend its route rule names (Home); blobs    *)
(* are per backend and shared by the repositories on it. One backend is    *)
(* the single FsStorage. Manifests are named by what they reference.       *)
(***************************************************************************)
EXTENDS Naturals, FiniteSets

CONSTANTS
    Repo,        \* repository names
    Hidden,      \* those list_repos misses: a path component tags or digests
    Manifest,    \* manifest documents
    Blob,        \* blob digests; a manifest may be stored as a blob too
    Refs,        \* Refs[m]: the blob digests parse_manifest_refs finds in m
    Backend,     \* storage roots
    Home,        \* Home[r]: the backend r is routed to
    Fallback,    \* the backend the empty repository name is routed to
    Client,      \* clients pushing images
    MaxAborts,   \* bound: collector runs that fail or are killed
    None

VARIABLES
    manifests,   \* the <<repo, manifest>> pairs stored
    known,       \* repositories that have a directory under manifests/
    blobs,       \* backend -> blob digests stored there
    push,        \* client -> the push it is in: [repo, m, have], or None
    gcpc,        \* where the collector is: idle, mark, sweep, done
    repos,       \* its list of repositories
    left,        \* those it has not listed yet
    todo,        \* <<repo, manifest>> pairs listed and not read yet
    reachable,   \* digests marked
    victims,     \* blobs listed and not looked at yet
    aborts,      \* collector runs that did not finish
    steady,      \* history: manifests complete at the start, untouched since
    quiet,       \* history: no request since the collector started
    lone         \* history: while quiet, the garbage it had to delete

store == <<manifests, known, blobs>>
collector == <<gcpc, repos, left, todo, reachable, victims, aborts>>
vars == <<store, push, collector, steady, quiet, lone>>

ASSUME ConstantsOK ==
    /\ Hidden \subseteq Repo
    /\ \A m \in Manifest : Refs[m] \subseteq Blob
    /\ Home \in [Repo -> Backend]
    /\ Fallback \in Backend
    /\ MaxAborts \in Nat
    /\ None \notin [repo : Repo, m : Manifest, have : SUBSET Blob]

TypeOK ==
    /\ manifests \subseteq Repo \X Manifest
    /\ known \subseteq Repo
    /\ blobs \in [Backend -> SUBSET Blob]
    /\ push \in [Client -> [repo : Repo, m : Manifest, have : SUBSET Blob] \cup {None}]
    /\ gcpc \in {"idle", "mark", "sweep", "done"}
    /\ repos \subseteq Repo
    /\ left \subseteq repos
    /\ todo \subseteq Repo \X Manifest
    /\ reachable \subseteq Blob
    /\ victims \subseteq Blob
    /\ aborts \in 0..MaxAborts
    /\ steady \subseteq manifests
    /\ quiet \in BOOLEAN
    /\ lone \subseteq Blob

Init ==
    /\ manifests = {}
    /\ known = {}
    /\ blobs = [be \in Backend |-> {}]
    /\ push = [c \in Client |-> None]
    /\ gcpc = "idle"
    /\ repos = {} /\ left = {} /\ todo = {} /\ reachable = {} /\ victims = {}
    /\ aborts = 0
    /\ steady = {}
    /\ quiet = TRUE
    /\ lone = {}

Referenced(b) == \E x \in manifests : b \in Refs[x[2]] \cup {x[2]}

(* Every blob a stored manifest references is on its repository's backend. *)
Complete(x) == Refs[x[2]] \subseteq blobs[Home[x[1]]]

(* Unreferenced, with one copy, where a repository is listed.              *)
Lone == {b \in Blob : /\ ~Referenced(b)
                      /\ \E r \in known \ Hidden : {be \in Backend : b \in blobs[be]} = {Home[r]}}

-----------------------------------------------------------------------------
(* Requests. A client pushes the blobs of an image that HEAD does not find, *)
(* then its manifest.                                                      *)

StartPush(c, r, m) ==
    /\ push[c] = None
    /\ push' = [push EXCEPT ![c] = [repo |-> r, m |-> m, have |-> {}]]
    /\ quiet' = FALSE /\ lone' = {}
    /\ UNCHANGED <<store, collector, steady>>

(* HEAD says the blob is there, or blob_write stores it.                   *)
PushBlob(c, b) ==
    /\ push[c] # None
    /\ b \in Refs[push[c].m] \ push[c].have
    /\ blobs' = [blobs EXCEPT ![Home[push[c].repo]] = @ \cup {b}]
    /\ push' = [push EXCEPT ![c].have = @ \cup {b}]
    /\ quiet' = FALSE /\ lone' = {}
    /\ UNCHANGED <<manifests, known, collector, steady>>

(* manifest_put does not look whether the blobs are there.                 *)
PutManifest(c) ==
    /\ push[c] # None
    /\ push[c].have = Refs[push[c].m]
    /\ manifests' = manifests \cup {<<push[c].repo, push[c].m>>}
    /\ known' = known \cup {push[c].repo}
    /\ push' = [push EXCEPT ![c] = None]
    /\ quiet' = FALSE /\ lone' = {}
    /\ UNCHANGED <<blobs, collector, steady>>

(* The directory of the repository stays when its last manifest goes.      *)
DeleteManifest(x) ==
    /\ x \in manifests
    /\ manifests' = manifests \ {x}
    /\ steady' = steady \ {x}
    /\ quiet' = FALSE /\ lone' = {}
    /\ UNCHANGED <<known, blobs, push, collector>>

DeleteBlob(r, b) ==
    /\ b \in blobs[Home[r]]
    /\ blobs' = [blobs EXCEPT ![Home[r]] = @ \ {b}]
    /\ steady' = {x \in steady : Home[x[1]] = Home[r] => b \notin Refs[x[2]]}
    /\ quiet' = FALSE /\ lone' = {}
    /\ UNCHANGED <<manifests, known, push, collector>>

-----------------------------------------------------------------------------
(* gc::run.                                                                *)

(* Seeded faults: the list the sweep uses is that of the run before; the   *)
(* marks are those of the run before.                                      *)
ListRepos_OldList ==
    /\ gcpc \in {"idle", "done"}
    /\ gcpc' = "mark"
    /\ left' = known \ Hidden
    /\ todo' = {} /\ reachable' = {} /\ victims' = {}
    /\ steady' = {x \in manifests : Complete(x)}
    /\ quiet' = TRUE /\ lone' = Lone
    /\ UNCHANGED <<store, push, repos, aborts>>

ListRepos_OldMarks ==
    /\ gcpc \in {"idle", "done"}
    /\ gcpc' = "mark"
    /\ repos' = known \ Hidden
    /\ left' = known \ Hidden
    /\ todo' = {} /\ victims' = {}
    /\ steady' = {x \in manifests : Complete(x)}
    /\ quiet' = TRUE /\ lone' = Lone
    /\ UNCHANGED <<store, push, reachable, aborts>>

(* list_repos: every repository with a directory, but for the hidden ones. *)
ListRepos ==
    /\ gcpc \in {"idle", "done"}
    /\ gcpc' = "mark"
    /\ repos' = known \ Hidden
    /\ left' = known \ Hidden
    /\ todo' = {} /\ reachable' = {} /\ victims' = {}
    /\ steady' = {x \in manifests : Complete(x)}
    /\ quiet' = TRUE /\ lone' = Lone
    /\ UNCHANGED <<store, push, aborts>>

(* list_manifest_digests of the next repository.                           *)
ListManifests(r) ==
    /\ gcpc = "mark" /\ todo = {}
    /\ r \in left
    /\ left' = left \ {r}
    /\ todo' = {x \in manifests : x[1] = r}
    /\ UNCHANGED <<store, push, gcpc, repos, reachable, victims, aborts, steady, quiet, lone>>

(* Seeded fault: the marks of the manifests before are lost.               *)
MarkManifest_Forgets(x) ==
    /\ gcpc = "mark"
    /\ x \in todo
    /\ todo' = todo \ {x}
    /\ reachable' = ({x[2]} \cap Blob) \cup (IF x \in manifests THEN Refs[x[2]] ELSE {})
    /\ UNCHANGED <<store, push, gcpc, repos, left, victims, aborts, steady, quiet, lone>>

(* A listed manifest is reachable, and what it references; one that went   *)
(* in the meantime has nothing to parse.                                   *)
MarkManifest(x) ==
    /\ gcpc = "mark"
    /\ x \in todo
    /\ todo' = todo \ {x}
    /\ reachable' = reachable \cup ({x[2]} \cap Blob) \cup (IF x \in manifests THEN Refs[x[2]] ELSE {})
    /\ UNCHANGED <<store, push, gcpc, repos, left, victims, aborts, steady, quiet, lone>>

(* list_all_blobs: the union over the distinct backends.                   *)
ListBlobs ==
    /\ gcpc = "mark" /\ left = {} /\ todo = {}
    /\ gcpc' = "sweep"
    /\ victims' = UNION {blobs[be] : be \in Backend}
    /\ UNCHANGED <<store, push, repos, left, todo, reachable, aborts, steady, quiet, lone>>

Keep(b) ==
    /\ gcpc = "sweep"
    /\ b \in victims \cap reachable
    /\ victims' = victims \ {b}
    /\ UNCHANGED <<store, push, gcpc, repos, left, todo, reachable, aborts, steady, quiet, lone>>

(* locate_owner: a repository whose backend has the blob, else the empty   *)
(* name.                                                                   *)
Owners(b) == {Home[r] : r \in {q \in repos : b \in blobs[Home[q]]}}

(* Seeded fault: the blob is deleted from the fallback backend.            *)
Sweep_NoLocate(b) ==
    /\ gcpc = "sweep"
    /\ b \in victims \ reachable
    /\ \E be \in {Fallback} : blobs' = [blobs EXCEPT ![be] = @ \ {b}]
    /\ victims' = victims \ {b}
    /\ UNCHANGED <<manifests, known, push, gcpc, repos, left, todo, reachable, aborts, steady, quiet, lone>>

(* blob_delete from one backend that has the blob; NotFound is no error.   *)
Sweep(b) ==
    /\ gcpc = "sweep"
    /\ b \in victims \ reachable
    /\ \E be \in IF Owners(b) = {} THEN {Fallback} ELSE Owners(b) :
        blobs' = [blobs EXCEPT ![be] = @ \ {b}]
    /\ victims' = victims \ {b}
    /\ UNCHANGED <<manifests, known, push, gcpc, repos, left, todo, reachable, aborts, steady, quiet, lone>>

Report ==
    /\ gcpc = "sweep" /\ victims = {}
    /\ gcpc' = "done"
    /\ UNCHANGED <<store, push, repos, left, todo, reachable, victims, aborts, steady, quiet, lone>>

(* A storage error ends the run early, as does the end of the process.     *)
Abort ==
    /\ gcpc \in {"mark", "sweep"}
    /\ aborts < MaxAborts
    /\ aborts' = aborts + 1
    /\ gcpc' = "idle"
    /\ UNCHANGED <<store, push, repos, left, todo, reachable, victims, steady, quiet, lone>>

-----------------------------------------------------------------------------
Requests ==
    \/ \E c \in Client :
        \/ \E r \in Repo, m \in Manifest : StartPush(c, r, m)
        \/ \E b \in Blob : PushBlob(c, b)
        \/ PutManifest(c)
    \/ \E x \in manifests : DeleteManifest(x)
    \/ \E r \in Repo, b \in Blob : DeleteBlob(r, b)

Work ==
    \/ \E r \in Repo : ListManifests(r)
    \/ \E x \in Repo \X Manifest : MarkManifest(x)
    \/ ListBlobs
    \/ \E b \in Blob : Keep(b) \/ Sweep(b)
    \/ Report

Next == Requests \/ ListRepos \/ Work \/ Abort

Spec == Init /\ [][Next]_vars

(* The collector's task is scheduled, and an operator keeps starting it.   *)
FairSpec == Spec /\ WF_vars(Work) /\ WF_vars(ListRepos)

-----------------------------------------------------------------------------
(* Properties.                                                             *)

(* The collector never takes a blob from an image that was complete when   *)
(* it started and that no request touched since, whatever is pushed and    *)
(* deleted around it and wherever the image's repository is routed.        *)
SteadyKept == \A x \in steady : Complete(x)

(* A collector that ran alone has deleted every unreferenced blob there    *)
(* was one copy of, on whichever backend it was (locate_owner).            *)
QuietRunCollects ==
    gcpc = "done" => \A b \in lone : \A be \in Backend : b \notin blobs[be]

(* With copies on several backends one run deletes one copy. If requests   *)
(* cease and the collector is run again and again, the garbage on every    *)
(* backend that has a listed repository goes for good.                     *)
RepeatedRunsCollect ==
    <>[]quiet => <>[](\A r \in known \ Hidden : \A b \in blobs[Home[r]] : Referenced(b))

=============================================================================
