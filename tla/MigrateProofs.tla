--------------------------- MODULE MigrateProofs ---------------------------
(***************************************************************************)
(* What a migration keeps, whatever clients do meanwhile: for any number   *)
(* of volumes, repositories, tags, manifests, blobs, clients and runs.     *)
(***************************************************************************)
EXTENDS Migrate, SequenceTheorems, WellFoundedInduction, TLAPS

-----------------------------------------------------------------------------
(* Content.                                                                *)

BlobItems == {BlobItem(b) : b \in Blob}
ManifestItems == {ManifestItem(r, m) : r \in Repo, m \in Manifest}

LEMMA ContentParts == Content = BlobItems \cup ManifestItems
BY DEF Content, BlobItems, ManifestItems

LEMMA ItemFacts ==
    /\ \A i \in BlobItems : i.kind = "blob" /\ i.name \in Blob /\ i = BlobItem(i.name)
    /\ \A i \in ManifestItems : /\ i.kind = "manifest" /\ i.repo \in Repo /\ i.name \in Manifest
                                /\ i = ManifestItem(i.repo, i.name)
    /\ \A i \in TagItems : /\ i.kind = "tag" /\ i.repo \in Repo /\ i.name \in Tag
                           /\ i = TagItem(i.repo, i.name)
    /\ \A i \in Pointers : /\ i.kind = "pointer" /\ i.repo \in Repo /\ i.name \in Tag
                           /\ i.target \in Manifest
                           /\ i = Pointer(i.repo, i.name, i.target)
<1>1. \A i \in BlobItems : i.kind = "blob" /\ i.name \in Blob /\ i = BlobItem(i.name)
      BY DEF BlobItems, BlobItem
<1>2. \A i \in ManifestItems : /\ i.kind = "manifest" /\ i.repo \in Repo /\ i.name \in Manifest
                               /\ i = ManifestItem(i.repo, i.name)
      BY DEF ManifestItems, ManifestItem
<1>3. \A i \in TagItems : /\ i.kind = "tag" /\ i.repo \in Repo /\ i.name \in Tag
                          /\ i = TagItem(i.repo, i.name)
      BY DEF TagItems, TagItem
<1>4. \A i \in Pointers : /\ i.kind = "pointer" /\ i.repo \in Repo /\ i.name \in Tag
                          /\ i.target \in Manifest
                          /\ i = Pointer(i.repo, i.name, i.target)
      BY DEF Pointers, Pointer
<1> QED BY <1>1, <1>2, <1>3, <1>4

(* The kinds are apart, and a manifest's item names it.                    *)
LEMMA Kinds ==
    /\ \A i \in Content : i.kind = "manifest" => i \in ManifestItems
    /\ \A i \in Content : i.kind = "blob" => i \in BlobItems
    /\ \A i \in Content : i.kind # "manifest" => i \in BlobItems
    /\ Content \cap TagItems = {} /\ Content \cap Pointers = {}
    /\ BlobItems \cap ManifestItems = {}
    /\ \A r, m, q, n : ManifestItem(r, m) = ManifestItem(q, n) => r = q /\ m = n
    /\ \A r, m : ManifestItem(r, m).repo = r /\ ManifestItem(r, m).name = m
    /\ \A r, m : ManifestItem(r, m) \in Content => r \in Repo /\ m \in Manifest
<1>1. \A r, m : ManifestItem(r, m).repo = r /\ ManifestItem(r, m).name = m
                /\ ManifestItem(r, m).kind = "manifest"
      BY DEF ManifestItem
<1>2. \A i \in Content : i.kind = "manifest" => i \in ManifestItems
      BY ContentParts, ItemFacts
<1>3. \A i \in Content : i.kind # "manifest" => i \in BlobItems
      BY ContentParts, ItemFacts
<1>4. Content \cap TagItems = {} /\ Content \cap Pointers = {} /\ BlobItems \cap ManifestItems = {}
      BY ContentParts, ItemFacts
<1>5. \A r, m : ManifestItem(r, m) \in Content => r \in Repo /\ m \in Manifest
      BY <1>1, <1>2, ItemFacts
<1>6. \A r, m, q, n : ManifestItem(r, m) = ManifestItem(q, n) => r = q /\ m = n
      BY <1>1
<1> QED BY <1>1, <1>2, <1>3, <1>4, <1>5, <1>6

LEMMA BlobsType == \A m \in Manifest : Blobs(m) \subseteq BlobItems
BY ConstantsOK DEF Blobs, BlobItems

(* An image is its manifest and blobs.                                     *)
LEMMA ImageItems ==
    ASSUME NEW r \in Repo, NEW m \in Manifest
    PROVE  /\ Items(<<r, m>>) \subseteq Content
           /\ ManifestItem(r, m) \in Items(<<r, m>>) /\ ManifestItem(r, m) \in ManifestItems
           /\ \A q, n : ManifestItem(q, n) \in Items(<<r, m>>) => q = r /\ n = m
           /\ \A i \in Items(<<r, m>>) : i \in BlobItems \/ i = ManifestItem(r, m)
<1>1. Items(<<r, m>>) = Blobs(m) \cup {ManifestItem(r, m)}  BY DEF Items
<1>2. ManifestItem(r, m) \in ManifestItems  BY DEF ManifestItems
<1>3. \A q, n : ManifestItem(q, n) \notin BlobItems
  <2>1. \A q, n : ManifestItem(q, n).kind = "manifest"  BY DEF ManifestItem
  <2> QED BY <2>1, ItemFacts
<1> QED BY <1>1, <1>2, <1>3, BlobsType, ContentParts, Kinds

LEMMA ImagePair == \A x \in Image : x[1] \in Repo /\ x[2] \in Manifest /\ x = <<x[1], x[2]>>
BY DEF Image

-----------------------------------------------------------------------------
(* Backends.                                                               *)

LEMMA VolumesType == ASSUME NEW be \in Backend PROVE Volumes(be) \subseteq Volume
BY DEF Backend, Volumes

LEMMA OneVolume == \A v : Volumes(<<v>>) = {v}
BY DEF Volumes

LEMMA OnTop ==
    ASSUME NEW v \in Volume, NEW be \in Backend
    PROVE  /\ <<v>> \o be \in Backend /\ <<v>> \o be # <<>>
           /\ Volumes(<<v>> \o be) = {v} \cup Volumes(be)
           /\ be # <<>> => (<<v>> \o be)[Len(<<v>> \o be)] = be[Len(be)]
<1> DEFINE w == <<v>> \o be
<1>1. <<v>> \in Seq(Volume) /\ be \in Seq(Volume) /\ Len(<<v>>) = 1 /\ Len(be) \in Nat
      BY DEF Backend
<1>2. w \in Seq(Volume) /\ Len(w) = 1 + Len(be)  BY <1>1
<1>3. \A i \in 1..Len(w) : w[i] = IF i = 1 THEN v ELSE be[i - 1]  BY <1>1
<1>4. DOMAIN w = 1..Len(w) /\ DOMAIN be = 1..Len(be)  BY <1>1, <1>2
<1> HIDE DEF w
<1>5. Volumes(w) \subseteq {v} \cup Volumes(be)  BY <1>1, <1>2, <1>3, <1>4 DEF Volumes
<1>6. v \in Volumes(w)  BY <1>1, <1>2, <1>3, <1>4 DEF Volumes
<1>7. \A i \in 1..Len(be) : i + 1 \in 1..Len(w) /\ w[i + 1] = be[i]  BY <1>1, <1>2, <1>3
<1>8. Volumes(be) \subseteq Volumes(w)  BY <1>4, <1>7 DEF Volumes
<1>9. be # <<>> => w[Len(w)] = be[Len(be)]
  <2>1. be # <<>> => Len(be) > 0  BY <1>1
  <2> QED BY <1>1, <1>2, <1>3, <2>1
<1>10. w # <<>>  BY <1>1, <1>2
<1> QED BY <1>2, <1>5, <1>6, <1>8, <1>9, <1>10 DEF w, Backend

LEMMA AllParts ==
    ASSUME NEW be \in Backend, be # <<>>, Len(be) # 1
    PROVE  Volumes(be) \subseteq {Head(be)} \cup Volumes(Tail(be))
<1>1. be \in Seq(Volume) /\ Len(be) \in Nat /\ Len(be) > 0 /\ DOMAIN be = 1..Len(be)
      BY DEF Backend
<1>2. DOMAIN Tail(be) = 1..(Len(be) - 1) /\ \A i \in 1..(Len(be) - 1) : Tail(be)[i] = be[i + 1]
      BY <1>1
<1> SUFFICES ASSUME NEW i \in 1..Len(be), i # 1 PROVE be[i] \in Volumes(Tail(be))
    BY <1>1 DEF Volumes
<1>3. i - 1 \in 1..(Len(be) - 1) /\ be[i] = Tail(be)[i - 1]  BY <1>1, <1>2
<1> QED BY <1>2, <1>3 DEF Volumes

LEMMA Parts ==
    ASSUME NEW be \in Backend, be # <<>>
    PROVE  /\ Head(be) \in Volumes(be) /\ Head(be) \in Volume /\ Head(be) = be[1]
           /\ Len(be) = 1 => Head(be) = be[Len(be)]
           /\ Len(be) # 1 => /\ Tail(be) \in Backend /\ Tail(be) # <<>>
                             /\ Tail(be)[Len(Tail(be))] = be[Len(be)]
<1>1. be \in Seq(Volume) /\ Len(be) \in Nat /\ Len(be) > 0 /\ DOMAIN be = 1..Len(be)
      BY DEF Backend
<1>2. Head(be) = be[1] /\ be[1] \in Volume  BY <1>1
<1>3. Head(be) \in Volumes(be)  BY <1>1, <1>2 DEF Volumes
<1>4. CASE Len(be) # 1
  <2>1. Tail(be) \in Seq(Volume) /\ Len(Tail(be)) = Len(be) - 1  BY <1>1
  <2>2. \A i \in 1..Len(be) - 1 : Tail(be)[i] = be[i + 1]  BY <1>1
  <2>3. Len(be) - 1 \in 1..Len(be) - 1  BY <1>1, <1>4
  <2>4. Tail(be)[Len(Tail(be))] = be[Len(be)]  BY <1>1, <2>1, <2>2, <2>3
  <2>5. Tail(be) # <<>>  BY <1>1, <1>4, <2>1
  <2> QED BY <1>2, <1>3, <1>4, <2>1, <2>4, <2>5 DEF Backend
<1> QED BY <1>2, <1>3, <1>4

LEMMA LeastNatural == ASSUME NEW S \in SUBSET Nat, S # {} PROVE \E x \in S : \A y \in S : x <= y
<1>1. PICK x \in S : \A y \in S : ~(<<y, x>> \in OpToRel(<, Nat))
      BY NatLessThanWellFounded, WFMin
<1>2. \A y \in S : ~(y < x)  BY <1>1 DEF OpToRel
<1> QED BY <1>2

(* What a backend says a tag names, one of its volumes says.               *)
LEMMA TagViaOn ==
    ASSUME NEW be \in Backend, NEW r, NEW t, TagVia(be, r, t) # None
    PROVE  \E v \in Volumes(be) : TagVia(be, r, t) = TagOn(v, r, t)
<1> DEFINE hits == {i \in DOMAIN be : TagOn(be[i], r, t) # None}
           first == CHOOSE i \in hits : \A k \in hits : i <= k
<1>1. hits \in SUBSET Nat /\ hits \subseteq DOMAIN be  BY DEF Backend
<1>2. hits # {}  BY DEF TagVia
<1>3. TagVia(be, r, t) = TagOn(be[first], r, t)  BY <1>2 DEF TagVia
<1> HIDE DEF hits
<1>4. \E i \in hits : \A k \in hits : i <= k  BY <1>1, <1>2, LeastNatural
<1>5. first \in hits  BY <1>4
<1> QED BY <1>1, <1>3, <1>5 DEF Volumes

-----------------------------------------------------------------------------
(* Types.                                                                  *)

(* A volume that has a manifest has a directory of its repository.         *)
KnownOK == \A v \in Volume : \A r \in Repo, m \in Manifest :
              ManifestItem(r, m) \in content[v] => r \in known[v]

StoreOK ==
    /\ content \in [Volume -> SUBSET Content]
    /\ tags \in [Volume -> [Repo \X Tag -> Manifest \cup {None}]]
    /\ known \in [Volume -> SUBSET Repo]
    /\ KnownOK

(* A client pushes a manifest, and no call is left without a volume.       *)
CallOK(k) ==
    /\ k \in Call /\ k.via # <<>>
    /\ k.op \in Pushing => k.item = ManifestItem(k.repo, k.item.name)

CallsOK == /\ call \in [Client -> Call \cup {None}]
           /\ \A c \in Client : call[c] # None => CallOK(call[c])

Copying == {"backfill", "tags", "digests", "copy"}

JobOK ==
    /\ rule \in Backend /\ rule # <<>>
    /\ job \in [to : Volume, drain : BOOLEAN, old : Backend, repos : SUBSET Class]
    /\ job.old # <<>>
    /\ mpc = "listed" => rule = job.old
    /\ mpc \in Copying => rule = <<job.to>> \o job.old
    /\ mpc \in {"purge", "sweep", "done"} => rule = <<job.to>>

PhaseOK ==
    /\ mpc \in {"idle", "listed", "purge", "sweep", "done", "failed"} \cup Copying
    /\ left \subseteq job.repos /\ todo \subseteq Content \cup TagItems
    /\ want \subseteq Content /\ ptrs \subseteq Pointers
    /\ buf \in Content \cup Pointers \cup {None}
    /\ IF mpc \in {"tags", "digests", "copy"} THEN cur \in job.repos \ left
       ELSE cur = None /\ want = {} /\ ptrs = {}
    /\ mpc # "copy" => buf = None
    /\ mpc \notin {"tags", "digests", "purge", "sweep"} => todo = {}
    /\ mpc = "listed" => left = job.repos
    /\ mpc = "tags" => todo \subseteq TagItems
    /\ mpc = "digests" => todo \subseteq {ManifestItem(cur, m) : m \in Manifest}
    /\ mpc = "purge" => todo \subseteq {i \in ManifestItems \cup TagItems : i.repo \in Class}
    /\ mpc = "sweep" => todo \subseteq BlobItems /\ left = {}
    /\ \A item \in want \cup {buf} : item \in ManifestItems => item.repo = cur
    /\ \A ptr \in ptrs \cup {buf} : ptr \in Pointers => ptr.repo = cur
    /\ mpc \in {"purge", "sweep"} => job.drain

HistoryOK ==
    /\ runs \in 0..MaxRuns /\ fails \in 0..MaxFails /\ restarts \in 0..MaxRestarts
    /\ steady \subseteq Image /\ acked \subseteq Image
    /\ latest \in [Repo \X Tag -> Manifest \cup {None}]
    /\ quiet \in BOOLEAN /\ missed \in BOOLEAN

TypeInv == StoreOK /\ CallsOK /\ JobOK /\ PhaseOK /\ HistoryOK

LEMMA RepoFacts == Class \subseteq Repo
                   /\ None \notin Repo \cup Manifest \cup Content \cup Pointers
                   /\ Origin \in Volume /\ Target \subseteq Volume /\ Drains \subseteq BOOLEAN
BY ConstantsOK

LEMMA TypesTogether == TypeInv => TypeOK
<1> SUFFICES ASSUME TypeInv PROVE TypeOK  OBVIOUS
<1>1. cur \in Class \cup {None}  BY DEF TypeInv, JobOK, PhaseOK
<1>2. mpc \in {"idle", "listed", "backfill", "tags", "digests", "copy", "purge", "sweep",
               "done", "failed"}
      BY DEF TypeInv, PhaseOK, Copying
<1> QED BY <1>1, <1>2 DEF TypeInv, StoreOK, CallsOK, JobOK, PhaseOK, HistoryOK, TypeOK

-----------------------------------------------------------------------------
(* Which actions touch what.                                               *)

LEMMA NextCases ==
    ASSUME [Next]_vars
    PROVE  Requests \/ (\E to \in Target, drain \in Drains : Start(to, drain)) \/ Step
           \/ Fail \/ Restart \/ UNCHANGED vars
BY DEF Next

(* The steps of the copy that find out what to do, those that change the   *)
(* rule, and those that write.                                             *)
Plan ==
    \/ \E r \in Class : CopyRepo(r)
    \/ \E item \in TagItems : ReadTag(item)
    \/ ListDigests
    \/ \E item \in Content : ReadDigest(item)
    \/ StartCopy
    \/ \E item \in Content : FetchItem(item)
    \/ \E ptr \in Pointers : FetchTag(ptr)
    \/ EndRepo
    \/ \E r \in Class : PurgeRepo(r)
    \/ Mark
    \/ Done

Write == StoreItem \/ StoreTag

Clear == (\E item \in Content \cup TagItems : Purge(item)) \/ (\E item \in Content : Sweep(item))

LEMMA StepCases == Step => Overlay \/ Collapse \/ Plan \/ Write \/ Clear
BY DEF Step, Plan, Write, Clear

LEMMA PlanKeeps == Plan => UNCHANGED <<store, rule, call, job, bounds, history>>
BY DEF Plan, CopyRepo, ReadTag, ListDigests, ReadDigest, StartCopy, FetchItem, FetchTag, EndRepo,
   PurgeRepo, Mark, Done

LEMMA StepKeeps ==
    /\ Overlay => UNCHANGED <<store, call, job, copying, bounds, history>>
    /\ Collapse => UNCHANGED <<store, call, job, cur, todo, want, ptrs, buf, bounds, history>>
    /\ Write => UNCHANGED <<rule, call, mpc, job, left, cur, todo, want, ptrs, bounds, history>>
    /\ Clear => UNCHANGED <<rule, call, mpc, job, left, cur, want, ptrs, buf, bounds, history>>
BY DEF Overlay, Collapse, Write, StoreItem, StoreTag, Clear, Purge, Sweep

LEMMA RequestKeeps ==
    Requests => UNCHANGED <<rule, mpc, job, copying, bounds>> /\ quiet' = FALSE
BY DEF Requests, StartPush, PushBlobs, StartPut, FinishPut, StartRead, ReadVolume, StartDelete,
   DeleteOnVolume, GiveUp

LEMMA OtherKeeps ==
    /\ \A to, drain : Start(to, drain) =>
          UNCHANGED <<store, rule, call, cur, todo, want, ptrs, buf, fails, restarts,
                      acked, latest, missed>>
    /\ Fail => UNCHANGED <<store, rule, call, job, runs, restarts, history>>
    /\ Restart => UNCHANGED <<store, job, runs, fails, history>>
BY DEF Start, Fail, Restart

(* Only a call that deletes, a purge or a sweep removes anything, and only *)
(* the call's push or the migration's copy adds anything.                  *)
LEMMA StoreMoves ==
    ASSUME [Next]_vars
    PROVE  \/ UNCHANGED store
           \/ \E c \in Client : PushBlobs(c) \/ FinishPut(c) \/ DeleteOnVolume(c)
           \/ Write
           \/ Clear
<1>1. CASE Requests
      BY <1>1 DEF Requests, StartPush, StartPut, StartRead, ReadVolume, StartDelete, GiveUp
<1>2. CASE \E to \in Target, drain \in Drains : Start(to, drain)  BY <1>2, OtherKeeps
<1>3. CASE Step  BY <1>3, StepCases, StepKeeps, PlanKeeps
<1>4. CASE Fail  BY <1>4, OtherKeeps
<1>5. CASE Restart  BY <1>5, OtherKeeps
<1>6. CASE UNCHANGED vars  BY <1>6 DEF vars
<1> QED BY <1>1, <1>2, <1>3, <1>4, <1>5, <1>6, NextCases

(* Requests move calls; a restart forgets them.                            *)
LEMMA CallMoves ==
    ASSUME [Next]_vars
    PROVE  Requests \/ Restart \/ UNCHANGED <<call, steady, acked, latest, missed>>
           \/ \E to \in Target, drain \in Drains : Start(to, drain)
<1>3. CASE Step  BY <1>3, StepCases, StepKeeps, PlanKeeps DEF history
<1>4. CASE Fail  BY <1>4, OtherKeeps DEF history
<1>6. CASE UNCHANGED vars  BY <1>6 DEF vars, history
<1> QED BY <1>3, <1>4, <1>6, NextCases

-----------------------------------------------------------------------------
(* What is written and removed.                                            *)

LEMMA Removes ==
    ASSUME StoreOK, NEW vs \in SUBSET Volume, NEW item \in Content \cup TagItems,
           Remove(vs, item)
    PROVE  /\ StoreOK'
           /\ \A v \in Volume : /\ content'[v] \subseteq content[v]
                                /\ content[v] \subseteq content'[v] \cup {item}
                                /\ v \in vs => item \notin content'[v]
                                /\ v \notin vs => content'[v] = content[v]
<1>1. content' = [v \in Volume |-> IF v \in vs THEN content[v] \ {item} ELSE content[v]]
      BY DEF Remove
<1>2. content' \in [Volume -> SUBSET Content]  BY <1>1 DEF StoreOK
<1>3. tags' \in [Volume -> [Repo \X Tag -> Manifest \cup {None}]]
  <2>1. CASE item.kind # "tag"  BY <2>1 DEF Remove, StoreOK
  <2>2. CASE item.kind = "tag"
    <3>1. \A v \in Volume : [tags[v] EXCEPT ![<<item.repo, item.name>>] = None]
                                \in [Repo \X Tag -> Manifest \cup {None}]
          BY DEF StoreOK
    <3>2. tags' = [v \in Volume |-> IF v \in vs
                      THEN [tags[v] EXCEPT ![<<item.repo, item.name>>] = None] ELSE tags[v]]
          BY <2>2 DEF Remove
    <3> QED BY <3>1, <3>2 DEF StoreOK
  <2> QED BY <2>1, <2>2
<1>4. known' = known  BY DEF Remove
<1>5. KnownOK'  BY <1>1, <1>4 DEF StoreOK, KnownOK
<1> QED BY <1>1, <1>2, <1>3, <1>4, <1>5 DEF StoreOK

LEMMA Puts ==
    ASSUME StoreOK, NEW v \in Volume, NEW r \in Repo, NEW t, NEW m \in Manifest,
           PutManifest(v, r, t, m)
    PROVE  /\ StoreOK'
           /\ content' = [content EXCEPT ![v] = content[v] \cup {ManifestItem(r, m)}]
           /\ \A w \in Volume : content[w] \subseteq content'[w]
           /\ \A w \in Volume : w # v => content'[w] = content[w]
           /\ content'[v] = content[v] \cup {ManifestItem(r, m)}
<1>1. ManifestItem(r, m) \in Content  BY ImageItems
<1>2. content' = [content EXCEPT ![v] = content[v] \cup {ManifestItem(r, m)}]
      BY DEF PutManifest
<1>3. content' \in [Volume -> SUBSET Content]  BY <1>1, <1>2 DEF StoreOK
<1>4. known' = [known EXCEPT ![v] = known[v] \cup {r}]  BY DEF PutManifest
<1>5. known' \in [Volume -> SUBSET Repo]  BY <1>4 DEF StoreOK
<1>6. tags' \in [Volume -> [Repo \X Tag -> Manifest \cup {None}]]
  <2>1. CASE t \notin Tag  BY <2>1 DEF PutManifest, StoreOK
  <2>2. CASE t \in Tag
    <3>1. [tags[v] EXCEPT ![<<r, t>>] = m] \in [Repo \X Tag -> Manifest \cup {None}]
          BY DEF StoreOK
    <3>2. tags' = [tags EXCEPT ![v] = [tags[v] EXCEPT ![<<r, t>>] = m]]
          BY <2>2 DEF PutManifest
    <3> QED BY <3>1, <3>2 DEF StoreOK
  <2> QED BY <2>1, <2>2
<1>7. KnownOK'
  <2> SUFFICES ASSUME NEW w \in Volume, NEW q \in Repo, NEW n \in Manifest,
                      ManifestItem(q, n) \in content'[w]
               PROVE  q \in known'[w]
      BY DEF KnownOK
  <2>1. CASE ManifestItem(q, n) \in content[w]  BY <1>4, <2>1 DEF StoreOK, KnownOK
  <2>2. CASE ManifestItem(q, n) \notin content[w]
    <3>1. w = v /\ ManifestItem(q, n) = ManifestItem(r, m)  BY <1>2, <2>2 DEF StoreOK
    <3>2. q = r  BY <3>1, Kinds
    <3> QED BY <1>4, <3>1, <3>2 DEF StoreOK
  <2> QED BY <2>1, <2>2
<1> QED BY <1>2, <1>3, <1>5, <1>6, <1>7 DEF StoreOK

LEMMA AddsBlobs ==
    ASSUME StoreOK, NEW v \in Volume, NEW S \in SUBSET BlobItems,
           content' = [content EXCEPT ![v] = content[v] \cup S], UNCHANGED <<tags, known>>
    PROVE  /\ StoreOK'
           /\ \A w \in Volume : content[w] \subseteq content'[w]
           /\ \A w \in Volume : w # v => content'[w] = content[w]
           /\ content'[v] = content[v] \cup S
<1>1. S \subseteq Content  BY ContentParts
<1>2. content' \in [Volume -> SUBSET Content]  BY <1>1 DEF StoreOK
<1>3. ASSUME NEW w \in Volume, NEW q \in Repo, NEW n \in Manifest,
             ManifestItem(q, n) \in content'[w]
      PROVE  q \in known'[w]
  <2>1. ManifestItem(q, n) \notin BlobItems  BY Kinds, ImageItems
  <2> QED BY <1>3, <2>1 DEF StoreOK, KnownOK
<1>4. KnownOK'  BY <1>3 DEF KnownOK
<1> QED BY <1>2, <1>4 DEF StoreOK

(* A call's fields.                                                        *)
LEMMA CallFields ==
    ASSUME CallsOK, NEW c \in Client, call[c] # None
    PROVE  /\ call[c].op \in Pushing \cup {"read", "delete"}
           /\ call[c].repo \in Repo /\ call[c].via \in Backend /\ call[c].via # <<>>
           /\ call[c].item \in Content \cup TagItems
           /\ call[c].op \in Pushing =>
                 /\ call[c].item = ManifestItem(call[c].repo, call[c].item.name)
                 /\ call[c].item.name \in Manifest /\ call[c].tag \in Tag
<1>1. CallOK(call[c]) /\ call[c] \in Call  BY DEF CallsOK, CallOK
<1>2. call[c].op \in Pushing => call[c].tag \in Tag  BY <1>1 DEF Call, Pushing
<1>3. call[c].op \in Pushing => call[c].item \in Content  BY <1>1 DEF Call, Pushing
<1>4. call[c].op \in Pushing => call[c].item.name \in Manifest
      BY <1>1, <1>3, Kinds DEF CallOK
<1> QED BY <1>1, <1>2, <1>4 DEF CallOK, Call, Pushing

(* A push writes to one volume: blobs of its manifest, or the manifest.    *)
LEMMA PushBlobsAdds ==
    ASSUME StoreOK, CallsOK, NEW c \in Client, PushBlobs(c)
    PROVE  /\ StoreOK'
           /\ \A w \in Volume : content[w] \subseteq content'[w]
           /\ \A w \in Volume : content'[w] \subseteq content[w] \cup BlobItems
<1> DEFINE S == {item \in Blobs(call[c].item.name) : ~Has(call[c].via, item)}
<1>1. call[c] # None /\ call[c].op \in Pushing  BY DEF PushBlobs, Pushing
<1>2. S \in SUBSET BlobItems  BY <1>1, CallFields, BlobsType
<1>3. Head(call[c].via) \in Volume  BY <1>1, CallFields, Parts
<1>4. content' = [content EXCEPT ![Head(call[c].via)] = content[Head(call[c].via)] \cup S]
      /\ UNCHANGED <<tags, known>>
      BY DEF PushBlobs
<1> HIDE DEF S
<1>5. PICK v \in Volume : v = Head(call[c].via)  BY <1>3
<1>6. content' = [content EXCEPT ![v] = content[v] \cup S]  BY <1>4, <1>5
<1>7. \A w \in Volume : content'[w] \subseteq content[w] \cup S  BY <1>6 DEF StoreOK
<1> QED BY <1>2, <1>4, <1>6, <1>7, AddsBlobs

LEMMA FinishPutAdds ==
    ASSUME StoreOK, CallsOK, NEW c \in Client, FinishPut(c)
    PROVE  /\ StoreOK'
           /\ call[c].item \in ManifestItems /\ call[c].item.repo = call[c].repo
           /\ \A w \in Volume : content[w] \subseteq content'[w]
           /\ \A w \in Volume : content'[w] \subseteq content[w] \cup {call[c].item}
<1>1. call[c] # None /\ call[c].op \in Pushing  BY DEF FinishPut, Pushing
<1>2. Head(call[c].via) \in Volume  BY <1>1, CallFields, Parts
<1>3. /\ call[c].repo \in Repo /\ call[c].item.name \in Manifest
      /\ call[c].item = ManifestItem(call[c].repo, call[c].item.name)
      BY <1>1, CallFields
<1>4. PutManifest(Head(call[c].via), call[c].repo, call[c].tag, call[c].item.name)
      BY DEF FinishPut
<1>5. PICK v \in Volume, r \in Repo, m \in Manifest :
            v = Head(call[c].via) /\ r = call[c].repo /\ m = call[c].item.name
      BY <1>2, <1>3
<1>6. call[c].item = ManifestItem(r, m) /\ PutManifest(v, r, call[c].tag, m)
      BY <1>3, <1>4, <1>5
<1>7. ManifestItem(r, m) \in ManifestItems /\ ManifestItem(r, m).repo = r  BY ImageItems, Kinds
<1>8. /\ StoreOK'
      /\ \A w \in Volume : content[w] \subseteq content'[w]
      /\ \A w \in Volume : content'[w] \subseteq content[w] \cup {ManifestItem(r, m)}
  <2>1. PutManifest(v, r, call[c].tag, m)  BY <1>6
  <2> QED BY <2>1, Puts
<1> QED BY <1>5, <1>6, <1>7, <1>8

LEMMA DeleteRemoves ==
    ASSUME StoreOK, CallsOK, NEW c \in Client, DeleteOnVolume(c)
    PROVE  /\ StoreOK' /\ call[c] # None /\ call[c].op = "delete"
           /\ \A w \in Volume : /\ content'[w] \subseteq content[w]
                                /\ content[w] \subseteq content'[w] \cup {call[c].item}
<1>1. call[c] # None /\ call[c].op = "delete" /\ Remove({Head(call[c].via)}, call[c].item)
      BY DEF DeleteOnVolume
<1>2. Head(call[c].via) \in Volume /\ call[c].item \in Content \cup TagItems
      BY <1>1, CallFields, Parts
<1>3. PICK vs \in SUBSET Volume, item \in Content \cup TagItems :
            vs = {Head(call[c].via)} /\ item = call[c].item
      BY <1>2
<1>4. Remove(vs, item)  BY <1>1, <1>3
<1>5. StoreOK' /\ \A w \in Volume : /\ content'[w] \subseteq content[w]
                                    /\ content[w] \subseteq content'[w] \cup {item}
      BY <1>4, Removes
<1> QED BY <1>1, <1>3, <1>5

(* The copy writes what it holds, on the destination.                      *)
LEMMA WriteAdds ==
    ASSUME StoreOK, JobOK, PhaseOK, Write
    PROVE  /\ StoreOK' /\ mpc = "copy" /\ buf' = None
           /\ \A w \in Volume : content[w] \subseteq content'[w]
           /\ \A w \in Volume : w # job.to => content'[w] = content[w]
           /\ buf \in Content => content'[job.to] = content[job.to] \cup {buf}
           /\ \A i \in content'[job.to] :
                 i \in content[job.to] \/ i \in BlobItems \/ (i \in ManifestItems /\ i.repo = cur)
<1>1. mpc = "copy" /\ buf \in Content \cup Pointers /\ buf' = None
      BY DEF Write, StoreItem, StoreTag
<1>2. cur \in Repo /\ job.to \in Volume  BY <1>1, RepoFacts DEF JobOK, PhaseOK
<1>3. CASE StoreItem /\ buf.kind # "manifest"
  <2>1. buf \in BlobItems /\ {buf} \in SUBSET BlobItems  BY <1>3, Kinds DEF StoreItem
  <2>2. content' = [content EXCEPT ![job.to] = content[job.to] \cup {buf}]
        /\ UNCHANGED <<tags, known>>
        BY <1>3 DEF StoreItem
  <2>3. PICK v \in Volume, S \in SUBSET BlobItems : v = job.to /\ S = {buf}  BY <1>2, <2>1
  <2>4. content' = [content EXCEPT ![v] = content[v] \cup S] /\ UNCHANGED <<tags, known>>
        BY <2>2, <2>3
  <2>5. /\ StoreOK'
        /\ \A w \in Volume : content[w] \subseteq content'[w]
        /\ \A w \in Volume : w # v => content'[w] = content[w]
        /\ content'[v] = content[v] \cup S
        BY <2>4, AddsBlobs
  <2> QED BY <1>1, <2>1, <2>3, <2>5
<1>4. CASE StoreItem /\ buf.kind = "manifest"
  <2>1. buf \in ManifestItems /\ buf.repo = cur  BY <1>4, Kinds DEF StoreItem, PhaseOK
  <2>2. buf = ManifestItem(cur, buf.name) /\ buf.name \in Manifest  BY <2>1, ItemFacts
  <2>3. PutManifest(job.to, cur, None, buf.name)  BY <1>4 DEF StoreItem
  <2> QED BY <1>1, <1>2, <2>1, <2>2, <2>3, Puts
<1>5. CASE StoreTag
  <2>1. buf \in Pointers /\ buf \notin Content  BY <1>5, Kinds DEF StoreTag
  <2>2. buf.target \in Manifest  BY <2>1, ItemFacts
  <2>3. PutManifest(job.to, cur, buf.name, buf.target)  BY <1>5 DEF StoreTag
  <2>4. ManifestItem(cur, buf.target) \in ManifestItems /\ ManifestItem(cur, buf.target).repo = cur
        BY <1>2, <2>2, ImageItems, Kinds
  <2> QED BY <1>1, <1>2, <2>1, <2>2, <2>3, <2>4, Puts
<1> QED BY <1>3, <1>4, <1>5 DEF Write

(* The drain removes manifests and tags of the class, then blobs.          *)
LEMMA ClearRemoves ==
    ASSUME StoreOK, JobOK, PhaseOK, Clear
    PROVE  /\ StoreOK' /\ mpc \in {"purge", "sweep"}
           /\ \E item \in todo :
                 /\ todo' = todo \ {item}
                 /\ mpc = "purge" => item \in ManifestItems \cup TagItems /\ item.repo \in Class
                 /\ mpc = "sweep" => item \in BlobItems
                 /\ \A w \in Volume : /\ content'[w] \subseteq content[w]
                                      /\ content[w] \subseteq content'[w] \cup {item}
                                      /\ w \in Volumes(job.old) => item \notin content'[w]
                                      /\ w \notin Volumes(job.old) => content'[w] = content[w]
<1>1. PICK item \in todo : /\ Remove(Volumes(job.old), item) /\ todo' = todo \ {item}
                           /\ mpc \in {"purge", "sweep"}
      BY DEF Clear, Purge, Sweep
<1>2. Volumes(job.old) \in SUBSET Volume  BY VolumesType DEF JobOK
<1>3. item \in Content \cup TagItems  BY DEF PhaseOK
<1>4. /\ mpc = "purge" => item \in ManifestItems \cup TagItems /\ item.repo \in Class
      /\ mpc = "sweep" => item \in BlobItems
      BY <1>1 DEF PhaseOK
<1> QED BY <1>1, <1>2, <1>3, <1>4, Removes

LEMMA StoreStep == ASSUME TypeInv, [Next]_vars PROVE StoreOK'
<1> USE DEF TypeInv
<1>1. CASE UNCHANGED store  BY <1>1 DEF store, StoreOK, KnownOK
<1>2. CASE \E c \in Client : PushBlobs(c) \/ FinishPut(c) \/ DeleteOnVolume(c)
      BY <1>2, PushBlobsAdds, FinishPutAdds, DeleteRemoves
<1> QED BY <1>1, <1>2, StoreMoves, WriteAdds, ClearRemoves

-----------------------------------------------------------------------------
(* The other variables keep their types.                                   *)

LEMMA Resolved ==
    ASSUME JobOK, NEW r
    PROVE  resolve(r) \in Backend /\ resolve(r) # <<>>
BY RepoFacts DEF JobOK, resolve, Backend

LEMMA NewCall ==
    ASSUME CallsOK, NEW c \in Client, NEW k, CallOK(k) \/ k = None,
           call' = [call EXCEPT ![c] = k]
    PROVE  CallsOK'
<1>1. call' \in [Client -> Call \cup {None}]  BY DEF CallsOK, CallOK
<1>2. \A d \in Client : call'[d] = IF d = c THEN k ELSE call[d]  BY DEF CallsOK
<1>3. \A d \in Client : call'[d] # None => CallOK(call'[d])  BY <1>2 DEF CallsOK
<1> QED BY <1>1, <1>3 DEF CallsOK, CallOK

(* The next volume of a call, or its end.                                  *)
LEMMA NextVolume ==
    ASSUME CallsOK, NEW c \in Client, call[c] # None, call[c].op \in {"read", "delete"},
           Len(call[c].via) # 1
    PROVE  /\ CallOK([call[c] EXCEPT !.via = Tail(call[c].via)])
           /\ [call[c] EXCEPT !.via = Tail(call[c].via)].via = Tail(call[c].via)
<1>1. Tail(call[c].via) \in Backend /\ Tail(call[c].via) # <<>>  BY CallFields, Parts
<1>2. call[c] \in [op : {"read", "delete"}, repo : Repo, item : Content \cup TagItems,
                   via : Backend]
      BY DEF CallsOK, CallOK, Call
<1>3. PICK be \in Backend : be = Tail(call[c].via)  BY <1>1
<1>4. [call[c] EXCEPT !.via = be] \in Call  BY <1>2 DEF Call
<1>5. /\ [call[c] EXCEPT !.via = be].op = call[c].op
      /\ [call[c] EXCEPT !.via = be].via = be
      BY <1>2
<1> QED BY <1>1, <1>3, <1>4, <1>5 DEF CallOK, Pushing

LEMMA CallsStep == ASSUME TypeInv, [Next]_vars PROVE CallsOK'
<1> USE DEF TypeInv
<1>1. ASSUME NEW c \in Client, NEW r \in Repo, NEW t \in Tag, NEW m \in Manifest,
             StartPush(c, r, t, m)
      PROVE  CallsOK'
  <2>1. PICK be \in Backend : be = resolve(r) /\ be # <<>>  BY Resolved
  <2>2. PICK i \in Content : i = ManifestItem(r, m) /\ i.name = m  BY ImageItems, Kinds
  <2> DEFINE k == [op |-> "blob", repo |-> r, item |-> i, tag |-> t, via |-> be]
  <2>3. CallOK(k)  BY <2>1, <2>2 DEF CallOK, Call, Pushing
  <2>4. call' = [call EXCEPT ![c] = k]  BY <1>1, <2>1, <2>2 DEF StartPush
  <2> HIDE DEF k
  <2> QED BY <2>3, <2>4, NewCall
<1>2. ASSUME NEW c \in Client, PushBlobs(c) PROVE CallsOK'
  <2>1. call[c] # None /\ call[c].op = "blob"  BY <1>2 DEF PushBlobs
  <2>2. call[c] \in [op : {"blob", "blobbed", "manifest"}, repo : Repo, item : Content,
                     tag : Tag, via : Backend]
        BY <2>1 DEF CallsOK, CallOK, Call
  <2> DEFINE k == [call[c] EXCEPT !.op = "blobbed"]
  <2>3. k \in Call /\ k.via = call[c].via /\ k.item = call[c].item /\ k.repo = call[c].repo
        BY <2>2 DEF Call
  <2>4. CallOK(k)  BY <2>1, <2>3 DEF CallsOK, CallOK, Pushing
  <2>5. call' = [call EXCEPT ![c] = k]  BY <1>2 DEF PushBlobs
  <2> HIDE DEF k
  <2> QED BY <2>4, <2>5, NewCall
<1>3. ASSUME NEW c \in Client, StartPut(c) PROVE CallsOK'
  <2>1. call[c] # None /\ call[c].op = "blobbed"  BY <1>3 DEF StartPut
  <2>2. call[c] \in [op : {"blob", "blobbed", "manifest"}, repo : Repo, item : Content,
                     tag : Tag, via : Backend]
        BY <2>1 DEF CallsOK, CallOK, Call
  <2>3. PICK be \in Backend : be = resolve(call[c].repo) /\ be # <<>>  BY Resolved
  <2> DEFINE k == [call[c] EXCEPT !.op = "manifest", !.via = be]
  <2>4. k \in Call /\ k.via = be /\ k.item = call[c].item /\ k.repo = call[c].repo
        BY <2>2 DEF Call
  <2>5. CallOK(k)  BY <2>1, <2>3, <2>4 DEF CallsOK, CallOK, Pushing
  <2>6. call' = [call EXCEPT ![c] = k]  BY <1>3, <2>3 DEF StartPut, CallsOK
  <2> HIDE DEF k
  <2> QED BY <2>5, <2>6, NewCall
<1>4. ASSUME NEW c \in Client, FinishPut(c) \/ GiveUp(c) PROVE CallsOK'
  <2>1. call' = [call EXCEPT ![c] = None]  BY <1>4 DEF FinishPut, GiveUp
  <2> QED BY <2>1, NewCall
<1>5. ASSUME NEW c \in Client, NEW r \in Repo, NEW i \in Content \cup TagItems,
             StartRead(c, r, i) \/ StartDelete(c, r, i)
      PROVE  CallsOK'
  <2>1. PICK be \in Backend : be = resolve(r) /\ be # <<>>  BY Resolved
  <2>2. PICK op \in {"read", "delete"} :
            call' = [call EXCEPT ![c] = [op |-> op, repo |-> r, item |-> i, via |-> be]]
        BY <1>5, <2>1 DEF StartRead, StartDelete
  <2> DEFINE k == [op |-> op, repo |-> r, item |-> i, via |-> be]
  <2>3. CallOK(k)  BY <2>1 DEF CallOK, Call, Pushing
  <2>4. call' = [call EXCEPT ![c] = k]  BY <2>2
  <2> HIDE DEF k
  <2> QED BY <2>3, <2>4, NewCall
<1>6. ASSUME NEW c \in Client, ReadVolume(c) \/ DeleteOnVolume(c) PROVE CallsOK'
  <2>1. call[c] # None /\ call[c].op \in {"read", "delete"}
        BY <1>6 DEF ReadVolume, DeleteOnVolume
  <2>2. \/ call' = [call EXCEPT ![c] = None]
        \/ /\ Len(call[c].via) # 1
           /\ call' = [call EXCEPT ![c] = [call[c] EXCEPT !.via = Tail(call[c].via)]]
        BY <1>6 DEF ReadVolume, DeleteOnVolume
  <2>3. CASE call' = [call EXCEPT ![c] = None]  BY <2>3, NewCall
  <2>4. CASE Len(call[c].via) # 1
             /\ call' = [call EXCEPT ![c] = [call[c] EXCEPT !.via = Tail(call[c].via)]]
    <3>1. CallOK([call[c] EXCEPT !.via = Tail(call[c].via)])  BY <2>1, <2>4, NextVolume
    <3> QED BY <2>4, <3>1, NewCall
  <2> QED BY <2>2, <2>3, <2>4
<1>7. CASE Requests  BY <1>1, <1>2, <1>3, <1>4, <1>5, <1>6, <1>7 DEF Requests
<1>8. CASE Restart  BY <1>8 DEF Restart, CallsOK, CallOK
<1>9. CASE UNCHANGED call  BY <1>9 DEF CallsOK, CallOK
<1> QED BY <1>7, <1>8, <1>9, CallMoves, OtherKeeps

(* An ended migration holds nothing.                                       *)
LEMMA EndOK ==
    ASSUME JobOK, PhaseOK, NEW how \in {"failed", "idle"}, End(how), job' = job,
           rule' \in Backend, rule' # <<>>
    PROVE  JobOK' /\ PhaseOK'
<1>1. /\ mpc' = how /\ left' = {} /\ cur' = None /\ todo' = {} /\ want' = {} /\ ptrs' = {}
      /\ buf' = None
      BY DEF End
<1>2. None \notin ManifestItems \cup Pointers  BY RepoFacts, ContentParts
<1> QED BY <1>1, <1>2 DEF JobOK, PhaseOK, Copying

(* What a tag is found to name is a manifest.                              *)
LEMMA TagNames ==
    ASSUME StoreOK, NEW be \in Backend, NEW r \in Repo, NEW t \in Tag, TagVia(be, r, t) # None
    PROVE  TagVia(be, r, t) \in Manifest
<1>1. PICK v \in Volumes(be) : TagVia(be, r, t) = TagOn(v, r, t)  BY TagViaOn
<1>2. v \in Volume  BY VolumesType
<1>3. tags[v][<<r, t>>] \in Manifest \cup {None}  BY <1>2 DEF StoreOK
<1> QED BY <1>1, <1>3 DEF TagOn

(* What is listed is there.                                                *)
LEMMA ListedItems ==
    ASSUME StoreOK, NEW be \in Backend, NEW r \in Repo
    PROVE  /\ list_tags(be, r) \subseteq {i \in TagItems : i.repo = r}
           /\ \A i : i \in list_manifest_digests(be, r) <=>
                  \E m \in Manifest : i = ManifestItem(r, m) /\ Has(be, i)
<1>1. Volumes(be) \subseteq Volume  BY VolumesType
<1>2. \A t \in Tag : TagItem(r, t) \in TagItems /\ TagItem(r, t).repo = r
      BY DEF TagItems, TagItem
<1>3. list_tags(be, r) \subseteq {i \in TagItems : i.repo = r}  BY <1>2 DEF list_tags
<1>4. ASSUME NEW i, i \in list_manifest_digests(be, r)
      PROVE  \E m \in Manifest : i = ManifestItem(r, m) /\ Has(be, i)
  <2>1. i.kind = "manifest" /\ i.repo = r /\ Has(be, i)
        BY <1>4 DEF list_manifest_digests, Has
  <2>2. i \in Content  BY <1>1, <2>1 DEF Has, StoreOK
  <2> QED BY <2>1, <2>2, Kinds, ItemFacts
<1>5. ASSUME NEW m \in Manifest, Has(be, ManifestItem(r, m))
      PROVE  ManifestItem(r, m) \in list_manifest_digests(be, r)
  <2>1. ManifestItem(r, m).kind = "manifest" /\ ManifestItem(r, m).repo = r  BY DEF ManifestItem
  <2> QED BY <1>5, <2>1 DEF list_manifest_digests, Has
<1> QED BY <1>3, <1>4, <1>5

(* The migration's rule, list and phase.                                   *)
LEMMA PhaseStep == ASSUME TypeInv, [Next]_vars PROVE JobOK' /\ PhaseOK'
<1> USE DEF TypeInv
<1>1. CASE Requests
      BY <1>1, RequestKeeps DEF copying, JobOK, PhaseOK
<1>2. ASSUME NEW to \in Target, NEW drain \in Drains, Start(to, drain)
      PROVE  JobOK' /\ PhaseOK'
  <2> DEFINE repos == list_repos(rule) \cap Class
  <2>1. /\ mpc \in {"idle", "done", "failed"} /\ mpc' = "listed"
        /\ job' = [to |-> to, drain |-> drain, old |-> rule, repos |-> repos]
        /\ left' = repos /\ rule' = rule
        /\ UNCHANGED <<cur, todo, want, ptrs, buf>>
        BY <1>2 DEF Start
  <2>2. repos \in SUBSET Class  OBVIOUS
  <2> HIDE DEF repos
  <2>3. to \in Volume /\ drain \in BOOLEAN  BY RepoFacts
  <2>4. JobOK'  BY <2>1, <2>2, <2>3 DEF JobOK, Copying
  <2>5. job'.repos = repos  BY <2>1
  <2>6. cur = None /\ todo = {} /\ want = {} /\ ptrs = {} /\ buf = None
        BY <2>1 DEF PhaseOK
  <2>7. None \notin ManifestItems  BY RepoFacts, ContentParts
  <2>8. PhaseOK'  BY <2>1, <2>2, <2>5, <2>6, <2>7 DEF PhaseOK, Copying
  <2> QED BY <2>4, <2>8
<1>3. CASE Overlay
  <2>1. /\ mpc = "listed" /\ mpc' = "backfill" /\ rule' = <<job.to>> \o job.old
        /\ UNCHANGED <<job, copying>>
        BY <1>3 DEF Overlay
  <2>2. rule' \in Backend /\ rule' # <<>>  BY <2>1, OnTop DEF JobOK
  <2>3. JobOK'  BY <2>1, <2>2 DEF JobOK, Copying
  <2>4. PhaseOK'  BY <2>1 DEF PhaseOK, Copying, copying
  <2> QED BY <2>3, <2>4
<1>4. CASE Collapse
  <2>1. /\ mpc = "backfill" /\ rule' = <<job.to>>
        /\ mpc' = IF job.drain THEN "purge" ELSE "done"
        /\ left' = IF job.drain THEN job.repos ELSE {}
        /\ UNCHANGED <<job, cur, todo, want, ptrs, buf>>
        BY <1>4 DEF Collapse
  <2>2. JobOK'  BY <2>1 DEF JobOK, Copying, Backend
  <2>3. todo = {}  BY <2>1 DEF PhaseOK
  <2>4. PhaseOK'  BY <2>1, <2>3 DEF PhaseOK, Copying
  <2> QED BY <2>2, <2>4
<1>5. CASE Plan
  <2> DEFINE steps == {"copy", "tags", "digests", "backfill"}
  <2>1. UNCHANGED <<rule, job>>  BY <1>5, PlanKeeps
  <2>2. job.old \in Backend /\ job.repos \subseteq Class /\ Class \subseteq Repo
        /\ None \notin ManifestItems \cup Pointers
        BY RepoFacts, ContentParts DEF JobOK
  <2>3. ASSUME NEW r \in Class, CopyRepo(r) PROVE JobOK' /\ PhaseOK'
    <3>1. /\ mpc = "backfill" /\ mpc' = "tags" /\ r \in left /\ left' = left \ {r} /\ cur' = r
          /\ todo' = list_tags(job.old, r) /\ want' = {} /\ ptrs' = {} /\ buf' = buf
          BY <2>3 DEF CopyRepo
    <3>2. todo' \subseteq TagItems  BY <2>2, <3>1, ListedItems
    <3>3. buf = None  BY <3>1 DEF PhaseOK
    <3>4. PhaseOK'  BY <2>1, <2>2, <3>1, <3>2, <3>3 DEF PhaseOK, Copying
    <3> QED BY <2>1, <3>1, <3>4 DEF JobOK, Copying
  <2>4. ASSUME NEW item \in TagItems, ReadTag(item) PROVE JobOK' /\ PhaseOK'
    <3> DEFINE m == TagVia(job.old, cur, item.name)
    <3>1. mpc = "tags" /\ item \in todo  BY <2>4 DEF ReadTag
    <3>2. CASE m = None
      <4>1. End("failed")  BY <2>4, <3>2 DEF ReadTag
      <4> QED BY <2>1, <4>1, EndOK DEF JobOK
    <3>3. CASE m # None
      <4>1. /\ todo' = todo \ {item} /\ want' = want \cup Items(<<cur, m>>)
            /\ ptrs' = ptrs \cup {Pointer(cur, item.name, m)}
            /\ UNCHANGED <<mpc, left, cur, buf>>
            BY <2>4, <3>3 DEF ReadTag
      <4>2. cur \in Repo /\ item.name \in Tag  BY <2>2, <3>1, ItemFacts DEF PhaseOK
      <4>3. m \in Manifest  BY <2>2, <3>3, <4>2, TagNames
      <4> HIDE DEF m
      <4>4. Items(<<cur, m>>) \subseteq Content  BY <4>2, <4>3, ImageItems
      <4>5. \A i \in Items(<<cur, m>>) : i \in ManifestItems => i.repo = cur
            BY <4>2, <4>3, ImageItems, Kinds
      <4>6. Pointer(cur, item.name, m) \in Pointers /\ Pointer(cur, item.name, m).repo = cur
            BY <4>2, <4>3 DEF Pointers, Pointer
      <4>7. PhaseOK'  BY <2>1, <3>1, <4>1, <4>4, <4>5, <4>6 DEF PhaseOK, Copying
      <4> QED BY <2>1, <3>1, <4>1, <4>7 DEF JobOK, Copying
    <3> QED BY <3>2, <3>3
  <2>5. CASE ListDigests
    <3>1. /\ mpc = "tags" /\ mpc' = "digests"
          /\ todo' = list_manifest_digests(job.old, cur) \ want
          /\ UNCHANGED <<left, cur, want, ptrs, buf>>
          BY <2>5 DEF ListDigests
    <3>2. cur \in Repo  BY <2>2, <3>1 DEF PhaseOK
    <3>3. todo' \subseteq {ManifestItem(cur, m) : m \in Manifest}
          BY <2>2, <3>1, <3>2, ListedItems
    <3>4. todo' \subseteq Content
      <4>1. \A m \in Manifest : ManifestItem(cur, m) \in Content
            BY <3>2, ImageItems, ContentParts
      <4> QED BY <3>3, <4>1
    <3>5. PhaseOK'  BY <2>1, <3>1, <3>3, <3>4 DEF PhaseOK, Copying
    <3> QED BY <2>1, <3>1, <3>5 DEF JobOK, Copying
  <2>6. ASSUME NEW item \in Content, ReadDigest(item) PROVE JobOK' /\ PhaseOK'
    <3>1. /\ mpc = "digests" /\ item \in todo /\ todo' = todo \ {item}
          /\ want' = IF Has(job.old, item) THEN want \cup Items(<<cur, item.name>>) ELSE want
          /\ UNCHANGED <<mpc, left, cur, ptrs, buf>>
          BY <2>6 DEF ReadDigest
    <3>2. PICK m \in Manifest : item = ManifestItem(cur, m) /\ item.name = m
          BY <3>1, Kinds DEF PhaseOK
    <3>3. cur \in Repo  BY <2>2, <3>1 DEF PhaseOK
    <3>4. Items(<<cur, m>>) \subseteq Content
          /\ \A i \in Items(<<cur, m>>) : i \in ManifestItems => i.repo = cur
          BY <3>3, ImageItems, Kinds
    <3>5. want' \subseteq Content /\ \A i \in want' : i \in want \/ i \in Items(<<cur, m>>)
          BY <3>1, <3>2, <3>4 DEF PhaseOK
    <3>6. PhaseOK'  BY <2>1, <3>1, <3>4, <3>5 DEF PhaseOK, Copying
    <3> QED BY <2>1, <3>1, <3>6 DEF JobOK, Copying
  <2>7. CASE StartCopy
    <3>1. mpc = "digests" /\ todo = {} /\ mpc' = "copy" /\ UNCHANGED copying
          BY <2>7 DEF StartCopy
    <3>2. PhaseOK'  BY <2>1, <3>1 DEF PhaseOK, Copying, copying
    <3> QED BY <2>1, <3>1, <3>2 DEF JobOK, Copying
  <2>8. ASSUME NEW item \in Content, FetchItem(item) PROVE JobOK' /\ PhaseOK'
    <3>1. /\ mpc = "copy" /\ item \in want /\ want' = want \ {item}
          /\ buf' \in {item, None}
          /\ UNCHANGED <<mpc, left, cur, todo, ptrs>>
          BY <2>8 DEF FetchItem
    <3>2. item \notin Pointers  BY Kinds
    <3>3. PhaseOK'  BY <2>1, <2>2, <3>1, <3>2 DEF PhaseOK, Copying
    <3> QED BY <2>1, <3>1, <3>3 DEF JobOK, Copying
  <2>9. ASSUME NEW ptr \in Pointers, FetchTag(ptr) PROVE JobOK' /\ PhaseOK'
    <3>1. /\ mpc = "copy" /\ ptr \in ptrs /\ ptrs' = ptrs \ {ptr}
          /\ buf' \in {ptr, None}
          /\ UNCHANGED <<mpc, left, cur, todo, want>>
          BY <2>9 DEF FetchTag
    <3>2. ptr \notin ManifestItems  BY Kinds, ContentParts
    <3>3. PhaseOK'  BY <2>1, <2>2, <3>1, <3>2 DEF PhaseOK, Copying
    <3> QED BY <2>1, <3>1, <3>3 DEF JobOK, Copying
  <2>10. CASE EndRepo
    <3>1. /\ mpc = "copy" /\ buf = None /\ want = {} /\ ptrs = {} /\ mpc' = "backfill"
          /\ cur' = None /\ UNCHANGED <<left, todo, want, ptrs, buf>>
          BY <2>10 DEF EndRepo
    <3>2. PhaseOK'  BY <2>1, <2>2, <3>1 DEF PhaseOK, Copying
    <3> QED BY <2>1, <3>1, <3>2 DEF JobOK, Copying
  <2>11. ASSUME NEW r \in Class, PurgeRepo(r) PROVE JobOK' /\ PhaseOK'
    <3>1. /\ mpc = "purge" /\ left' = left \ {r}
          /\ todo' = list_tags(job.old, r) \cup list_manifest_digests(job.old, r)
          /\ UNCHANGED <<mpc, cur, want, ptrs, buf>>
          BY <2>11 DEF PurgeRepo
    <3>2. r \in Repo  BY <2>2
    <3>3. list_tags(job.old, r) \subseteq {i \in TagItems : i.repo \in Class}
          BY <2>2, <3>2, ListedItems
    <3>4. list_manifest_digests(job.old, r) \subseteq {i \in ManifestItems : i.repo \in Class}
      <4>1. \A m \in Manifest : ManifestItem(r, m) \in ManifestItems
                                /\ ManifestItem(r, m).repo = r
            BY <3>2, ImageItems, Kinds
      <4>2. \A i \in list_manifest_digests(job.old, r) :
                \E m \in Manifest : i = ManifestItem(r, m)
            BY <2>2, <3>2, ListedItems
      <4> QED BY <4>1, <4>2
    <3>5. todo' \subseteq {i \in ManifestItems \cup TagItems : i.repo \in Class}
          BY <3>1, <3>3, <3>4
    <3>6. todo' \subseteq Content \cup TagItems  BY <3>5, ContentParts
    <3>7. PhaseOK'  BY <2>1, <3>1, <3>5, <3>6 DEF PhaseOK, Copying
    <3> QED BY <2>1, <3>1, <3>7 DEF JobOK, Copying
  <2>12. CASE Mark
    <3>1. /\ mpc = "purge" /\ left = {} /\ mpc' = "sweep"
          /\ UNCHANGED <<left, cur, want, ptrs, buf>>
          BY <2>12 DEF Mark
    <3>2. \A i \in todo' : i.kind = "blob" /\ \E v \in Volumes(job.old) : i \in content[v]
          BY <2>12 DEF Mark
    <3>3. todo' \subseteq BlobItems
      <4>1. Volumes(job.old) \subseteq Volume  BY <2>2, VolumesType
      <4>2. \A i \in todo' : i \in Content  BY <3>2, <4>1 DEF StoreOK
      <4> QED BY <3>2, <4>2, Kinds
    <3>4. PhaseOK'  BY <2>1, <3>1, <3>3, ContentParts DEF PhaseOK, Copying
    <3> QED BY <2>1, <3>1, <3>4 DEF JobOK, Copying
  <2>13. CASE Done
    <3>1. mpc = "sweep" /\ todo = {} /\ mpc' = "done" /\ UNCHANGED copying
          BY <2>13 DEF Done
    <3>2. PhaseOK'  BY <2>1, <3>1 DEF PhaseOK, Copying, copying
    <3> QED BY <2>1, <3>1, <3>2 DEF JobOK, Copying
  <2> QED BY <1>5, <2>3, <2>4, <2>5, <2>6, <2>7, <2>8, <2>9, <2>10, <2>11, <2>12, <2>13 DEF Plan
<1>6. CASE Write
  <2>1. buf' = None /\ mpc = "copy"
        /\ UNCHANGED <<rule, mpc, job, left, cur, todo, want, ptrs>>
        BY <1>6, WriteAdds, StepKeeps
  <2>2. None \notin ManifestItems \cup Pointers  BY RepoFacts, ContentParts
  <2>3. PhaseOK'  BY <2>1, <2>2 DEF PhaseOK, Copying
  <2> QED BY <2>1, <2>3 DEF JobOK, Copying
<1>7. CASE Clear
  <2>1. UNCHANGED <<rule, mpc, job, left, cur, want, ptrs, buf>> /\ todo' \subseteq todo
        /\ mpc \in {"purge", "sweep"}
        BY <1>7, ClearRemoves, StepKeeps
  <2>2. PhaseOK'  BY <2>1 DEF PhaseOK, Copying
  <2> QED BY <2>1, <2>2 DEF JobOK, Copying
<1>8. CASE Fail
  <2>1. End("failed") /\ UNCHANGED <<rule, job>>  BY <1>8 DEF Fail
  <2> QED BY <2>1, EndOK DEF JobOK
<1>9. CASE Restart
  <2>1. End("idle") /\ rule' = <<Origin>> /\ UNCHANGED job  BY <1>9 DEF Restart
  <2>2. rule' \in Backend /\ rule' # <<>>  BY <2>1, RepoFacts DEF Backend
  <2> QED BY <2>1, <2>2, EndOK
<1>10. CASE UNCHANGED vars
  BY <1>10 DEF vars, copying, JobOK, PhaseOK
<1> QED BY <1>1, <1>2, <1>3, <1>4, <1>5, <1>6, <1>7, <1>8, <1>9, <1>10, NextCases, StepCases

LEMMA HistoryStep == ASSUME TypeInv, [Next]_vars PROVE HistoryOK'
<1> USE DEF TypeInv
<1>1. ASSUME NEW c \in Client, FinishPut(c) PROVE HistoryOK'
  <2>1. call[c] # None /\ call[c].op \in Pushing  BY <1>1 DEF FinishPut, Pushing
  <2>2. PICK r \in Repo, m \in Manifest, t \in Tag :
            r = call[c].repo /\ m = call[c].item.name /\ t = call[c].tag
        BY <2>1, CallFields
  <2>3. acked' = acked \cup {<<r, m>>} /\ latest' = [latest EXCEPT ![<<r, t>>] = m]
        BY <1>1, <2>2 DEF FinishPut
  <2>4. acked' \subseteq Image  BY <2>3 DEF Image, HistoryOK
  <2>5. latest' \in [Repo \X Tag -> Manifest \cup {None}]  BY <2>3 DEF HistoryOK
  <2> QED BY <1>1, <2>4, <2>5 DEF FinishPut, HistoryOK, bounds
<1>2. ASSUME NEW c \in Client, NEW r \in Repo, NEW item \in Content \cup TagItems,
             StartDelete(c, r, item)
      PROVE  HistoryOK'
  <2>1. latest' \in [Repo \X Tag -> Manifest \cup {None}]  BY <1>2 DEF StartDelete, HistoryOK
  <2> QED BY <1>2, <2>1 DEF StartDelete, HistoryOK, bounds
<1>3. ASSUME NEW c \in Client, ReadVolume(c) PROVE HistoryOK'
  <2>1. missed' \in BOOLEAN  BY <1>3 DEF ReadVolume, HistoryOK
  <2> QED BY <1>3, <2>1 DEF ReadVolume, HistoryOK, bounds
<1>4. CASE Requests
  BY <1>1, <1>2, <1>3, <1>4 DEF Requests, StartPush, PushBlobs, StartPut, StartRead,
     DeleteOnVolume, GiveUp, HistoryOK, bounds
<1>5. ASSUME NEW to \in Target, NEW drain \in Drains, Start(to, drain) PROVE HistoryOK'
  <2>1. runs' = runs + 1 /\ runs < MaxRuns /\ steady' \subseteq Image /\ quiet' \in BOOLEAN
        /\ UNCHANGED <<fails, restarts, acked, latest, missed>>
        BY <1>5 DEF Start
  <2>2. runs' \in 0..MaxRuns  BY <2>1, ConstantsOK DEF HistoryOK
  <2> QED BY <2>1, <2>2 DEF HistoryOK
<1>6. CASE Step
  BY <1>6, StepCases, StepKeeps, PlanKeeps DEF HistoryOK, bounds, history
<1>7. CASE Fail
  <2>1. fails' \in 0..MaxFails /\ UNCHANGED <<runs, restarts, history>>
        BY <1>7, ConstantsOK DEF Fail, HistoryOK
  <2> QED BY <2>1 DEF HistoryOK, history
<1>8. CASE Restart
  <2>1. restarts' \in 0..MaxRestarts /\ UNCHANGED <<runs, fails, history>>
        BY <1>8, ConstantsOK DEF Restart, HistoryOK
  <2> QED BY <2>1 DEF HistoryOK, history
<1>9. CASE UNCHANGED vars  BY <1>9 DEF vars, HistoryOK, bounds, history
<1> QED BY <1>4, <1>5, <1>6, <1>7, <1>8, <1>9, NextCases

LEMMA InitTypes == Init => TypeInv
<1> SUFFICES ASSUME Init PROVE TypeInv  OBVIOUS
<1> USE RepoFacts DEF Init
<1>1. StoreOK  BY DEF StoreOK, KnownOK, NoTags
<1>2. CallsOK  BY DEF CallsOK
<1>3. JobOK
  <2>1. <<Origin>> \in Backend /\ <<Origin>> # <<>>  BY DEF Backend
  <2> QED BY <2>1 DEF JobOK, Copying
<1>4. PhaseOK
  <2>1. None \notin ManifestItems \cup Pointers  BY ContentParts
  <2>2. /\ mpc = "idle" /\ left = {} /\ todo = {} /\ want = {} /\ ptrs = {} /\ buf = None
        /\ cur = None
        OBVIOUS
  <2> QED BY <2>1, <2>2 DEF PhaseOK, Copying
<1>5. HistoryOK
  <2>1. 0 \in 0..MaxRuns /\ 0 \in 0..MaxFails /\ 0 \in 0..MaxRestarts  BY ConstantsOK
  <2>2. NoTags \in [Repo \X Tag -> Manifest \cup {None}]  BY DEF NoTags
  <2> QED BY <2>1, <2>2 DEF HistoryOK
<1> QED BY <1>1, <1>2, <1>3, <1>4, <1>5 DEF TypeInv

LEMMA TypesKept == TypeInv /\ [Next]_vars => TypeInv'
<1> SUFFICES ASSUME TypeInv, [Next]_vars PROVE TypeInv'  OBVIOUS
<1>1. StoreOK' /\ CallsOK' /\ JobOK' /\ PhaseOK' /\ HistoryOK'
      BY StoreStep, CallsStep, PhaseStep, HistoryStep
<1> QED BY <1>1 DEF TypeInv

LEMMA TypesAlways == Spec => []TypeInv
BY InitTypes, TypesKept, PTL DEF Spec

(* Every variable keeps its type, whatever requests, failures, runs and    *)
(* restarts come.                                                          *)
THEOREM TypeCorrect == Spec => []TypeOK
BY TypesAlways, TypesTogether, PTL

-----------------------------------------------------------------------------
(* The copy is complete when the old backend leaves the read path.         *)

(* No delete of part of a steady image is under way.                       *)
Spared == \A x \in steady : ~Doomed(x)

(* Up to the collapse the source has every steady image of the class, and  *)
(* its repository is on the list.                                          *)
SourceHas == mpc \in Copying \cup {"listed"} =>
    \A x \in steady : x[1] \in Class =>
        x[1] \in job.repos /\ \A item \in Items(x) : Has(job.old, item)

(* What is off the list is on the destination, but for the repository that *)
(* is being copied.                                                        *)
CopiedHas == mpc \in Copying =>
    \A x \in steady : x[1] \in Class \ (left \cup {cur}) => Items(x) \subseteq content[job.to]

(* A manifest to copy comes with its blobs.                                *)
Closed == mpc \in {"tags", "digests"} =>
    \A m \in Manifest : ManifestItem(cur, m) \in want => Items(<<cur, m>>) \subseteq want

(* Listing the digests finds every image, and an image found is copied.    *)
Listed == mpc = "digests" =>
    \A x \in steady : x[1] = cur => ManifestItem(x[1], x[2]) \in want \cup todo

Wanted == mpc = "copy" =>
    \A x \in steady : x[1] = cur => Items(x) \subseteq want \cup {buf} \cup content[job.to]

(* After a migration without drain the destination has all.                *)
MovedHas == mpc = "done" /\ ~job.drain =>
    \A x \in steady : x[1] \in Class => Items(x) \subseteq content[job.to]

BackfillInv == Spared /\ SourceHas /\ CopiedHas /\ Closed /\ Listed /\ Wanted /\ MovedHas

(* A call that deletes did so before, or begins to.                        *)
LEMMA DeletesFrom ==
    ASSUME CallsOK, NEW c \in Client,
           Requests \/ Restart \/ UNCHANGED call,
           ~\E d \in Client : \E r \in Repo, item \in Content \cup TagItems : StartDelete(d, r, item),
           call'[c] # None, call'[c].op = "delete"
    PROVE  call[c] # None /\ call[c].op = "delete" /\ call'[c].item = call[c].item
<1> DEFINE Goal == call[c] # None /\ call[c].op = "delete" /\ call'[c].item = call[c].item
<1>1. ASSUME NEW d \in Client, NEW k, call' = [call EXCEPT ![d] = k],
             k = None \/ k.op # "delete"
             \/ (call[d] # None /\ k.op = call[d].op /\ k.item = call[d].item)
      PROVE  Goal
      BY <1>1 DEF CallsOK
<1>2. ASSUME NEW d \in Client, NEW r \in Repo, NEW t \in Tag, NEW m \in Manifest,
             StartPush(d, r, t, m)
      PROVE  Goal
  <2> DEFINE k == [op |-> "blob", repo |-> r, item |-> ManifestItem(r, m), tag |-> t,
                   via |-> resolve(r)]
  <2>1. k.op # "delete" /\ call' = [call EXCEPT ![d] = k]  BY <1>2 DEF StartPush
  <2> HIDE DEF k, Goal
  <2> QED BY <1>1, <2>1
<1>3. ASSUME NEW d \in Client, PushBlobs(d) PROVE Goal
  <2> DEFINE k == [call[d] EXCEPT !.op = "blobbed"]
  <2>1. call[d] # None /\ CallOK(call[d]) /\ call[d].op = "blob"
        BY <1>3 DEF PushBlobs, CallsOK
  <2>2. k.op # "delete"  BY <2>1 DEF CallOK, Call
  <2>3. call' = [call EXCEPT ![d] = k]  BY <1>3 DEF PushBlobs
  <2> HIDE DEF k, Goal
  <2> QED BY <1>1, <2>2, <2>3
<1>4. ASSUME NEW d \in Client, StartPut(d) PROVE Goal
  <2> DEFINE k == [call[d] EXCEPT !.op = "manifest", !.via = resolve(call[d].repo)]
  <2>1. call[d] # None /\ CallOK(call[d]) /\ call[d].op = "blobbed"
        BY <1>4 DEF StartPut, CallsOK
  <2>2. k.op # "delete"  BY <2>1 DEF CallOK, Call
  <2>3. call' = [call EXCEPT ![d] = k]  BY <1>4 DEF StartPut, CallsOK
  <2> HIDE DEF k, Goal
  <2> QED BY <1>1, <2>2, <2>3
<1>5. ASSUME NEW d \in Client, FinishPut(d) \/ GiveUp(d) PROVE Goal
  <2>1. call' = [call EXCEPT ![d] = None]  BY <1>5 DEF FinishPut, GiveUp
  <2> QED BY <1>1, <2>1
<1>6. ASSUME NEW d \in Client, NEW r \in Repo, NEW item \in Content, StartRead(d, r, item)
      PROVE  Goal
  <2> DEFINE k == [op |-> "read", repo |-> r, item |-> item, via |-> resolve(r)]
  <2>1. k.op # "delete" /\ call' = [call EXCEPT ![d] = k]  BY <1>6 DEF StartRead
  <2> HIDE DEF k, Goal
  <2> QED BY <1>1, <2>1
<1>7. ASSUME NEW d \in Client, ReadVolume(d) \/ DeleteOnVolume(d) PROVE Goal
  <2> DEFINE k == [call[d] EXCEPT !.via = Tail(call[d].via)]
  <2>1. call[d] # None /\ (call' = [call EXCEPT ![d] = None] \/ call' = [call EXCEPT ![d] = k])
        BY <1>7 DEF ReadVolume, DeleteOnVolume
  <2>2. CallOK(call[d]) /\ call[d] \in Call  BY <2>1 DEF CallsOK, CallOK
  <2>3. k.op = call[d].op /\ k.item = call[d].item  BY <2>2 DEF Call
  <2> HIDE DEF k, Goal
  <2> QED BY <1>1, <2>1, <2>3
<1>8. CASE Requests  BY <1>2, <1>3, <1>4, <1>5, <1>6, <1>7, <1>8 DEF Requests
<1>9. CASE Restart  BY <1>9 DEF Restart
<1>10. CASE UNCHANGED call  BY <1>10
<1> QED BY <1>8, <1>9, <1>10

(* Steps that neither start a migration nor drain.                         *)
Quietly == Requests \/ Overlay \/ Collapse \/ Plan \/ Write \/ Fail \/ Restart \/ UNCHANGED vars

LEMMA QuietCases ==
    ASSUME [Next]_vars
    PROVE  Quietly \/ Clear \/ \E to \in Target, drain \in Drains : Start(to, drain)
BY NextCases, StepCases DEF Quietly

(* Images leave the history, and only a start adds any.                    *)
LEMMA SteadyMoves == Quietly \/ Clear => steady' \subseteq steady
<1>1. CASE Requests
      BY <1>1 DEF Requests, StartPush, PushBlobs, StartPut, FinishPut, StartRead, ReadVolume,
         StartDelete, DeleteOnVolume, GiveUp
<1>2. CASE Restart  BY <1>2 DEF Restart, history
<1>3. CASE Fail  BY <1>3 DEF Fail, history
<1>4. CASE UNCHANGED vars  BY <1>4 DEF vars, history
<1>5. CASE Overlay \/ Collapse \/ Write \/ Clear  BY <1>5, StepKeeps DEF history
<1>6. CASE Plan  BY <1>6, PlanKeeps DEF history
<1> QED BY <1>1, <1>2, <1>3, <1>4, <1>5, <1>6 DEF Quietly

LEMMA SparedStep == ASSUME TypeInv, Spared, [Next]_vars PROVE Spared'
<1> USE DEF TypeInv
<1>1. ASSUME NEW to \in Target, NEW drain \in Drains, Start(to, drain) PROVE Spared'
  <2>1. steady' \subseteq {x \in Image : ~Doomed(x)} /\ call' = call  BY <1>1 DEF Start
  <2> QED BY <2>1 DEF Spared, Doomed
<1>2. ASSUME NEW d \in Client, NEW r \in Repo, NEW item \in Content \cup TagItems,
             StartDelete(d, r, item)
      PROVE  Spared'
  <2> DEFINE k == [op |-> "delete", repo |-> r, item |-> item, via |-> resolve(r)]
  <2>1. /\ call' = [call EXCEPT ![d] = k] /\ k.item = item
        /\ steady' = {x \in steady : item \notin Items(x)}
        BY <1>2 DEF StartDelete
  <2> HIDE DEF k
  <2> QED BY <2>1 DEF Spared, Doomed, CallsOK
<1>3. ASSUME Quietly \/ Clear,
             ~\E d \in Client : \E r \in Repo, item \in Content \cup TagItems :
                 StartDelete(d, r, item)
      PROVE  Spared'
  <2>1. Requests \/ Restart \/ UNCHANGED call
        BY <1>3, StepKeeps, PlanKeeps, OtherKeeps DEF Quietly, vars
  <2>2. steady' \subseteq steady  BY <1>3, SteadyMoves
  <2> QED BY <1>3, <2>1, <2>2, DeletesFrom DEF Spared, Doomed
<1> QED BY <1>1, <1>2, <1>3, QuietCases

(* A steady image stays on a volume unless the drain removes it.           *)
LEMMA Survives ==
    ASSUME TypeInv, Spared, Quietly, NEW x \in steady, NEW v \in Volume
    PROVE  Items(x) \cap content[v] \subseteq content'[v]
<1> USE DEF TypeInv
<1>1. CASE UNCHANGED store  BY <1>1 DEF store
<1>2. ASSUME NEW c \in Client, DeleteOnVolume(c)
      PROVE  Items(x) \cap content[v] \subseteq content'[v]
  <2>1. call[c] # None /\ call[c].op = "delete" /\ content[v] \subseteq content'[v] \cup {call[c].item}
        BY <1>2, DeleteRemoves
  <2>2. call[c].item \notin Items(x)  BY <2>1 DEF Spared, Doomed
  <2> QED BY <2>1, <2>2
<1>3. CASE \E c \in Client : PushBlobs(c) \/ FinishPut(c)
      BY <1>3, PushBlobsAdds, FinishPutAdds
<1>4. CASE Write  BY <1>4, WriteAdds
<1>5. CASE Requests
      BY <1>1, <1>2, <1>3, <1>5 DEF Requests, StartPush, StartPut, StartRead, ReadVolume,
         StartDelete, GiveUp
<1>6. CASE Overlay \/ Collapse \/ Plan \/ Fail \/ Restart \/ UNCHANGED vars
      BY <1>1, <1>6, StepKeeps, PlanKeeps, OtherKeeps DEF vars
<1> QED BY <1>4, <1>5, <1>6 DEF Quietly

LEMMA KeepsHas ==
    ASSUME TypeInv, Spared, Quietly, NEW x \in steady, NEW be \in Backend,
           NEW item \in Items(x), Has(be, item)
    PROVE  \E v \in Volumes(be) : item \in content'[v]
<1>1. PICK v \in Volumes(be) : item \in content[v]  BY DEF Has
<1>2. v \in Volume  BY VolumesType
<1> QED BY <1>1, <1>2, Survives

LEMMA QuietNext == Quietly => [Next]_vars
BY DEF Quietly, Next, Step, Plan, Write

(* Every image the source or the destination has stays there while the     *)
(* migration copies.                                                       *)
LEMMA StaysPut ==
    ASSUME TypeInv, BackfillInv, Quietly, job' = job,
           mpc' \in Copying \cup {"listed"} => mpc \in Copying \cup {"listed"}
    PROVE  /\ Spared'
           /\ SourceHas'
           /\ \A x \in steady' : x \in steady
           /\ \A x \in steady' : Items(x) \cap content[job.to] \subseteq content'[job.to]
<1> USE DEF TypeInv, BackfillInv
<1>1. job.old \in Backend /\ job.to \in Volume /\ steady' \subseteq steady
      BY SteadyMoves DEF JobOK
<1>2. \A x \in steady' : Items(x) \cap content[job.to] \subseteq content'[job.to]
      BY <1>1, Survives
<1>3. Spared'
  <2>1. [Next]_vars  BY QuietNext
  <2> QED BY <2>1, SparedStep
<1>4. ASSUME mpc' \in Copying \cup {"listed"}, NEW x \in steady', x[1] \in Class,
             NEW item \in Items(x)
      PROVE  \E v \in Volumes(job.old) : item \in content'[v]
  <2>1. x \in steady /\ mpc \in Copying \cup {"listed"}  BY <1>1, <1>4
  <2>2. x[1] \in job.repos /\ Has(job.old, item)  BY <1>4, <2>1 DEF SourceHas
  <2>3. \E v \in Volumes(job.old) : item \in content'[v]  BY <1>1, <2>1, <2>2, KeepsHas
  <2> QED BY <2>3
<1>5. ASSUME mpc' \in Copying \cup {"listed"}, NEW x \in steady', x[1] \in Class
      PROVE  x[1] \in job'.repos
      BY <1>1, <1>5 DEF SourceHas
<1>6. SourceHas'
  <2> SUFFICES ASSUME mpc' \in Copying \cup {"listed"}, NEW x \in steady', x[1] \in Class
               PROVE  x[1] \in job'.repos /\ \A item \in Items(x) : Has(job.old, item)'
      BY DEF SourceHas
  <2>1. \A item \in Items(x) : \E v \in Volumes(job.old) : item \in content'[v]  BY <1>4
  <2> QED BY <1>5, <2>1 DEF Has
<1> QED BY <1>1, <1>2, <1>3, <1>6

LEMMA BackfillStep == ASSUME Hidden = {}, TypeInv, BackfillInv, [Next]_vars PROVE BackfillInv'
<1> USE DEF TypeInv, BackfillInv
<1>1. JobOK' /\ PhaseOK' /\ Spared' /\ StoreOK'  BY PhaseStep, SparedStep, StoreStep
<1>2. job.to \in Volume /\ job.old \in Backend /\ job.repos \subseteq Class /\ Class \subseteq Repo
      /\ None \notin Repo /\ steady \subseteq Image
      BY RepoFacts DEF JobOK, HistoryOK
<1>3. ASSUME NEW to \in Target, NEW drain \in Drains, Start(to, drain) PROVE BackfillInv'
  <2> DEFINE repos == list_repos(rule) \cap Class
  <2>1. /\ mpc' = "listed" /\ job'.old = rule /\ job'.repos = repos /\ rule' = rule
        /\ UNCHANGED store /\ steady' \subseteq {x \in Image : Served(x)}
        BY <1>3 DEF Start
  <2>2. ASSUME NEW x \in steady', x[1] \in Class
        PROVE  x[1] \in repos /\ \A item \in Items(x) : Has(rule, item)
    <3>1. x \in Image /\ Served(x)  BY <2>1
    <3>2. \A item \in Items(x) : Has(rule, item)  BY <2>2, <3>1 DEF Served, resolve
    <3>3. x = <<x[1], x[2]>> /\ x[1] \in Repo /\ x[2] \in Manifest  BY <3>1, ImagePair
    <3>4. ManifestItem(x[1], x[2]) \in Items(x)  BY <3>3, ImageItems
    <3>5. PICK v \in Volumes(rule) : ManifestItem(x[1], x[2]) \in content[v]
          BY <3>2, <3>4 DEF Has
    <3>6. v \in Volume  BY VolumesType DEF JobOK
    <3>7. x[1] \in known[v]  BY <3>3, <3>5, <3>6 DEF StoreOK, KnownOK
    <3> QED BY <2>2, <3>2, <3>5, <3>7 DEF list_repos
  <2> HIDE DEF repos
  <2>3. content' = content  BY <2>1 DEF store
  <2>4. SourceHas'  BY <2>1, <2>2, <2>3 DEF SourceHas, Has
  <2> QED BY <1>1, <2>1, <2>4 DEF CopiedHas, Closed, Listed, Wanted, MovedHas, Copying
<1>4. ASSUME Quietly, job' = job, UNCHANGED <<mpc, left, cur, todo, want, ptrs>>,
             buf' = buf \/ buf \notin Content \/ buf \in content'[job.to]
      PROVE  BackfillInv'
  <2>1. /\ Spared' /\ SourceHas' /\ \A x \in steady' : x \in steady
        /\ \A x \in steady' : Items(x) \cap content[job.to] \subseteq content'[job.to]
        BY <1>4, StaysPut
  <2>2. CopiedHas' /\ MovedHas'  BY <1>4, <2>1 DEF CopiedHas, MovedHas
  <2>3. Closed' /\ Listed'  BY <1>4, <2>1 DEF Closed, Listed
  <2>4. Wanted'
    <3>1. \A x \in steady' : Items(x) \subseteq Content
          BY <1>2, <2>1, ImagePair, ImageItems
    <3> QED BY <1>4, <2>1, <3>1 DEF Wanted
  <2> QED BY <2>1, <2>2, <2>3, <2>4
<1>5. CASE Requests
  BY <1>4, <1>5, RequestKeeps DEF Quietly, copying
<1>6. CASE Write
  <2>1. UNCHANGED <<mpc, job, left, cur, todo, want, ptrs>>  BY <1>6, StepKeeps
  <2>2. buf \in Content => buf \in content'[job.to]  BY <1>6, WriteAdds
  <2> QED BY <1>4, <1>6, <2>1, <2>2 DEF Quietly
<1>7. CASE UNCHANGED vars
  BY <1>4, <1>7 DEF vars, copying, Quietly
<1>8. CASE Overlay
  <2>1. mpc = "listed" /\ mpc' = "backfill" /\ job' = job /\ UNCHANGED copying /\ Quietly
        BY <1>8 DEF Overlay, Quietly
  <2>2. Spared' /\ SourceHas'  BY <2>1, StaysPut
  <2>3. left' = job'.repos  BY <2>1 DEF PhaseOK, copying
  <2>4. CopiedHas'  BY <2>1, <2>2, <2>3 DEF CopiedHas, SourceHas, Copying
  <2> QED BY <2>1, <2>2, <2>4 DEF Closed, Listed, Wanted, MovedHas
<1>9. CASE Collapse
  <2>1. /\ mpc = "backfill" /\ left = {} /\ mpc' \in {"purge", "done"} /\ job' = job /\ Quietly
        /\ cur = None
        BY <1>9 DEF Collapse, Quietly, PhaseOK
  <2>2. /\ Spared' /\ SourceHas' /\ \A x \in steady' : x \in steady
        /\ \A x \in steady' : Items(x) \cap content[job.to] \subseteq content'[job.to]
        BY <2>1, StaysPut DEF Copying
  <2>3. \A x \in steady : x[1] \in Class => Items(x) \subseteq content[job.to]
        BY <1>2, <2>1 DEF CopiedHas, Copying
  <2>4. MovedHas'  BY <2>1, <2>2, <2>3 DEF MovedHas
  <2> QED BY <2>1, <2>2, <2>4 DEF CopiedHas, Closed, Listed, Wanted, Copying
<1>10. ASSUME Quietly, job' = job, mpc' \in {"failed", "idle"} PROVE BackfillInv'
  <2>1. Spared' /\ SourceHas'  BY <1>10, StaysPut DEF Copying
  <2> QED BY <1>10, <2>1 DEF CopiedHas, Closed, Listed, Wanted, MovedHas, Copying
<1>11. CASE Fail  BY <1>10, <1>11 DEF Fail, End, Quietly
<1>12. CASE Restart  BY <1>10, <1>12 DEF Restart, End, Quietly
<1>13. CASE Clear
  <2>1. mpc \in {"purge", "sweep"} /\ mpc' = mpc /\ job' = job
        BY <1>13, ClearRemoves, StepKeeps
  <2>2. job.drain  BY <2>1 DEF PhaseOK
  <2> QED BY <1>1, <2>1, <2>2 DEF SourceHas, CopiedHas, Closed, Listed, Wanted, MovedHas, Copying
<1>14. CASE Plan
  <2>1. Quietly /\ job' = job /\ content' = content /\ steady' = steady
        BY <1>14, PlanKeeps DEF Quietly, store, history
  <2>2. ASSUME mpc \in Copying, mpc' \in Copying PROVE Spared' /\ SourceHas'
        BY <2>1, <2>2, StaysPut
  <2>3. \A x \in steady : x[1] \in Repo /\ x[2] \in Manifest /\ x = <<x[1], x[2]>>
        BY <1>2, ImagePair
  <2>4. ASSUME NEW r \in Class, CopyRepo(r) PROVE BackfillInv'
    <3>1. /\ mpc = "backfill" /\ mpc' = "tags" /\ left' = left \ {r} /\ cur' = r /\ want' = {}
          BY <2>4 DEF CopyRepo
    <3>2. \A x \in steady : x[1] \in Class \ (left' \cup {r}) => x[1] \in Class \ (left \cup {cur})
          BY <1>2, <3>1 DEF PhaseOK
    <3>3. CopiedHas'  BY <2>1, <3>1, <3>2 DEF CopiedHas, Copying
    <3> QED BY <2>2, <3>1, <3>3 DEF Closed, Listed, Wanted, MovedHas, Copying
  <2>5. ASSUME NEW item \in TagItems, ReadTag(item) PROVE BackfillInv'
    <3> DEFINE m == TagVia(job.old, cur, item.name)
    <3>1. mpc = "tags" /\ item \in todo  BY <2>5 DEF ReadTag
    <3>2. CASE m = None
      <4>1. mpc' = "failed"  BY <2>5, <3>2 DEF ReadTag, End
      <4> QED BY <1>10, <2>1, <4>1
    <3>3. CASE m # None
      <4>1. want' = want \cup Items(<<cur, m>>) /\ UNCHANGED <<mpc, left, cur, buf>>
            BY <2>5, <3>3 DEF ReadTag
      <4>2. cur \in Repo /\ item.name \in Tag  BY <1>2, <3>1, ItemFacts DEF PhaseOK
      <4>3. m \in Manifest  BY <1>2, <3>3, <4>2, TagNames
      <4> HIDE DEF m
      <4>4. \A n \in Manifest : ManifestItem(cur, n) \in Items(<<cur, m>>) => n = m
            BY <4>2, <4>3, ImageItems
      <4>5. Closed'  BY <3>1, <4>1, <4>4 DEF Closed
      <4>6. CopiedHas'  BY <2>1, <4>1 DEF CopiedHas
      <4> QED BY <2>2, <3>1, <4>1, <4>5, <4>6 DEF Listed, Wanted, MovedHas, Copying
    <3> QED BY <3>2, <3>3
  <2>6. CASE ListDigests
    <3>1. /\ mpc = "tags" /\ mpc' = "digests"
          /\ todo' = list_manifest_digests(job.old, cur) \ want
          /\ UNCHANGED <<left, cur, want, ptrs, buf>>
          BY <2>6 DEF ListDigests
    <3>2. cur \in Class /\ cur \in Repo  BY <1>2, <3>1 DEF PhaseOK
    <3>3. Listed'
      <4> SUFFICES ASSUME NEW x \in steady, x[1] = cur
                   PROVE  ManifestItem(x[1], x[2]) \in want \cup todo'
          BY <2>1, <3>1 DEF Listed
      <4>1. ManifestItem(x[1], x[2]) \in Items(x)  BY <2>3, ImageItems
      <4>2. Has(job.old, ManifestItem(x[1], x[2]))
            BY <3>1, <3>2, <4>1 DEF SourceHas, Copying
      <4>3. ManifestItem(x[1], x[2]) \in list_manifest_digests(job.old, cur)
            BY <1>2, <2>3, <3>2, <4>2, ListedItems
      <4> QED BY <3>1, <4>3
    <3>4. CopiedHas' /\ Closed'  BY <2>1, <3>1 DEF CopiedHas, Closed, Copying
    <3> QED BY <2>2, <3>1, <3>3, <3>4 DEF Wanted, MovedHas, Copying
  <2>7. ASSUME NEW item \in Content, ReadDigest(item) PROVE BackfillInv'
    <3>1. /\ mpc = "digests" /\ item \in todo /\ todo' = todo \ {item}
          /\ want' = IF Has(job.old, item) THEN want \cup Items(<<cur, item.name>>) ELSE want
          /\ UNCHANGED <<mpc, left, cur, ptrs, buf>>
          BY <2>7 DEF ReadDigest
    <3>2. PICK m \in Manifest : item = ManifestItem(cur, m) /\ item.name = m
          BY <3>1, Kinds DEF PhaseOK
    <3>3. cur \in Repo /\ cur \in Class  BY <1>2, <3>1 DEF PhaseOK
    <3>4. /\ \A n \in Manifest : ManifestItem(cur, n) \in Items(<<cur, m>>) => n = m
          /\ item \in Items(<<cur, m>>)
          BY <3>2, <3>3, ImageItems
    <3>5. want' = IF Has(job.old, item) THEN want \cup Items(<<cur, m>>) ELSE want
          BY <3>1, <3>2
    <3>6. Closed'  BY <3>1, <3>4, <3>5 DEF Closed
    <3>7. Listed'
      <4> SUFFICES ASSUME NEW x \in steady, x[1] = cur
                   PROVE  ManifestItem(x[1], x[2]) \in want' \cup todo'
          BY <2>1, <3>1 DEF Listed
      <4>1. ManifestItem(x[1], x[2]) \in want \cup todo  BY <3>1 DEF Listed
      <4>2. CASE ManifestItem(x[1], x[2]) # item  BY <3>1, <3>5, <4>1, <4>2
      <4>3. CASE ManifestItem(x[1], x[2]) = item
        <5>1. item \in Items(x)  BY <2>3, <4>3, ImageItems
        <5>2. Has(job.old, item)  BY <3>1, <3>3, <5>1 DEF SourceHas, Copying
        <5> QED BY <3>4, <3>5, <4>3, <5>2
      <4> QED BY <4>2, <4>3
    <3>8. CopiedHas'  BY <2>1, <3>1 DEF CopiedHas, Copying
    <3> QED BY <2>2, <3>1, <3>6, <3>7, <3>8 DEF Wanted, MovedHas, Copying
  <2>8. CASE StartCopy
    <3>1. mpc = "digests" /\ todo = {} /\ mpc' = "copy" /\ UNCHANGED copying
          BY <2>8 DEF StartCopy
    <3>2. Wanted'
      <4> SUFFICES ASSUME NEW x \in steady, x[1] = cur PROVE Items(x) \subseteq want
          BY <2>1, <3>1 DEF Wanted, copying
      <4>1. ManifestItem(x[1], x[2]) \in want  BY <3>1 DEF Listed
      <4>2. x[2] \in Manifest /\ x = <<cur, x[2]>>  BY <2>3
      <4> QED BY <3>1, <4>1, <4>2 DEF Closed
    <3>3. CopiedHas'  BY <2>1, <3>1 DEF CopiedHas, Copying, copying
    <3> QED BY <2>2, <3>1, <3>2, <3>3 DEF Closed, Listed, MovedHas, Copying
  <2>9. ASSUME NEW item \in Content, FetchItem(item) PROVE BackfillInv'
    <3>1. /\ mpc = "copy" /\ buf = None /\ item \in want /\ want' = want \ {item}
          /\ buf' = IF item \notin content[job.to] /\ Has(job.old, item) THEN item ELSE None
          /\ UNCHANGED <<mpc, left, cur, todo, ptrs>>
          BY <2>9 DEF FetchItem
    <3>2. cur \in Class  BY <1>2, <3>1 DEF PhaseOK
    <3>3. Wanted'
      <4> SUFFICES ASSUME NEW x \in steady, x[1] = cur, NEW i \in Items(x)
                   PROVE  i \in want' \cup {buf'} \cup content[job.to]
          BY <2>1, <3>1 DEF Wanted
      <4>1. i \in want \cup {buf} \cup content[job.to]  BY <3>1 DEF Wanted
      <4>2. i # None  BY <2>3, ImageItems, RepoFacts
      <4>3. Has(job.old, i)  BY <3>1, <3>2 DEF SourceHas, Copying
      <4> QED BY <3>1, <4>1, <4>2, <4>3
    <3>4. CopiedHas'  BY <2>1, <3>1 DEF CopiedHas, Copying
    <3> QED BY <2>2, <3>1, <3>3, <3>4 DEF Closed, Listed, MovedHas, Copying
  <2>10. ASSUME NEW ptr \in Pointers, FetchTag(ptr) PROVE BackfillInv'
    <3>1. mpc = "copy" /\ buf = None /\ UNCHANGED <<mpc, left, cur, todo, want>>
          BY <2>10 DEF FetchTag
    <3>2. buf \notin Content  BY <3>1, RepoFacts
    <3>3. Wanted'
      <4> SUFFICES ASSUME NEW x \in steady, x[1] = cur, NEW i \in Items(x)
                   PROVE  i \in want \cup content[job.to]
          BY <2>1, <3>1 DEF Wanted
      <4>1. i \in want \cup {buf} \cup content[job.to]  BY <3>1 DEF Wanted
      <4>2. i \in Content  BY <2>3, ImageItems
      <4> QED BY <3>2, <4>1, <4>2
    <3>4. CopiedHas'  BY <2>1, <3>1 DEF CopiedHas, Copying
    <3> QED BY <2>2, <3>1, <3>3, <3>4 DEF Closed, Listed, MovedHas, Copying
  <2>11. CASE EndRepo
    <3>1. /\ mpc = "copy" /\ buf = None /\ want = {} /\ mpc' = "backfill" /\ left' = left
          BY <2>11 DEF EndRepo
    <3>2. CopiedHas'
      <4> SUFFICES ASSUME NEW x \in steady, x[1] \in Class \ left
                   PROVE  Items(x) \subseteq content[job.to]
          BY <2>1, <3>1 DEF CopiedHas
      <4>1. CASE x[1] # cur  BY <3>1, <4>1 DEF CopiedHas, Copying
      <4>2. CASE x[1] = cur
        <5>1. Items(x) \subseteq {None} \cup content[job.to]  BY <3>1, <4>2 DEF Wanted
        <5>2. None \notin Items(x)  BY <2>3, ImageItems, RepoFacts
        <5> QED BY <5>1, <5>2
      <4> QED BY <4>1, <4>2
    <3> QED BY <2>2, <3>1, <3>2 DEF Closed, Listed, Wanted, MovedHas, Copying
  <2>12. ASSUME mpc \in {"purge", "sweep"}, mpc' \in {"purge", "sweep", "done"} PROVE BackfillInv'
    <3>1. job.drain  BY <2>12 DEF PhaseOK
    <3> QED BY <1>1, <2>1, <2>12, <3>1 DEF SourceHas, CopiedHas, Closed, Listed, Wanted, MovedHas,
           Copying
  <2>13. CASE (\E r \in Class : PurgeRepo(r)) \/ Mark \/ Done
    BY <2>12, <2>13 DEF PurgeRepo, Mark, Done
  <2> QED BY <1>14, <2>4, <2>5, <2>6, <2>7, <2>8, <2>9, <2>10, <2>11, <2>13 DEF Plan
<1> QED BY <1>3, <1>5, <1>6, <1>7, <1>8, <1>9, <1>11, <1>12, <1>13, <1>14, NextCases, StepCases

LEMMA BackfillAlways == ASSUME Hidden = {} PROVE Spec => []BackfillInv
<1>1. Init => BackfillInv
      BY DEF Init, BackfillInv, Spared, SourceHas, CopiedHas, Closed, Listed, Wanted, MovedHas,
         Copying
<1>2. TypeInv /\ BackfillInv /\ [Next]_vars => BackfillInv'  BY BackfillStep
<1> QED BY <1>1, <1>2, TypesAlways, PTL DEF Spec

-----------------------------------------------------------------------------
(* Zero miss.                                                              *)

(* No volume is drained to itself: such a migration would purge there what *)
(* it finds to be copied already.                                          *)
Apart == mpc # "idle" /\ job.drain => job.to \notin Volumes(job.old)

(* And no restart, which forgets where a class was moved to.               *)
Fresh == restarts = 0 /\ Apart

StayersHave == \A x \in steady : x[1] \notin Class => Items(x) \subseteq content[Origin]

DestinationHas == mpc \in {"purge", "sweep"} =>
    \A x \in steady : x[1] \in Class => Items(x) \subseteq content[job.to]

(* No blob of an image that stays is on the list of the sweep.             *)
SweepSpares == mpc = "sweep" /\ Origin \in Volumes(job.old) =>
    \A x \in steady : x[1] \notin Class => todo \cap Items(x) = {}

KeptInv == ImagesKept /\ StayersHave /\ DestinationHas /\ SweepSpares

LEMMA ServedIf ==
    ASSUME StoreOK, NEW x \in Image
    PROVE  /\ x[1] \notin Class => (Served(x) <=> Items(x) \subseteq content[Origin])
           /\ x[1] \in Class => (Served(x) <=> \A item \in Items(x) : Has(rule, item))
BY OneVolume DEF Served, resolve, Has

(* At the collapse all is on the destination.                              *)
LEMMA CollapseHas ==
    ASSUME TypeInv, BackfillInv, Collapse, NEW x \in steady, x[1] \in Class
    PROVE  Items(x) \subseteq content[job.to]
<1>1. mpc = "backfill" /\ left = {} /\ cur = None  BY DEF Collapse, TypeInv, PhaseOK
<1>2. x[1] \in Class \ (left \cup {cur})  BY <1>1, RepoFacts
<1> QED BY <1>1, <1>2 DEF BackfillInv, CopiedHas, Copying

LEMMA KeptStep ==
    ASSUME Hidden = {}, TypeInv, BackfillInv, KeptInv, Fresh, Fresh', [Next]_vars
    PROVE  KeptInv'
<1> USE DEF TypeInv, BackfillInv, KeptInv
<1>1. JobOK' /\ PhaseOK' /\ StoreOK'  BY PhaseStep, StoreStep
<1>2. /\ job.to \in Volume /\ job.old \in Backend /\ rule \in Backend /\ Origin \in Volume
      /\ steady \subseteq Image
      BY RepoFacts DEF JobOK, HistoryOK
<1>3. \A x \in steady : x[1] \in Repo /\ x[2] \in Manifest /\ x = <<x[1], x[2]>>
      BY <1>2, ImagePair
<1>4. ASSUME NEW to \in Target, NEW drain \in Drains, Start(to, drain) PROVE KeptInv'
  <2>1. /\ mpc' = "listed" /\ rule' = rule /\ content' = content
        /\ steady' \subseteq {x \in Image : Served(x)}
        BY <1>4 DEF Start, store
  <2>2. ImagesKept'  BY <2>1 DEF ImagesKept, Served, Has, resolve
  <2>3. StayersHave'  BY <2>1, ServedIf DEF StayersHave
  <2> QED BY <2>1, <2>2, <2>3 DEF DestinationHas, SweepSpares
<1>5. ASSUME Quietly PROVE KeptInv'
  <2>1. steady' \subseteq steady  BY <1>5, SteadyMoves
  <2>2. \A x \in steady', v \in Volume : Items(x) \cap content[v] \subseteq content'[v]
        BY <1>5, <2>1, Survives
  <2>3. StayersHave'  BY <1>2, <2>1, <2>2 DEF StayersHave
  <2>4. \/ rule' = rule /\ mpc' \in {mpc, "failed"} \cup Copying /\ UNCHANGED <<job, todo>>
        \/ rule' = rule /\ mpc' \notin {"purge", "sweep"} /\ job' = job
        \/ Mark \/ Overlay \/ Collapse \/ (\E r \in Class : PurgeRepo(r))
    <3>1. CASE Requests  BY <3>1, RequestKeeps DEF copying
    <3>2. CASE Write  BY <3>2, StepKeeps
    <3>3. CASE Fail  BY <3>3 DEF Fail, End
    <3>4. CASE Restart
      <4>1. restarts' = restarts + 1  BY <3>4 DEF Restart
      <4> QED BY <4>1 DEF Fresh
    <3>5. CASE UNCHANGED vars  BY <3>5 DEF vars, copying
    <3>6. CASE Plan
      <4>1. rule' = rule /\ job' = job  BY <3>6, PlanKeeps
      <4>2. CASE \E r \in Class : CopyRepo(r)  BY <4>1, <4>2 DEF CopyRepo
      <4>3. CASE \E item \in TagItems : ReadTag(item)  BY <4>1, <4>3 DEF ReadTag, End
      <4>4. CASE ListDigests \/ StartCopy \/ EndRepo \/ Done
            BY <4>1, <4>4 DEF ListDigests, StartCopy, EndRepo, Done
      <4>5. CASE \E item \in Content : ReadDigest(item)  BY <4>1, <4>5 DEF ReadDigest
      <4>6. CASE \E item \in Content : FetchItem(item)  BY <4>1, <4>6 DEF FetchItem
      <4>7. CASE \E ptr \in Pointers : FetchTag(ptr)  BY <4>1, <4>7 DEF FetchTag
      <4> QED BY <3>6, <4>2, <4>3, <4>4, <4>5, <4>6, <4>7 DEF Plan
    <3> QED BY <1>5, <3>1, <3>2, <3>3, <3>4, <3>5, <3>6 DEF Quietly
  <2>5. ASSUME rule' = rule PROVE ImagesKept'
    <3> SUFFICES ASSUME NEW x \in steady' PROVE Served(x)'
        BY DEF ImagesKept
    <3>1. x \in steady /\ x \in Image /\ Served(x)  BY <1>2, <2>1 DEF ImagesKept
    <3>2. CASE x[1] \notin Class
      <4>1. Items(x) \subseteq content'[Origin]  BY <2>3, <3>2 DEF StayersHave
      <4> QED BY <3>2, <4>1, OneVolume DEF Served, resolve, Has
    <3>3. CASE x[1] \in Class
      <4>1. \A item \in Items(x) : Has(rule, item)  BY <3>1, <3>3, ServedIf
      <4>2. \A item \in Items(x) : \E v \in Volumes(rule) : item \in content'[v]
            BY <1>2, <1>5, <3>1, <4>1, KeepsHas
      <4> QED BY <2>5, <3>3, <4>2 DEF Served, resolve, Has
    <3> QED BY <3>2, <3>3
  <2>6. ASSUME Overlay PROVE KeptInv'
    <3>1. mpc = "listed" /\ rule = job.old /\ mpc' = "backfill" /\ rule' = <<job.to>> \o job.old
          BY <2>6 DEF Overlay, JobOK
    <3>2. Volumes(rule) \subseteq Volumes(rule')  BY <1>2, <3>1, OnTop
    <3>3. ImagesKept'
      <4> SUFFICES ASSUME NEW x \in steady' PROVE Served(x)'
          BY DEF ImagesKept
      <4>1. x \in steady /\ x \in Image /\ Served(x)  BY <1>2, <2>1 DEF ImagesKept
      <4>2. CASE x[1] \notin Class
        <5>1. Items(x) \subseteq content'[Origin]  BY <2>3, <4>2 DEF StayersHave
        <5> QED BY <4>2, <5>1, OneVolume DEF Served, resolve, Has
      <4>3. CASE x[1] \in Class
        <5>1. \A item \in Items(x) : Has(rule, item)  BY <4>1, <4>3, ServedIf
        <5>2. \A item \in Items(x) : \E v \in Volumes(rule) : item \in content'[v]
              BY <1>2, <1>5, <4>1, <5>1, KeepsHas
        <5>3. \A item \in Items(x) : \E v \in Volumes(rule') : item \in content'[v]
              BY <3>2, <5>2
        <5> QED BY <4>3, <5>3 DEF Served, resolve, Has
      <4> QED BY <4>2, <4>3
    <3> QED BY <2>3, <3>1, <3>3 DEF DestinationHas, SweepSpares
  <2>7. ASSUME Collapse PROVE KeptInv'
    <3>1. mpc' \in {"purge", "done"} /\ rule' = <<job.to>> /\ job' = job
          BY <2>7 DEF Collapse
    <3>2. \A x \in steady' : x[1] \in Class => Items(x) \subseteq content'[job.to]
      <4>1. \A x \in steady' : x[1] \in Class => Items(x) \subseteq content[job.to]
            BY <2>1, <2>7, CollapseHas
      <4> QED BY <1>2, <2>2, <4>1
    <3>3. ImagesKept'
      <4> SUFFICES ASSUME NEW x \in steady' PROVE Served(x)'
          BY DEF ImagesKept
      <4>1. CASE x[1] \notin Class
        <5>1. Items(x) \subseteq content'[Origin]  BY <2>3, <4>1 DEF StayersHave
        <5> QED BY <4>1, <5>1, OneVolume DEF Served, resolve, Has
      <4>2. CASE x[1] \in Class
        <5>1. Volumes(rule') = {job.to}  BY <3>1, OneVolume
        <5> QED BY <3>2, <4>2, <5>1 DEF Served, resolve, Has
      <4> QED BY <4>1, <4>2
    <3> QED BY <2>3, <3>1, <3>2, <3>3 DEF DestinationHas, SweepSpares
  <2>8. ASSUME job' = job, mpc' \in {"purge", "sweep"}, mpc \in {"purge", "sweep"}
        PROVE  DestinationHas'
        BY <1>2, <2>1, <2>2, <2>8 DEF DestinationHas
  <2>9. ASSUME Mark PROVE KeptInv'
    <3> DEFINE held == UNION {content[v] : v \in Volumes(job.old)}
    <3>1. mpc = "purge" /\ mpc' = "sweep" /\ job' = job /\ rule' = rule  BY <2>9 DEF Mark
    <3>2. \A i \in todo' : i.kind = "blob" /\
              \A n \in held : n.kind = "manifest" /\ n.repo \in list_repos(job.old) =>
                                  i \notin Blobs(n.name)
          BY <2>9 DEF Mark
    <3>3. SweepSpares'
      <4> SUFFICES ASSUME Origin \in Volumes(job.old), NEW x \in steady', x[1] \notin Class,
                          NEW i \in todo', i \in Items(x)
                   PROVE  FALSE
          BY <3>1 DEF SweepSpares
      <4>1. Items(x) \subseteq content[Origin]  BY <2>1 DEF StayersHave
      <4>2. x[1] \in Repo /\ x[2] \in Manifest /\ x = <<x[1], x[2]>>  BY <1>3, <2>1
      <4>3. ManifestItem(x[1], x[2]) \in held  BY <4>1, <4>2, ImageItems
      <4>4. /\ ManifestItem(x[1], x[2]).kind = "manifest"
            /\ ManifestItem(x[1], x[2]).name = x[2]
            /\ ManifestItem(x[1], x[2]).repo = x[1]
            BY DEF ManifestItem
      <4>5. x[1] \in list_repos(job.old)
        <5>1. x[1] \in known[Origin]
              BY <1>2, <4>1, <4>2, ImageItems DEF StoreOK, KnownOK
        <5> QED BY <5>1 DEF list_repos
      <4>6. i \notin Blobs(x[2])  BY <3>2, <4>3, <4>4, <4>5
      <4>7. i = ManifestItem(x[1], x[2])  BY <4>6 DEF Items
      <4> QED BY <3>2, <4>4, <4>7
    <3> QED BY <2>3, <2>5, <2>8, <3>1, <3>3
  <2>10. ASSUME NEW r \in Class, PurgeRepo(r) PROVE KeptInv'
    <3>1. mpc = "purge" /\ mpc' = mpc /\ rule' = rule /\ job' = job  BY <2>10 DEF PurgeRepo
    <3> QED BY <2>3, <2>5, <2>8, <3>1 DEF SweepSpares
  <2>11. ASSUME rule' = rule, mpc' \in {mpc, "failed"} \cup Copying, UNCHANGED <<job, todo>>
         PROVE  KeptInv'
    <3>1. DestinationHas'  BY <2>8, <2>11 DEF DestinationHas, Copying
    <3>2. SweepSpares'  BY <2>1, <2>11 DEF SweepSpares, Copying
    <3> QED BY <2>3, <2>5, <2>11, <3>1, <3>2
  <2>12. ASSUME rule' = rule, mpc' \notin {"purge", "sweep"}, job' = job PROVE KeptInv'
         BY <2>3, <2>5, <2>12 DEF DestinationHas, SweepSpares
  <2> QED BY <2>4, <2>6, <2>7, <2>9, <2>10, <2>11, <2>12
<1>6. CASE Clear
  <2>1. /\ mpc \in {"purge", "sweep"} /\ UNCHANGED <<rule, mpc, job>> /\ steady' \subseteq steady
        /\ rule = <<job.to>> /\ job.to \notin Volumes(job.old)
        BY <1>6, ClearRemoves, StepKeeps, SteadyMoves DEF Fresh, Apart, JobOK, PhaseOK
  <2>2. PICK item \in todo :
            /\ todo' = todo \ {item}
            /\ mpc = "purge" => item \in ManifestItems \cup TagItems /\ item.repo \in Class
            /\ mpc = "sweep" => item \in BlobItems
            /\ \A w \in Volume : /\ content[w] \subseteq content'[w] \cup {item}
                                 /\ w \notin Volumes(job.old) => content'[w] = content[w]
        BY <1>6, ClearRemoves
  <2>3. DestinationHas'  BY <1>2, <2>1, <2>2 DEF DestinationHas
  <2>4. SweepSpares'  BY <2>1, <2>2 DEF SweepSpares
  <2>5. StayersHave'
    <3> SUFFICES ASSUME NEW x \in steady', x[1] \notin Class PROVE Items(x) \subseteq content'[Origin]
        BY DEF StayersHave
    <3>1. x \in steady /\ Items(x) \subseteq content[Origin]  BY <2>1 DEF StayersHave
    <3>2. CASE Origin \notin Volumes(job.old)  BY <1>2, <2>2, <3>1, <3>2
    <3>3. CASE mpc = "sweep" /\ Origin \in Volumes(job.old)
      <4>1. item \notin Items(x)  BY <3>1, <3>3 DEF SweepSpares
      <4> QED BY <1>2, <2>2, <3>1, <4>1
    <3>4. CASE mpc = "purge"
      <4>1. item \in ManifestItems \cup TagItems /\ item.repo \in Class  BY <2>2, <3>4
      <4>2. x[1] \in Repo /\ x[2] \in Manifest /\ x = <<x[1], x[2]>>  BY <1>3, <3>1
      <4>3. item \in Items(x) => item = ManifestItem(x[1], x[2])
            BY <4>1, <4>2, ImageItems, Kinds, ContentParts
      <4>4. item \notin Items(x)  BY <4>1, <4>3, Kinds
      <4> QED BY <1>2, <2>2, <3>1, <4>4
    <3> QED BY <2>1, <3>2, <3>3, <3>4
  <2>6. ImagesKept'
    <3> SUFFICES ASSUME NEW x \in steady' PROVE Served(x)'
        BY DEF ImagesKept
    <3>1. CASE x[1] \notin Class
      <4>1. Items(x) \subseteq content'[Origin]  BY <2>5, <3>1 DEF StayersHave
      <4> QED BY <3>1, <4>1, OneVolume DEF Served, resolve, Has
    <3>2. CASE x[1] \in Class
      <4>1. Volumes(rule') = {job.to}  BY <2>1, OneVolume
      <4>2. Items(x) \subseteq content'[job.to]  BY <2>1, <2>3, <3>2 DEF DestinationHas
      <4> QED BY <3>2, <4>1, <4>2 DEF Served, resolve, Has
    <3> QED BY <3>1, <3>2
  <2> QED BY <2>3, <2>4, <2>5, <2>6
<1> QED BY <1>4, <1>5, <1>6, QuietCases

(* Zero miss: an image that was served when a migration started and that   *)
(* nobody deleted is served at every moment of it and afterwards, whatever *)
(* clients do and wherever migrations fail, as long as the process is not  *)
(* restarted and no migration drains the volume it moves to. All           *)
(* repositories are taken to be listed (walk_repos): one that is not is    *)
(* neither copied nor marked.                                              *)
THEOREM ZeroMiss == ASSUME Hidden = {} PROVE Spec /\ []Fresh => []ImagesKept
<1>1. Init => KeptInv
      BY DEF Init, KeptInv, ImagesKept, StayersHave, DestinationHas, SweepSpares
<1>2. TypeInv /\ BackfillInv /\ KeptInv /\ Fresh /\ Fresh' /\ [Next]_vars => KeptInv'
      BY KeptStep
<1>3. KeptInv => ImagesKept  BY DEF KeptInv
<1> QED BY <1>1, <1>2, <1>3, TypesAlways, BackfillAlways, PTL DEF Spec

-----------------------------------------------------------------------------
(* Reads.                                                                  *)

(* The last volume a read looks at: the old one, or after a migration      *)
(* without drain the destination.                                          *)
LeadsOn(be, r) == be[Len(be)] = Origin \/ (be = <<job.to>> /\ r \in Class /\ mpc = "done")

ReadsLead == \A c \in Client :
    call[c] # None /\ call[c].op = "read" => LeadsOn(call[c].via, call[c].repo)

RuleLeads == mpc # "done" => rule[Len(rule)] = Origin

OriginHas == \A x \in steady : Items(x) \subseteq content[Origin]

(* During the first migration.                                             *)
FirstInv ==
    /\ runs = 0 => mpc = "idle" /\ rule = <<Origin>> /\ steady = {} /\ ~job.drain
    /\ job.old = <<Origin>>
    /\ ~job.drain => RuleLeads /\ OriginHas /\ ReadsLead
    /\ ReadersServed

ReadInv == runs <= 1 => FirstInv

(* A read has just resolved its backend, or is at the same volume or the   *)
(* next one.                                                               *)
LEMMA ReadsFrom ==
    ASSUME CallsOK, NEW c \in Client, Requests \/ UNCHANGED call,
           call'[c] # None, call'[c].op = "read"
    PROVE  \/ call'[c].repo \in Repo /\ call'[c].via = resolve(call'[c].repo)
           \/ /\ call[c] # None /\ call[c].op = "read" /\ call'[c].repo = call[c].repo
              /\ call'[c].item = call[c].item
              /\ \/ call'[c].via = call[c].via
                 \/ /\ Len(call[c].via) # 1 /\ call'[c].via = Tail(call[c].via)
                    /\ call[c].item \notin content[Head(call[c].via)]
<1> DEFINE Old == /\ call[c] # None /\ call[c].op = "read" /\ call'[c].repo = call[c].repo
                  /\ call'[c].item = call[c].item
                  /\ \/ call'[c].via = call[c].via
                     \/ /\ Len(call[c].via) # 1 /\ call'[c].via = Tail(call[c].via)
                        /\ call[c].item \notin content[Head(call[c].via)]
           New == call'[c].repo \in Repo /\ call'[c].via = resolve(call'[c].repo)
<1>1. ASSUME NEW d \in Client, NEW k, call' = [call EXCEPT ![d] = k],
             k = None \/ k.op # "read" \/ c # d
      PROVE  Old
      BY <1>1 DEF CallsOK
<1>2. ASSUME NEW d \in Client, NEW r \in Repo, NEW t \in Tag, NEW m \in Manifest,
             StartPush(d, r, t, m)
      PROVE  Old
  <2> DEFINE k == [op |-> "blob", repo |-> r, item |-> ManifestItem(r, m), tag |-> t,
                   via |-> resolve(r)]
  <2>1. k.op # "read" /\ call' = [call EXCEPT ![d] = k]  BY <1>2 DEF StartPush
  <2> HIDE DEF k, Old
  <2> QED BY <1>1, <2>1
<1>3. ASSUME NEW d \in Client, PushBlobs(d) PROVE Old
  <2> DEFINE k == [call[d] EXCEPT !.op = "blobbed"]
  <2>1. call[d] # None /\ CallOK(call[d]) /\ call[d].op = "blob"
        BY <1>3 DEF PushBlobs, CallsOK
  <2>2. k.op # "read"  BY <2>1 DEF CallOK, Call
  <2>3. call' = [call EXCEPT ![d] = k]  BY <1>3 DEF PushBlobs
  <2> HIDE DEF k, Old
  <2> QED BY <1>1, <2>2, <2>3
<1>4. ASSUME NEW d \in Client, StartPut(d) PROVE Old
  <2> DEFINE k == [call[d] EXCEPT !.op = "manifest", !.via = resolve(call[d].repo)]
  <2>1. call[d] # None /\ CallOK(call[d]) /\ call[d].op = "blobbed"
        BY <1>4 DEF StartPut, CallsOK
  <2>2. k.op # "read"  BY <2>1 DEF CallOK, Call
  <2>3. call' = [call EXCEPT ![d] = k]  BY <1>4 DEF StartPut, CallsOK
  <2> HIDE DEF k, Old
  <2> QED BY <1>1, <2>2, <2>3
<1>5. ASSUME NEW d \in Client, FinishPut(d) \/ GiveUp(d) PROVE Old
  <2>1. call' = [call EXCEPT ![d] = None]  BY <1>5 DEF FinishPut, GiveUp
  <2> QED BY <1>1, <2>1
<1>6. ASSUME NEW d \in Client, NEW r \in Repo, NEW item \in Content, StartRead(d, r, item)
      PROVE  Old \/ New
  <2> DEFINE k == [op |-> "read", repo |-> r, item |-> item, via |-> resolve(r)]
  <2>1. k.repo = r /\ k.via = resolve(r) /\ call' = [call EXCEPT ![d] = k]
        BY <1>6 DEF StartRead
  <2> HIDE DEF k
  <2>2. c = d => call'[c] = k  BY <2>1 DEF CallsOK
  <2> QED BY <1>1, <2>1, <2>2
<1>7. ASSUME NEW d \in Client, NEW r \in Repo, NEW item \in Content \cup TagItems,
             StartDelete(d, r, item)
      PROVE  Old
  <2> DEFINE k == [op |-> "delete", repo |-> r, item |-> item, via |-> resolve(r)]
  <2>1. k.op # "read" /\ call' = [call EXCEPT ![d] = k]  BY <1>7 DEF StartDelete
  <2> HIDE DEF k, Old
  <2> QED BY <1>1, <2>1
<1>8. ASSUME NEW d \in Client, ReadVolume(d) \/ DeleteOnVolume(d) PROVE Old
  <2> DEFINE k == [call[d] EXCEPT !.via = Tail(call[d].via)]
  <2>1. /\ call[d] # None
        /\ \/ call' = [call EXCEPT ![d] = None]
           \/ /\ Len(call[d].via) # 1 /\ call' = [call EXCEPT ![d] = k]
              /\ call[d].op = "delete" \/ call[d].item \notin content[Head(call[d].via)]
        BY <1>8 DEF ReadVolume, DeleteOnVolume
  <2>2. CallOK(call[d]) /\ call[d] \in Call  BY <2>1 DEF CallsOK, CallOK
  <2>3. /\ k.op = call[d].op /\ k.repo = call[d].repo /\ k.item = call[d].item
        /\ k.via = Tail(call[d].via)
        BY <2>2 DEF Call
  <2> HIDE DEF k
  <2>4. CASE call' = [call EXCEPT ![d] = None]
    <3> HIDE DEF Old
    <3> QED BY <1>1, <2>4
  <2>5. CASE /\ Len(call[d].via) # 1 /\ call' = [call EXCEPT ![d] = k]
             /\ call[d].op = "delete" \/ call[d].item \notin content[Head(call[d].via)]
    <3>1. call'[c] = IF c = d THEN k ELSE call[c]  BY <2>5 DEF CallsOK
    <3> QED BY <2>1, <2>3, <2>5, <3>1
  <2> QED BY <2>1, <2>4, <2>5
<1>9. CASE Requests
  <2>1. Old \/ New
    <3> HIDE DEF Old, New
    <3> QED BY <1>2, <1>3, <1>4, <1>5, <1>6, <1>7, <1>8, <1>9 DEF Requests
  <2> QED BY <2>1
<1>10. CASE UNCHANGED call  BY <1>10
<1> QED BY <1>9, <1>10

(* A migration that is over, or did not start, takes no step.              *)
LEMMA Running == Overlay \/ Collapse \/ Plan \/ Write \/ Clear \/ Fail
                 => mpc \notin {"idle", "done", "failed"}
BY DEF Overlay, Collapse, Plan, CopyRepo, ReadTag, ListDigests, ReadDigest, StartCopy, FetchItem,
   FetchTag, EndRepo, PurgeRepo, Mark, Done, Write, StoreItem, StoreTag, Clear, Purge, Sweep, Fail

LEMMA ReadsLeadStep ==
    ASSUME TypeInv, ReadsLead, RuleLeads, Requests \/ UNCHANGED call, job' = job,
           rule' = rule \/ mpc # "done", mpc = "done" => mpc' = "done",
           mpc = "done" => rule = <<job.to>>
    PROVE  ReadsLead'
<1> USE DEF TypeInv
<1> SUFFICES ASSUME NEW c \in Client, call'[c] # None, call'[c].op = "read"
             PROVE  LeadsOn(call[c].via, call[c].repo)'
    BY DEF ReadsLead
<1>1. PICK be, r : be = call'[c].via /\ r = call'[c].repo  OBVIOUS
<1>2. LeadsOn(be, r)
  <2>1. CASE r \in Repo /\ be = resolve(r)
    <3>1. CASE r \in Class  BY <2>1, <3>1 DEF resolve, RuleLeads, LeadsOn
    <3>2. CASE r \notin Class
      <4>1. be = <<Origin>>  BY <2>1, <3>2 DEF resolve
      <4>2. be[Len(be)] = Origin  BY <4>1
      <4> QED BY <4>2 DEF LeadsOn
    <3> QED BY <3>1, <3>2
  <2>2. CASE /\ call[c] # None /\ call[c].op = "read" /\ r = call[c].repo
             /\ \/ be = call[c].via
                \/ Len(call[c].via) # 1 /\ be = Tail(call[c].via)
    <3>1. LeadsOn(call[c].via, r)  BY <2>2 DEF ReadsLead
    <3>2. CASE be = call[c].via  BY <3>1, <3>2
    <3>3. CASE Len(call[c].via) # 1 /\ be = Tail(call[c].via)
      <4>1. call[c].via \in Backend /\ call[c].via # <<>>  BY <2>2, CallFields
      <4>2. be[Len(be)] = call[c].via[Len(call[c].via)]  BY <3>3, <4>1, Parts
      <4>3. Len(<<job.to>>) = 1  OBVIOUS
      <4>4. call[c].via[Len(call[c].via)] = Origin  BY <3>1, <3>3, <4>3 DEF LeadsOn
      <4> QED BY <4>2, <4>4 DEF LeadsOn
    <3> QED BY <2>2, <3>2, <3>3
  <2> QED BY <1>1, <2>1, <2>2, ReadsFrom
<1> QED BY <1>1, <1>2 DEF LeadsOn

LEMMA OriginAlone ==
    <<Origin>> \in Backend /\ <<Origin>> # <<>> /\ <<Origin>>[Len(<<Origin>>)] = Origin
BY RepoFacts DEF Backend

LEMMA FirstStart ==
    ASSUME TypeInv, FirstInv, runs = 0, NEW to \in Target, NEW drain \in Drains, Start(to, drain)
    PROVE  FirstInv'
<1> USE DEF TypeInv, FirstInv
<1>1. /\ mpc' = "listed" /\ rule' = rule /\ rule = <<Origin>> /\ runs' = 1
      /\ job'.old = rule /\ content' = content /\ call' = call /\ missed' = missed
      /\ steady' \subseteq {x \in Image : Served(x)} /\ mpc = "idle" /\ ~job.drain
      BY DEF Start, store
<1>2. RuleLeads'
  <2>1. <<Origin>>[Len(<<Origin>>)] = Origin  OBVIOUS
  <2> QED BY <1>1, <2>1 DEF RuleLeads
<1>3. OriginHas'
  <2>1. \A x \in steady' : Items(x) \subseteq content[Origin]
    <3> SUFFICES ASSUME NEW x \in steady' PROVE Items(x) \subseteq content[Origin]  OBVIOUS
    <3>1. x \in Image /\ Served(x)  BY <1>1
    <3> QED BY <1>1, <3>1, OneVolume DEF Served, resolve, Has
  <2> QED BY <1>1, <2>1 DEF OriginHas
<1>4. ReadsLead'
  <2>1. \A c \in Client : call[c] # None /\ call[c].op = "read" =>
            call[c].via[Len(call[c].via)] = Origin
        BY <1>1 DEF ReadsLead, LeadsOn
  <2> QED BY <1>1, <2>1 DEF ReadsLead, LeadsOn
<1>5. ReadersServed'  BY <1>1 DEF ReadersServed
<1> QED BY <1>1, <1>2, <1>3, <1>4, <1>5

(* Nothing a read looks for is missing on the last volume.                 *)
LEMMA ReadHits ==
    ASSUME TypeInv, BackfillInv, FirstInv, NEW c \in Client, ReadVolume(c)
    PROVE  ReadersServed'
<1> USE DEF TypeInv, FirstInv, BackfillInv
<1> SUFFICES ASSUME missed' PROVE FALSE  BY DEF ReadersServed
<1>1. /\ call[c] # None /\ call[c].op = "read" /\ ~job.drain /\ Len(call[c].via) = 1
      /\ call[c].item \notin content[Head(call[c].via)]
      BY DEF ReadVolume, ReadersServed
<1>2. PICK x \in steady : x[1] = call[c].repo /\ call[c].item \in Items(x)
      BY DEF ReadVolume, ReadersServed
<1>3. Head(call[c].via) = call[c].via[Len(call[c].via)]  BY <1>1, CallFields, Parts
<1>4. CASE call[c].via[Len(call[c].via)] = Origin
      BY <1>1, <1>2, <1>3, <1>4 DEF OriginHas
<1>5. CASE call[c].via = <<job.to>> /\ call[c].repo \in Class /\ mpc = "done"
  <2>1. Head(call[c].via) = job.to  BY <1>5
  <2> QED BY <1>1, <1>2, <1>5, <2>1 DEF MovedHas
<1> QED BY <1>1, <1>4, <1>5 DEF ReadsLead, LeadsOn

LEMMA OnlyReadsMiss ==
    ASSUME [Next]_vars
    PROVE  (\E c \in Client : ReadVolume(c)) \/ missed' = missed
<1>1. CASE Requests
      BY <1>1 DEF Requests, StartPush, PushBlobs, StartPut, FinishPut, StartRead, StartDelete,
         DeleteOnVolume, GiveUp
<1>2. CASE Restart  BY <1>2 DEF Restart, history
<1>3. CASE \E to \in Target, drain \in Drains : Start(to, drain)  BY <1>3, OtherKeeps
<1> QED BY <1>1, <1>2, <1>3, QuietCases, StepKeeps, PlanKeeps, OtherKeeps
        DEF Quietly, vars, history

LEMMA ReadStep == ASSUME TypeInv, BackfillInv, ReadInv, [Next]_vars PROVE ReadInv'
<1> USE DEF TypeInv
<1>1. runs \in Nat /\ Origin \in Volume  BY RepoFacts DEF HistoryOK
<1>2. ASSUME NEW to \in Target, NEW drain \in Drains, Start(to, drain) PROVE ReadInv'
  <2>1. runs' = runs + 1  BY <1>2 DEF Start
  <2>2. CASE runs = 0  BY <1>2, <2>2, FirstStart DEF ReadInv
  <2>3. CASE runs # 0
    <3>1. ~(runs' <= 1)  BY <1>1, <2>1, <2>3
    <3> QED BY <3>1 DEF ReadInv
  <2> QED BY <2>2, <2>3
<1>3. ASSUME Quietly \/ Clear PROVE ReadInv'
  <2>1. runs' = runs /\ job' = job /\ steady' \subseteq steady
    <3>1. steady' \subseteq steady  BY <1>3, SteadyMoves
    <3>2. runs' = runs /\ job' = job
          BY <1>3, RequestKeeps, StepKeeps, PlanKeeps, OtherKeeps DEF Quietly, bounds, vars
    <3> QED BY <3>1, <3>2
  <2> SUFFICES ASSUME FirstInv PROVE FirstInv'
      BY <2>1 DEF ReadInv
  <2> USE DEF FirstInv
  <2>2. rule' = rule \/ Overlay \/ Collapse \/ Restart
        BY <1>3, RequestKeeps, StepKeeps, PlanKeeps, OtherKeeps DEF Quietly, vars
  <2>3. runs = 0 => mpc' = "idle" /\ rule' = <<Origin>> /\ steady' = {}
    <3>1. CASE Requests  BY <2>1, <3>1, RequestKeeps
    <3>2. CASE Restart  BY <2>1, <3>2 DEF Restart, End
    <3>3. CASE UNCHANGED vars  BY <2>1, <3>3 DEF vars
    <3> QED BY <1>3, <3>1, <3>2, <3>3, Running DEF Quietly
  <2>4. mpc = "done" => mpc' = "done" \/ Restart
    <3>1. CASE Requests  BY <3>1, RequestKeeps
    <3>2. CASE UNCHANGED vars  BY <3>2 DEF vars
    <3> QED BY <1>3, <3>1, <3>2, Running DEF Quietly
  <2>5. ASSUME ~job.drain PROVE RuleLeads'
    <3>1. CASE Restart
      <4>1. rule' = <<Origin>>  BY <3>1 DEF Restart
      <4>2. <<Origin>>[Len(<<Origin>>)] = Origin  OBVIOUS
      <4> QED BY <4>1, <4>2 DEF RuleLeads
    <3>2. CASE Overlay
      <4>1. rule' = <<job.to>> \o <<Origin>>  BY <3>2 DEF Overlay
      <4>2. rule'[Len(rule')] = Origin
        <5>1. job.to \in Volume  BY DEF JobOK
        <5> QED BY <4>1, <5>1, OriginAlone, OnTop
      <4> QED BY <4>2 DEF RuleLeads
    <3>3. CASE Collapse  BY <2>5, <3>3 DEF Collapse, RuleLeads
    <3>4. CASE rule' = rule /\ ~Restart
      <4>1. CASE mpc = "done"  BY <2>4, <3>4, <4>1 DEF RuleLeads
      <4>2. CASE mpc # "done"  BY <2>5, <3>4, <4>2 DEF RuleLeads
      <4> QED BY <4>1, <4>2
    <3> QED BY <2>2, <3>1, <3>2, <3>3, <3>4
  <2>6. ASSUME ~job.drain PROVE OriginHas'
    <3>1. ~Clear  BY <2>6, ClearRemoves DEF PhaseOK
    <3>2. \A x \in steady' : Items(x) \cap content[Origin] \subseteq content'[Origin]
          BY <1>1, <1>3, <2>1, <3>1, Survives DEF BackfillInv
    <3> QED BY <2>1, <2>6, <3>2 DEF OriginHas
  <2>7. ASSUME ~job.drain PROVE ReadsLead'
    <3>1. CASE Restart
      <4>1. \A c \in Client : call'[c] = None  BY <3>1 DEF Restart
      <4> QED BY <4>1 DEF ReadsLead
    <3>2. CASE ~Restart
      <4>1. Requests \/ UNCHANGED call
            BY <1>3, <3>2, StepKeeps, PlanKeeps, OtherKeeps DEF Quietly, vars
      <4>2. rule' = rule \/ mpc # "done"  BY <2>2, <3>2, Running
      <4>3. mpc = "done" => rule = <<job.to>>  BY DEF JobOK
      <4>4. mpc = "done" => mpc' = "done"  BY <2>4, <3>2
      <4>5. ReadsLead /\ RuleLeads  BY <2>7
      <4> QED BY <2>1, <4>1, <4>2, <4>3, <4>4, <4>5, ReadsLeadStep
    <3> QED BY <3>1, <3>2
  <2>8. ReadersServed'
    <3>1. (\E c \in Client : ReadVolume(c)) \/ missed' = missed  BY OnlyReadsMiss
    <3> QED BY <3>1, ReadHits DEF ReadersServed
  <2> QED BY <2>1, <2>3, <2>5, <2>6, <2>7, <2>8
<1> QED BY <1>2, <1>3, QuietCases

(* No read of a served image comes back empty during the first migration   *)
(* or after it, when nothing is drained: whatever the read was routed to   *)
(* when it began, the last volume it looks at has the image. This and the  *)
(* theorems below take all repositories to be listed, too (walk_repos).    *)
THEOREM ReadsNeverMiss ==
    ASSUME Hidden = {} PROVE Spec => [](runs <= 1 => ReadersServed)
<1>1. Init => ReadInv
  <2> SUFFICES ASSUME Init PROVE FirstInv  BY DEF ReadInv
  <2>1. <<Origin>>[Len(<<Origin>>)] = Origin  OBVIOUS
  <2>2. RuleLeads  BY <2>1 DEF Init, RuleLeads
  <2>3. OriginHas /\ ReadsLead /\ ReadersServed
        BY DEF Init, OriginHas, ReadsLead, ReadersServed
  <2>4. mpc = "idle" /\ rule = <<Origin>> /\ steady = {} /\ ~job.drain /\ job.old = <<Origin>>
        BY DEF Init
  <2> QED BY <2>2, <2>3, <2>4 DEF FirstInv
<1>2. TypeInv /\ BackfillInv /\ ReadInv /\ [Next]_vars => ReadInv'  BY ReadStep
<1>3. ReadInv => (runs <= 1 => ReadersServed)  BY DEF ReadInv, FirstInv
<1> QED BY <1>1, <1>2, <1>3, TypesAlways, BackfillAlways, PTL DEF Spec

(* No read is under way when a migration starts. One that has been waiting *)
(* since before an earlier migration looks at a volume that may lack what  *)
(* has been pushed since then, and is served when the next one starts.     *)
Rested == runs' # runs => \A c \in Client : call[c] = None \/ call[c].op # "read"

(* What a read looks for is on one of the volumes it has yet to look at.   *)
ReadsHave == ~job.drain =>
    \A c \in Client, x \in steady :
        /\ call[c] # None /\ call[c].op = "read"
        /\ call[c].repo = x[1] /\ call[c].item \in Items(x)
        => Has(call[c].via, call[c].item)

LEMMA ReadsHaveStep ==
    ASSUME TypeInv, BackfillInv, ImagesKept, ReadsHave, [Next]_vars, [Rested]_vars
    PROVE  ReadsHave'
<1> USE DEF TypeInv, BackfillInv
<1>1. ASSUME NEW to \in Target, NEW drain \in Drains, Start(to, drain) PROVE ReadsHave'
  <2>1. runs \in Nat  BY RepoFacts DEF HistoryOK
  <2>2. runs' # runs /\ call' = call  BY <1>1, <2>1 DEF Start
  <2>3. Rested  BY <2>2 DEF vars, bounds
  <2> QED BY <2>2, <2>3 DEF Rested, ReadsHave
<1>2. ASSUME Quietly PROVE ReadsHave'
  <2>1. steady' \subseteq steady /\ job' = job
        BY <1>2, SteadyMoves, RequestKeeps, StepKeeps, PlanKeeps, OtherKeeps DEF Quietly, vars
  <2> SUFFICES ASSUME ~job.drain, NEW c \in Client, NEW x \in steady',
                      call'[c] # None, call'[c].op = "read",
                      call'[c].repo = x[1], call'[c].item \in Items(x)
               PROVE  \E v \in Volumes(call'[c].via) : call'[c].item \in content'[v]
      BY <2>1 DEF ReadsHave, Has
  <2>2. PICK be, i : be = call'[c].via /\ i = call'[c].item  OBVIOUS
  <2>3. Requests \/ UNCHANGED call
    <3>1. ~Restart  BY DEF Restart
    <3> QED BY <1>2, <3>1, StepKeeps, PlanKeeps, OtherKeeps DEF Quietly, vars
  <2>4. x \in steady /\ i \in Items(x)  BY <2>1, <2>2
  <2>5. be \in Backend /\ Has(be, i)
    <3>1. CASE be = resolve(x[1])
      <4>1. be \in Backend  BY <3>1, RepoFacts, OriginAlone DEF resolve, JobOK
      <4>2. Served(x)  BY <2>4 DEF ImagesKept
      <4> QED BY <2>4, <3>1, <4>1, <4>2 DEF Served
    <3>2. CASE /\ call[c] # None /\ call[c].op = "read"
               /\ call[c].repo = x[1] /\ call[c].item = i
               /\ \/ be = call[c].via
                  \/ /\ Len(call[c].via) # 1 /\ be = Tail(call[c].via)
                     /\ i \notin content[Head(call[c].via)]
      <4>1. Has(call[c].via, i)  BY <2>4, <3>2 DEF ReadsHave
      <4>2. call[c].via \in Backend /\ call[c].via # <<>>  BY <3>2, CallFields
      <4>3. CASE be = call[c].via  BY <4>1, <4>2, <4>3
      <4>4. CASE /\ Len(call[c].via) # 1 /\ be = Tail(call[c].via)
                 /\ i \notin content[Head(call[c].via)]
        <5>1. be \in Backend  BY <4>2, <4>4, Parts
        <5>2. Volumes(call[c].via) \subseteq {Head(call[c].via)} \cup Volumes(be)
              BY <4>2, <4>4, AllParts
        <5> QED BY <4>1, <4>4, <5>1, <5>2 DEF Has
      <4> QED BY <3>2, <4>3, <4>4
    <3> QED BY <2>2, <2>3, <3>1, <3>2, ReadsFrom
  <2>6. \E v \in Volumes(be) : i \in content'[v]  BY <1>2, <2>4, <2>5, KeepsHas
  <2> QED BY <2>2, <2>6
<1>3. CASE Clear
  <2>1. job.drain /\ job' = job  BY <1>3, ClearRemoves, StepKeeps DEF PhaseOK
  <2> QED BY <2>1 DEF ReadsHave
<1> QED BY <1>1, <1>2, <1>3, QuietCases

(* Nor does any migration after the first make a read come back empty, if  *)
(* it drains nothing: what a read looks for was served when it began, and  *)
(* whatever rule it was routed by, its volumes keep it between them.       *)
THEOREM LaterReadsNeverMiss ==
    ASSUME Hidden = {} PROVE Spec /\ []Fresh /\ [][Rested]_vars => []ReadersServed
<1>1. Init => ReadsHave /\ ReadersServed  BY DEF Init, ReadsHave, ReadersServed
<1>2. TypeInv /\ BackfillInv /\ ImagesKept /\ ReadsHave /\ [Next]_vars /\ [Rested]_vars
      => ReadsHave'
      BY ReadsHaveStep
<1>3. ASSUME TypeInv, ReadsHave, ReadersServed, [Next]_vars PROVE ReadersServed'
  <2>1. (\E c \in Client : ReadVolume(c)) \/ missed' = missed  BY <1>3, OnlyReadsMiss
  <2>2. ASSUME NEW c \in Client, ReadVolume(c) PROVE missed' = missed
    <3> SUFFICES ASSUME missed' # missed PROVE FALSE  OBVIOUS
    <3>1. /\ call[c] # None /\ call[c].op = "read" /\ ~job.drain /\ Len(call[c].via) = 1
          /\ call[c].item \notin content[Head(call[c].via)]
          /\ \E x \in steady : x[1] = call[c].repo /\ call[c].item \in Items(x)
          BY <1>3, <2>2 DEF ReadVolume, ReadersServed, TypeInv, HistoryOK
    <3>2. Has(call[c].via, call[c].item)  BY <1>3, <3>1 DEF ReadsHave
    <3>3. call[c].via \in Backend /\ call[c].via # <<>>  BY <1>3, <3>1, CallFields DEF TypeInv
    <3>4. Volumes(call[c].via) = {Head(call[c].via)}  BY <3>1, <3>3 DEF Volumes, Backend
    <3> QED BY <3>1, <3>2, <3>4 DEF Has
  <2> QED BY <1>3, <2>1, <2>2 DEF ReadersServed
<1> QED BY <1>1, <1>2, <1>3, ZeroMiss, TypesAlways, BackfillAlways, PTL DEF Spec

-----------------------------------------------------------------------------
(* The drain.                                                              *)

(* Nobody is served while the migration is alone.                          *)
QuietOK == quiet => \A c \in Client : call[c] = None

(* What the old backend has of the class is on the list of the migration,  *)
(* then on that of the purge, and then gone.                               *)
ClassOn == quiet /\ mpc \notin {"idle", "failed"} =>
    \A v \in Volumes(job.old), r \in Class, m \in Manifest :
        ManifestItem(r, m) \in content[v] =>
            /\ r \in job.repos
            /\ mpc = "purge" => r \in left \/ ManifestItem(r, m) \in todo
            /\ mpc # "sweep" /\ ~(mpc = "done" /\ job.drain)

(* A manifest that stays uses the blob.                                    *)
StaysOn(b) == \E x \in (Repo \ Class) \X Manifest :
    b \in Items(x) /\ Has(job.old, ManifestItem(x[1], x[2]))

SweptOn == quiet /\ (mpc = "sweep" \/ (mpc = "done" /\ job.drain)) =>
    \A v \in Volumes(job.old) : \A b \in content[v] \cap BlobItems : b \in todo \/ StaysOn(b)

DrainInv == QuietOK /\ ClassOn /\ SweptOn

LEMMA DrainStep == ASSUME Hidden = {}, TypeInv, DrainInv, [Next]_vars PROVE DrainInv'
<1> USE DEF TypeInv, DrainInv
<1>1. JobOK' /\ PhaseOK' /\ StoreOK'  BY PhaseStep, StoreStep
<1>2. /\ job.to \in Volume /\ Volumes(job.old) \subseteq Volume /\ Class \subseteq Repo
      /\ job.repos \subseteq Class
      BY VolumesType, RepoFacts DEF JobOK
<1>3. ASSUME NEW to \in Target, NEW drain \in Drains, Start(to, drain) PROVE DrainInv'
  <2> DEFINE repos == list_repos(rule) \cap Class
  <2>1. /\ mpc' = "listed" /\ job'.old = rule /\ job'.repos = repos /\ content' = content
        /\ call' = call /\ quiet' = \A c \in Client : call[c] = None
        BY <1>3 DEF Start, store
  <2>2. ASSUME NEW v \in Volumes(rule), NEW r \in Class, NEW m \in Manifest,
               ManifestItem(r, m) \in content[v]
        PROVE  r \in repos
    <3>1. v \in Volume /\ r \in Repo  BY <1>2, VolumesType DEF JobOK
    <3> QED BY <2>2, <3>1 DEF StoreOK, KnownOK, list_repos
  <2> HIDE DEF repos
  <2>3. ClassOn'  BY <2>1, <2>2 DEF ClassOn
  <2> QED BY <2>1, <2>3 DEF QuietOK, SweptOn
<1>4. CASE Requests
  <2>1. ~quiet'  BY <1>4, RequestKeeps
  <2> QED BY <2>1 DEF QuietOK, ClassOn, SweptOn
<1>5. ASSUME mpc' \in {"idle", "failed"}, quiet' = quiet,
             call' = call \/ \A c \in Client : call'[c] = None
      PROVE  DrainInv'
      BY <1>5 DEF QuietOK, ClassOn, SweptOn
<1>6. CASE Fail \/ Restart
  BY <1>5, <1>6 DEF Fail, Restart, End, history
<1>7. CASE UNCHANGED vars
  BY <1>7 DEF vars, store, copying, history, QuietOK, ClassOn, SweptOn, StaysOn, Has
<1>8. CASE Overlay
  <2>1. /\ mpc = "listed" /\ mpc' = "backfill" /\ job' = job /\ content' = content
        /\ quiet' = quiet /\ call' = call
        BY <1>8 DEF Overlay, store, history
  <2> QED BY <2>1 DEF QuietOK, ClassOn, SweptOn
<1>9. CASE Collapse
  <2>1. /\ mpc = "backfill" /\ mpc' = IF job.drain THEN "purge" ELSE "done"
        /\ left' = IF job.drain THEN job.repos ELSE {}
        /\ job' = job /\ content' = content /\ quiet' = quiet /\ call' = call
        BY <1>9 DEF Collapse, store, history
  <2>2. ClassOn'  BY <2>1 DEF ClassOn
  <2> QED BY <2>1, <2>2 DEF QuietOK, SweptOn
<1>10. CASE Write
  <2>1. /\ mpc = "copy" /\ mpc' = mpc /\ job' = job /\ quiet' = quiet /\ call' = call
        /\ \A w \in Volume : w # job.to => content'[w] = content[w]
        /\ \A i \in content'[job.to] :
              i \in content[job.to] \/ i \in BlobItems \/ (i \in ManifestItems /\ i.repo = cur)
        BY <1>10, WriteAdds, StepKeeps DEF history
  <2>2. cur \in job.repos  BY <2>1 DEF PhaseOK
  <2>3. ClassOn'
    <3> SUFFICES ASSUME quiet, NEW v \in Volumes(job.old), NEW r \in Class, NEW m \in Manifest,
                        ManifestItem(r, m) \in content'[v]
                 PROVE  r \in job.repos
        BY <2>1 DEF ClassOn
    <3>1. CASE ManifestItem(r, m) \in content[v]  BY <2>1, <3>1 DEF ClassOn
    <3>2. CASE ManifestItem(r, m) \notin content[v]
      <4>1. v = job.to  BY <1>2, <2>1, <3>2
      <4>2. ManifestItem(r, m) \in ManifestItems  BY <1>2, ImageItems
      <4>3. ManifestItem(r, m).repo = cur  BY <2>1, <3>2, <4>1, <4>2, Kinds
      <4> QED BY <2>2, <4>3, Kinds
    <3> QED BY <3>1, <3>2
  <2> QED BY <2>1, <2>3 DEF QuietOK, SweptOn
<1>11. CASE Clear
  <2>1. /\ mpc \in {"purge", "sweep"} /\ mpc' = mpc /\ job' = job /\ quiet' = quiet
        /\ call' = call /\ left' = left
        BY <1>11, ClearRemoves, StepKeeps DEF history
  <2>2. PICK item \in todo :
            /\ todo' = todo \ {item}
            /\ mpc = "sweep" => item \in BlobItems
            /\ \A w \in Volume : /\ content'[w] \subseteq content[w]
                                 /\ content[w] \subseteq content'[w] \cup {item}
                                 /\ w \in Volumes(job.old) => item \notin content'[w]
        BY <1>11, ClearRemoves
  <2>3. ClassOn'
    <3> SUFFICES ASSUME quiet, NEW v \in Volumes(job.old), NEW r \in Class, NEW m \in Manifest,
                        ManifestItem(r, m) \in content'[v]
                 PROVE  /\ r \in job.repos
                        /\ mpc = "purge" => r \in left \/ ManifestItem(r, m) \in todo'
                        /\ mpc # "sweep"
        BY <2>1 DEF ClassOn
    <3>1. ManifestItem(r, m) \in content[v] /\ ManifestItem(r, m) # item  BY <1>2, <2>2
    <3> QED BY <2>1, <2>2, <3>1 DEF ClassOn
  <2>4. SweptOn'
    <3> SUFFICES ASSUME quiet, mpc = "sweep", NEW v \in Volumes(job.old),
                        NEW b \in content'[v] \cap BlobItems
                 PROVE  b \in todo' \/ StaysOn(b)'
        BY <2>1 DEF SweptOn
    <3>1. b \in content[v] /\ b # item  BY <1>2, <2>2
    <3>2. CASE b \in todo  BY <2>2, <3>1, <3>2
    <3>3. CASE StaysOn(b)
      <4>1. PICK x \in (Repo \ Class) \X Manifest :
                b \in Items(x) /\ Has(job.old, ManifestItem(x[1], x[2]))
            BY <3>3 DEF StaysOn
      <4>2. PICK w \in Volumes(job.old) : ManifestItem(x[1], x[2]) \in content[w]
            BY <4>1 DEF Has
      <4>3. ManifestItem(x[1], x[2]) # item
        <5>1. ManifestItem(x[1], x[2]) \in ManifestItems  BY ImageItems
        <5> QED BY <2>2, <5>1, Kinds
      <4>4. ManifestItem(x[1], x[2]) \in content'[w]  BY <1>2, <2>2, <4>2, <4>3
      <4> QED BY <2>1, <4>1, <4>2, <4>4 DEF StaysOn, Has
    <3> QED BY <3>1, <3>2, <3>3 DEF SweptOn
  <2> QED BY <2>1, <2>3, <2>4 DEF QuietOK
<1>12. CASE Plan
  <2>1. job' = job /\ content' = content /\ quiet' = quiet /\ call' = call
        BY <1>12, PlanKeeps DEF store, history
  <2>2. ASSUME mpc \in Copying, mpc' \in Copying \cup {"failed"} PROVE DrainInv'
        BY <2>1, <2>2 DEF QuietOK, ClassOn, SweptOn, Copying
  <2>3. CASE (\E r \in Class : CopyRepo(r)) \/ ListDigests \/ StartCopy \/ EndRepo
        BY <2>2, <2>3 DEF CopyRepo, ListDigests, StartCopy, EndRepo, Copying
  <2>4. CASE \E item \in TagItems : ReadTag(item)
        BY <2>2, <2>4 DEF ReadTag, End, Copying
  <2>5. CASE \E item \in Content : ReadDigest(item) \/ FetchItem(item)
        BY <2>2, <2>5 DEF ReadDigest, FetchItem, Copying
  <2>6. CASE \E ptr \in Pointers : FetchTag(ptr)
        BY <2>2, <2>6 DEF FetchTag, Copying
  <2>7. ASSUME NEW q \in Class, PurgeRepo(q) PROVE DrainInv'
    <3>1. /\ mpc = "purge" /\ mpc' = mpc /\ todo = {} /\ left' = left \ {q}
          /\ list_manifest_digests(job.old, q) \subseteq todo'
          BY <2>7 DEF PurgeRepo
    <3>2. ClassOn'
      <4> SUFFICES ASSUME quiet, NEW v \in Volumes(job.old), NEW r \in Class, NEW m \in Manifest,
                          ManifestItem(r, m) \in content[v]
                   PROVE  r \in job.repos /\ (r \in left' \/ ManifestItem(r, m) \in todo')
          BY <2>1, <3>1 DEF ClassOn
      <4>1. r \in job.repos /\ r \in left  BY <3>1 DEF ClassOn
      <4>2. CASE r # q  BY <3>1, <4>1, <4>2
      <4>3. CASE r = q
        <5>1. Has(job.old, ManifestItem(r, m))  BY DEF Has
        <5>2. ManifestItem(r, m) \in list_manifest_digests(job.old, q)
              BY <1>2, <4>3, <5>1, ListedItems DEF JobOK
        <5> QED BY <3>1, <4>1, <5>2
      <4> QED BY <4>2, <4>3
    <3> QED BY <2>1, <3>1, <3>2 DEF QuietOK, SweptOn
  <2>8. CASE Mark
    <3> DEFINE held == UNION {content[v] : v \in Volumes(job.old)}
    <3>1. mpc = "purge" /\ mpc' = "sweep" /\ todo = {} /\ left = {}  BY <2>8 DEF Mark
    <3>2. todo' = {item \in held : item.kind = "blob"} \
                      UNION {Blobs(item.name) : item \in
                          {i \in held : i.kind = "manifest" /\ i.repo \in list_repos(job.old)}}
          BY <2>8 DEF Mark
    <3>3. quiet => \A v \in Volumes(job.old), r \in Class, m \in Manifest :
                       ManifestItem(r, m) \notin content[v]
          BY <3>1 DEF ClassOn
    <3>4. ClassOn'  BY <2>1, <3>1, <3>3 DEF ClassOn
    <3>5. SweptOn'
      <4> SUFFICES ASSUME quiet, NEW v \in Volumes(job.old), NEW b \in content[v] \cap BlobItems,
                          b \notin todo'
                   PROVE  StaysOn(b)'
          BY <2>1, <3>1 DEF SweptOn
      <4>1. b \in held /\ b.kind = "blob"  BY ItemFacts
      <4>2. PICK i \in held : i.kind = "manifest" /\ b \in Blobs(i.name)  BY <3>2, <4>1
      <4>3. PICK w \in Volumes(job.old) : i \in content[w]  BY <4>2
      <4>4. i \in ManifestItems  BY <1>2, <4>2, <4>3, Kinds DEF StoreOK
      <4>5. PICK r \in Repo, m \in Manifest : i = ManifestItem(r, m) /\ i.name = m
            BY <4>4, ItemFacts
      <4>6. r \notin Class  BY <3>3, <4>3, <4>5
      <4>7. b \in Items(<<r, m>>) /\ Has(job.old, ManifestItem(r, m))
            BY <4>2, <4>3, <4>5 DEF Items, Has
      <4>8. <<r, m>> \in (Repo \ Class) \X Manifest  BY <4>6
      <4>9. StaysOn(b)  BY <4>7, <4>8 DEF StaysOn
      <4> QED BY <2>1, <4>9 DEF StaysOn, Has
    <3> QED BY <2>1, <3>4, <3>5 DEF QuietOK
  <2>9. CASE Done
    <3>1. mpc = "sweep" /\ mpc' = "done" /\ todo' = todo  BY <2>9 DEF Done, copying
    <3>2. ClassOn'  BY <2>1, <3>1 DEF ClassOn
    <3>3. SweptOn'  BY <2>1, <3>1 DEF SweptOn, StaysOn, Has
    <3> QED BY <2>1, <3>2, <3>3 DEF QuietOK
  <2> QED BY <1>12, <2>3, <2>4, <2>5, <2>6, <2>7, <2>8, <2>9 DEF Plan
<1> QED BY <1>3, <1>4, <1>6, <1>7, <1>8, <1>9, <1>10, <1>11, <1>12, NextCases, StepCases

(* A drain that nobody interfered with leaves nothing of the class on the  *)
(* backend it moved from, and no blob that no repository staying there     *)
(* uses, however many volumes that backend has.                            *)
THEOREM DrainComplete == ASSUME Hidden = {} PROVE Spec => []DrainReclaims
<1>1. Init => DrainInv
      BY DEF Init, DrainInv, QuietOK, ClassOn, SweptOn
<1>2. TypeInv /\ DrainInv /\ [Next]_vars => DrainInv'  BY DrainStep
<1>3. TypeInv /\ DrainInv => DrainReclaims
  <2> SUFFICES ASSUME TypeInv, DrainInv, mpc = "done", job.drain, quiet,
                      NEW v \in Volumes(job.old), NEW item \in content[v]
               PROVE  \E x \in (Repo \ Class) \X Manifest :
                          item \in Items(x) /\ Has(job.old, ManifestItem(x[1], x[2]))
      BY DEF DrainReclaims
  <2>1. v \in Volume /\ item \in Content
    <3>1. v \in Volume  BY VolumesType DEF TypeInv, JobOK
    <3> QED BY <3>1 DEF TypeInv, StoreOK
  <2>2. CASE item \in BlobItems
    <3>1. todo = {}  BY DEF TypeInv, PhaseOK
    <3>2. StaysOn(item)  BY <2>2, <3>1 DEF DrainInv, SweptOn
    <3> QED BY <3>2 DEF StaysOn
  <2>3. CASE item \in ManifestItems
    <3>1. PICK r \in Repo, m \in Manifest : item = ManifestItem(r, m)  BY <2>3, ItemFacts
    <3>2. r \notin Class  BY <3>1 DEF DrainInv, ClassOn
    <3>3. <<r, m>> \in (Repo \ Class) \X Manifest  BY <3>2
    <3>4. item \in Items(<<r, m>>) /\ Has(job.old, ManifestItem(r, m))
          BY <3>1, ImageItems DEF Has
    <3> QED BY <3>3, <3>4
  <2> QED BY <2>1, <2>2, <2>3, ContentParts
<1> QED BY <1>1, <1>2, <1>3, TypesAlways, PTL DEF Spec

-----------------------------------------------------------------------------
(* Pushes.                                                                 *)

(* The class has its volumes to itself, nothing is deleted, no push given  *)
(* up, and none under way from the start of a migration to its overlay.    *)
Alone == Class = Repo /\ Ops \subseteq {"push", "read"} /\ Paused

IsPush(c) == call[c] # None /\ call[c].op \in Pushing

(* A push whose blobs are there, and whose manifest is not yet.            *)
Uploaded(c) == call[c] # None /\ call[c].op \in {"blobbed", "manifest"}

NoDeletes == \A c \in Client : call[c] # None => call[c].op # "delete"

(* Before the overlay no push is under way, and the migration knows every  *)
(* repository that has a manifest.                                         *)
Calm == mpc = "listed" =>
    /\ \A c \in Client : ~IsPush(c)
    /\ \A x \in Image : Has(job.old, ManifestItem(x[1], x[2])) => x[1] \in job.repos

(* A push writes where the rule writes, and finds no blob that the rule    *)
(* does not have.                                                          *)
SameHead == \A c \in Client : IsPush(c) =>
    /\ Head(call[c].via) = Head(rule)
    /\ \A i \in BlobItems : Has(call[c].via, i) => Has(rule, i)

Ready == \A c \in Client : Uploaded(c) => \A i \in Blobs(call[c].item.name) : Has(rule, i)

Whole == \A x \in acked : \A i \in Items(x) : Has(rule, i)

(* Whatever is on any volume is part of an acknowledged image, or of one   *)
(* that is being pushed.                                                   *)
PartOf(i) == \/ \E x \in acked : i \in Items(x)
             \/ \E c \in Client : Uploaded(c) /\ i \in Blobs(call[c].item.name)

Stored == \A v \in Volume : \A i \in content[v] : PartOf(i)

(* What the old backend has and the destination does not is still to be    *)
(* copied, for the sake of an image on the old one.                        *)
Owed(i) == Has(job.old, i) /\ i \notin content[job.to]

Due(x, i) ==
    \/ x[1] \in left
    \/ x[1] = cur /\ (mpc = "tags" \/ (mpc = "digests" /\ ManifestItem(x[1], x[2]) \in todo))
    \/ i \in want \cup {buf}

AllDue == mpc \in Copying =>
    \A i \in Content : Owed(i) =>
        \E x \in Image : i \in Items(x) /\ Has(job.old, ManifestItem(x[1], x[2])) /\ Due(x, i)

(* What the copy holds is on the old backend.                              *)
FromOld == mpc = "copy" =>
    /\ buf \in Content => Has(job.old, buf)
    /\ buf \in Pointers => Has(job.old, ManifestItem(cur, buf.target))

CallsInv == NoDeletes /\ SameHead /\ Ready /\ Whole
CopyInv == Calm /\ Stored /\ AllDue /\ FromOld
PushInv == restarts = 0 => CallsInv /\ CopyInv

LEMMA OneRule == ASSUME Alone, NEW r \in Repo PROVE resolve(r) = rule
BY DEF Alone, resolve

LEMMA FirstOnTop == ASSUME NEW v \in Volume, NEW be \in Backend PROVE Head(<<v>> \o be) = v
<1>1. <<v>> \in Seq(Volume) /\ be \in Seq(Volume) /\ Len(<<v>>) = 1 /\ Len(be) \in Nat
      BY DEF Backend
<1>2. <<v>> \o be \in Seq(Volume) /\ Len(<<v>> \o be) = 1 + Len(be)  BY <1>1
<1>3. (<<v>> \o be)[1] = v  BY <1>1, <1>2
<1> QED BY <1>2, <1>3

(* While it copies, the migration and the pushes write to one volume.      *)
LEMMA HeadTo ==
    ASSUME JobOK
    PROVE  /\ mpc \in Copying => Head(rule) = job.to
           /\ mpc \in Copying => Volumes(rule) = {job.to} \cup Volumes(job.old)
BY FirstOnTop, OnTop DEF JobOK

(* A push adds a set of items to the volume the rule writes to.            *)
LEMMA Adds ==
    ASSUME StoreOK, JobOK, NEW S,
           content' = [content EXCEPT ![Head(rule)] = content[Head(rule)] \cup S]
    PROVE  /\ \A w \in Volume : content[w] \subseteq content'[w]
           /\ \A w \in Volume : content'[w] \subseteq content[w] \cup S
           /\ \A w \in Volume : w # Head(rule) => content'[w] = content[w]
           /\ \A i : (\E v \in Volumes(rule) : i \in content'[v]) <=> (Has(rule, i) \/ i \in S)
           /\ \A be \in Backend : \A i : (\E v \in Volumes(be) : i \in content'[v])
                                            => Has(be, i) \/ i \in S
<1>1. Head(rule) \in Volumes(rule) /\ Head(rule) \in Volume  BY Parts DEF JobOK
<1>2. PICK h \in Volume : h = Head(rule)  BY <1>1
<1>3. \A w \in Volume : content'[w] = IF w = h THEN content[w] \cup S ELSE content[w]
      BY <1>2 DEF StoreOK
<1>4. \A be \in Backend : Volumes(be) \subseteq Volume  BY VolumesType
<1>5. rule \in Backend  BY DEF JobOK
<1>6. \A be \in Backend : \A i : (\E v \in Volumes(be) : i \in content'[v])
                                   => Has(be, i) \/ i \in S
      BY <1>3, <1>4 DEF Has
<1>7. \A i : Has(rule, i) \/ i \in S => \E v \in Volumes(rule) : i \in content'[v]
      BY <1>1, <1>2, <1>3, <1>4, <1>5 DEF Has
<1> QED BY <1>2, <1>3, <1>5, <1>6, <1>7

(* Requests that change no store.                                          *)
LEMMA CallsMove ==
    ASSUME CallsInv, UNCHANGED <<content, rule, acked>>,
           \A c \in Client : call'[c] # None =>
              /\ call'[c].op # "delete"
              /\ call'[c].op \in Pushing =>
                    call'[c].via = rule \/ (IsPush(c) /\ call'[c].via = call[c].via)
              /\ call'[c].op \in {"blobbed", "manifest"} =>
                    Uploaded(c) /\ call'[c].item = call[c].item
    PROVE  CallsInv'
<1>1. \A be, i : (\E v \in Volumes(be) : i \in content'[v]) <=> Has(be, i)  BY DEF Has
<1>2. NoDeletes'  BY DEF NoDeletes
<1>3. SameHead'
  <2> SUFFICES ASSUME NEW c \in Client, IsPush(c)'
               PROVE  /\ Head(call'[c].via) = Head(rule)
                      /\ \A i \in BlobItems : (\E v \in Volumes(call'[c].via) : i \in content'[v])
                            => \E v \in Volumes(rule) : i \in content'[v]
      BY DEF SameHead, Has
  <2>1. call'[c] # None /\ call'[c].op \in Pushing  BY DEF IsPush
  <2>2. CASE call'[c].via = rule  BY <2>2
  <2>3. CASE IsPush(c) /\ call'[c].via = call[c].via
    <3>1. /\ Head(call[c].via) = Head(rule)
          /\ \A i \in BlobItems : Has(call[c].via, i) => Has(rule, i)
          BY <2>3 DEF CallsInv, SameHead
    <3> QED BY <1>1, <2>3, <3>1
  <2> QED BY <2>1, <2>2, <2>3
<1>4. Ready'
  <2> SUFFICES ASSUME NEW c \in Client, Uploaded(c)', NEW i \in Blobs(call'[c].item.name)
               PROVE  Has(rule, i)
      BY DEF Ready, Has
  <2>1. Uploaded(c) /\ call'[c].item = call[c].item  BY DEF Uploaded
  <2> QED BY <2>1 DEF CallsInv, Ready
<1>5. Whole'  BY DEF CallsInv, Whole, Has
<1> QED BY <1>2, <1>3, <1>4, <1>5 DEF CallsInv

(* Steps of the migration, to which requests are blind.                    *)
LEMMA RuleMoves ==
    ASSUME CallsOK, HistoryOK, CallsInv, UNCHANGED <<call, acked>>,
           \A i \in Content : Has(rule, i) => Has(rule, i)',
           \A c \in Client : IsPush(c) =>
              /\ Head(rule') = Head(rule)
              /\ \A i \in BlobItems : Has(call[c].via, i)' => Has(rule, i)
    PROVE  CallsInv'
<1>1. NoDeletes'  BY DEF CallsInv, NoDeletes
<1>2. SameHead'
  <2> SUFFICES ASSUME NEW c \in Client, IsPush(c)
               PROVE  /\ Head(call[c].via) = Head(rule')
                      /\ \A i \in BlobItems : Has(call[c].via, i)' => Has(rule, i)'
      BY DEF SameHead, IsPush, Has
  <2>1. Head(call[c].via) = Head(rule)  BY DEF CallsInv, SameHead
  <2> QED BY <2>1, ContentParts
<1>3. Ready'
  <2> SUFFICES ASSUME NEW c \in Client, Uploaded(c), NEW i \in Blobs(call[c].item.name)
               PROVE  Has(rule, i)'
      BY DEF Ready, Uploaded
  <2>1. call[c].item.name \in Manifest  BY CallFields DEF Uploaded, Pushing
  <2>2. i \in Content  BY <2>1, BlobsType, ContentParts
  <2>3. Has(rule, i)  BY DEF CallsInv, Ready
  <2> QED BY <2>2, <2>3
<1>4. Whole'
  <2> SUFFICES ASSUME NEW x \in acked, NEW i \in Items(x) PROVE Has(rule, i)'
      BY DEF Whole
  <2>1. i \in Content  BY ImagePair, ImageItems DEF HistoryOK
  <2>2. Has(rule, i)  BY DEF CallsInv, Whole
  <2> QED BY <2>1, <2>2
<1> QED BY <1>1, <1>2, <1>3, <1>4 DEF CallsInv

LEMMA PushBlobsStep ==
    ASSUME TypeInv, CallsInv, Stored, NEW c \in Client, PushBlobs(c)
    PROVE  /\ CallsInv' /\ Stored'
           /\ \A w \in Volume : content[w] \subseteq content'[w]
           /\ \A w \in Volume : w # Head(rule) => content'[w] = content[w]
<1> USE DEF TypeInv
<1> DEFINE m == call[c].item.name
           S == {i \in Blobs(m) : ~Has(call[c].via, i)}
           k == [call[c] EXCEPT !.op = "blobbed"]
<1>1. /\ call[c] # None /\ call[c].op = "blob" /\ call[c] \in Call
      /\ content' = [content EXCEPT ![Head(call[c].via)] = content[Head(call[c].via)] \cup S]
      /\ call' = [call EXCEPT ![c] = k] /\ UNCHANGED <<rule, acked>>
      BY DEF PushBlobs, CallsOK, CallOK
<1>2. IsPush(c)  BY <1>1 DEF IsPush, Pushing
<1>3. /\ Head(call[c].via) = Head(rule)
      /\ \A i \in BlobItems : Has(call[c].via, i) => Has(rule, i)
      BY <1>2 DEF CallsInv, SameHead
<1>4. k.op = "blobbed" /\ k.item = call[c].item /\ k.via = call[c].via /\ k \in Call
      BY <1>1 DEF Call
<1>5. m \in Manifest /\ call[c].via \in Backend  BY <1>1, CallFields DEF Pushing
<1>6. Blobs(m) \subseteq BlobItems /\ S \subseteq Blobs(m)  BY <1>5, BlobsType
<1>7. \A i \in Blobs(m) : i \in S \/ Has(rule, i)  BY <1>3, <1>6
<1>8. \A d \in Client : d # c => call'[d] = call[d]  BY <1>1 DEF CallsOK
<1>9. call'[c] = k /\ k # None  BY <1>1, <1>4, CallsApart DEF CallsOK
<1>10. call'[c] # None /\ call'[c].op = "blobbed" /\ call'[c].item = call[c].item
       /\ call'[c].via = call[c].via
       BY <1>4, <1>9
<1> HIDE DEF S, k
<1>11. /\ \A w \in Volume : content[w] \subseteq content'[w]
       /\ \A w \in Volume : content'[w] \subseteq content[w] \cup S
       /\ \A w \in Volume : w # Head(rule) => content'[w] = content[w]
       /\ \A i : (\E v \in Volumes(rule) : i \in content'[v]) <=> (Has(rule, i) \/ i \in S)
       /\ \A be \in Backend : \A i : (\E v \in Volumes(be) : i \in content'[v])
                                        => Has(be, i) \/ i \in S
  <2>1. content' = [content EXCEPT ![Head(rule)] = content[Head(rule)] \cup S]  BY <1>1, <1>3
  <2> QED BY <2>1, Adds
<1>12. \A i : Has(rule, i)' <=> (Has(rule, i) \/ i \in S)  BY <1>1, <1>11 DEF Has
<1>13. NoDeletes'  BY <1>8, <1>10 DEF CallsInv, NoDeletes
<1>14. SameHead'
  <2> SUFFICES ASSUME NEW d \in Client, IsPush(d)'
               PROVE  /\ Head(call'[d].via) = Head(rule)
                      /\ \A i \in BlobItems : (\E v \in Volumes(call'[d].via) : i \in content'[v])
                            => Has(rule, i) \/ i \in S
      BY <1>1, <1>12 DEF SameHead, Has
  <2>1. IsPush(d) /\ call'[d].via = call[d].via
    <3>1. CASE d = c  BY <1>2, <1>10, <3>1
    <3>2. CASE d # c  BY <1>8, <3>2 DEF IsPush
    <3> QED BY <3>1, <3>2
  <2>2. call[d].via \in Backend  BY <2>1, CallFields DEF IsPush
  <2>3. /\ Head(call[d].via) = Head(rule)
        /\ \A i \in BlobItems : Has(call[d].via, i) => Has(rule, i)
        BY <2>1 DEF CallsInv, SameHead
  <2> QED BY <1>11, <2>1, <2>2, <2>3
<1>15. Ready'
  <2> SUFFICES ASSUME NEW d \in Client, Uploaded(d)', NEW i \in Blobs(call'[d].item.name)
               PROVE  Has(rule, i) \/ i \in S
      BY <1>12 DEF Ready
  <2>1. CASE d = c  BY <1>7, <1>10, <2>1
  <2>2. CASE d # c
    <3>1. Uploaded(d) /\ call'[d] = call[d]  BY <1>8, <2>2 DEF Uploaded
    <3> QED BY <3>1 DEF CallsInv, Ready
  <2> QED BY <2>1, <2>2
<1>16. Whole'  BY <1>1, <1>12 DEF CallsInv, Whole
<1>17. Stored'
  <2> SUFFICES ASSUME NEW v \in Volume, NEW i \in content'[v]
               PROVE  \/ \E x \in acked : i \in Items(x)
                      \/ \E d \in Client : Uploaded(d)' /\ i \in Blobs(call'[d].item.name)
      BY <1>1 DEF Stored, PartOf
  <2>1. CASE i \in S
    <3>1. Uploaded(c)' /\ i \in Blobs(call'[c].item.name)  BY <1>6, <1>10, <2>1 DEF Uploaded
    <3> QED BY <3>1
  <2>2. CASE i \in content[v]
    <3>1. CASE \E x \in acked : i \in Items(x)  BY <3>1
    <3>2. ASSUME NEW d \in Client, Uploaded(d), i \in Blobs(call[d].item.name)
          PROVE  Uploaded(d)' /\ i \in Blobs(call'[d].item.name)
      <4>1. d # c  BY <1>1, <3>2 DEF Uploaded
      <4> QED BY <1>8, <3>2, <4>1 DEF Uploaded
    <3> QED BY <2>2, <3>1, <3>2 DEF Stored, PartOf
  <2> QED BY <1>11, <2>1, <2>2
<1> QED BY <1>11, <1>13, <1>14, <1>15, <1>16, <1>17 DEF CallsInv

LEMMA FinishPutStep ==
    ASSUME TypeInv, CallsInv, Stored, NEW c \in Client, FinishPut(c)
    PROVE  /\ CallsInv' /\ Stored'
           /\ \A w \in Volume : content[w] \subseteq content'[w]
           /\ \A w \in Volume : w # Head(rule) => content'[w] = content[w]
<1> USE DEF TypeInv
<1>1. /\ call[c] # None /\ call[c].op = "manifest" /\ call' = [call EXCEPT ![c] = None]
      /\ rule' = rule
      BY DEF FinishPut
<1>2. PICK r \in Repo, m \in Manifest :
          r = call[c].repo /\ m = call[c].item.name /\ call[c].item = ManifestItem(r, m)
      BY <1>1, CallFields DEF Pushing
<1>3. IsPush(c) /\ Uploaded(c)  BY <1>1 DEF IsPush, Pushing, Uploaded
<1>4. Head(call[c].via) = Head(rule)  BY <1>3 DEF CallsInv, SameHead
<1>5. acked' = acked \cup {<<r, m>>}  BY <1>2 DEF FinishPut
<1> DEFINE S == {ManifestItem(r, m)}
<1>6. content' = [content EXCEPT ![Head(rule)] = content[Head(rule)] \cup S]
      BY <1>2, <1>4 DEF FinishPut, PutManifest
<1>7. ManifestItem(r, m) \notin BlobItems  BY ImageItems, Kinds
<1>8. \A d \in Client : call'[d] # None => d # c /\ call'[d] = call[d]  BY <1>1 DEF CallsOK
<1>9. \A d \in Client : d # c => call'[d] = call[d]  BY <1>1 DEF CallsOK
<1>10. Items(<<r, m>>) = Blobs(m) \cup S  BY DEF Items
<1> HIDE DEF S
<1>11. /\ \A w \in Volume : content[w] \subseteq content'[w]
       /\ \A w \in Volume : content'[w] \subseteq content[w] \cup S
       /\ \A w \in Volume : w # Head(rule) => content'[w] = content[w]
       /\ \A i : (\E v \in Volumes(rule) : i \in content'[v]) <=> (Has(rule, i) \/ i \in S)
       /\ \A be \in Backend : \A i : (\E v \in Volumes(be) : i \in content'[v])
                                        => Has(be, i) \/ i \in S
       BY <1>6, Adds
<1>12. \A i : Has(rule, i)' <=> (Has(rule, i) \/ i \in S)  BY <1>1, <1>11 DEF Has
<1>13. NoDeletes'  BY <1>8 DEF CallsInv, NoDeletes
<1>14. SameHead'
  <2> SUFFICES ASSUME NEW d \in Client, IsPush(d)'
               PROVE  /\ Head(call'[d].via) = Head(rule)
                      /\ \A i \in BlobItems : (\E v \in Volumes(call'[d].via) : i \in content'[v])
                            => Has(rule, i)
      BY <1>1, <1>12 DEF SameHead, Has
  <2>1. IsPush(d) /\ call'[d] = call[d]  BY <1>8 DEF IsPush
  <2>2. call[d].via \in Backend  BY <2>1, CallFields DEF IsPush
  <2>3. /\ Head(call[d].via) = Head(rule)
        /\ \A i \in BlobItems : Has(call[d].via, i) => Has(rule, i)
        BY <2>1 DEF CallsInv, SameHead
  <2>4. \A i \in BlobItems : i \notin S  BY <1>7 DEF S
  <2> QED BY <1>11, <2>1, <2>2, <2>3, <2>4
<1>15. Ready'
  <2> SUFFICES ASSUME NEW d \in Client, Uploaded(d)', NEW i \in Blobs(call'[d].item.name)
               PROVE  Has(rule, i)
      BY <1>12 DEF Ready
  <2>1. Uploaded(d) /\ call'[d] = call[d]  BY <1>8 DEF Uploaded
  <2> QED BY <2>1 DEF CallsInv, Ready
<1>16. Whole'
  <2> SUFFICES ASSUME NEW x \in acked \cup {<<r, m>>}, NEW i \in Items(x)
               PROVE  Has(rule, i) \/ i \in S
      BY <1>5, <1>12 DEF Whole
  <2>1. CASE x \in acked  BY <2>1 DEF CallsInv, Whole
  <2>2. CASE x = <<r, m>>
    <3>1. \A b \in Blobs(m) : Has(rule, b)  BY <1>2, <1>3 DEF CallsInv, Ready
    <3> QED BY <1>10, <2>2, <3>1
  <2> QED BY <2>1, <2>2
<1>17. Stored'
  <2> SUFFICES ASSUME NEW v \in Volume, NEW i \in content'[v]
               PROVE  \/ \E x \in acked \cup {<<r, m>>} : i \in Items(x)
                      \/ \E d \in Client : Uploaded(d)' /\ i \in Blobs(call'[d].item.name)
      BY <1>5 DEF Stored, PartOf
  <2>1. CASE i \in S \/ i \in Blobs(m)  BY <1>10, <2>1
  <2>2. CASE i \in content[v] /\ i \notin Blobs(m)
    <3>1. CASE \E x \in acked : i \in Items(x)  BY <3>1
    <3>2. ASSUME NEW d \in Client, Uploaded(d), i \in Blobs(call[d].item.name)
          PROVE  Uploaded(d)' /\ i \in Blobs(call'[d].item.name)
      <4>1. d # c  BY <1>2, <2>2, <3>2
      <4> QED BY <1>9, <3>2, <4>1 DEF Uploaded
    <3> QED BY <2>2, <3>1, <3>2 DEF Stored, PartOf
  <2> QED BY <1>11, <2>1, <2>2
<1> QED BY <1>11, <1>13, <1>14, <1>15, <1>16, <1>17 DEF CallsInv

(* What is pushed is not for the migration to copy.                        *)
LEMMA NotDue ==
    ASSUME TypeInv, AllDue, FromOld, UNCHANGED <<rule, mpc, job, copying>>,
           \A w \in Volume : content[w] \subseteq content'[w],
           \A w \in Volume : w # Head(rule) => content'[w] = content[w]
    PROVE  AllDue' /\ FromOld'
<1> USE DEF TypeInv
<1>1. UNCHANGED <<left, cur, todo, want, buf>>  BY DEF copying
<1>2. job.to \in Volume /\ Volumes(job.old) \subseteq Volume  BY VolumesType DEF JobOK
<1>3. \A i : Has(job.old, i) => Has(job.old, i)'  BY <1>2 DEF Has
<1>4. AllDue'
  <2> SUFFICES ASSUME mpc \in Copying, NEW i \in Content,
                      NEW v \in Volumes(job.old), i \in content'[v], i \notin content'[job.to]
               PROVE  \E x \in Image : /\ i \in Items(x)
                                       /\ Has(job.old, ManifestItem(x[1], x[2]))'
                                       /\ Due(x, i)
      BY <1>1 DEF AllDue, Owed, Has, Due
  <2>1. Head(rule) = job.to  BY HeadTo
  <2>2. v # job.to /\ v \in Volume  BY <1>2
  <2>3. i \in content[v] /\ i \notin content[job.to]  BY <1>2, <2>1, <2>2
  <2>4. Owed(i)  BY <2>3 DEF Owed, Has
  <2> QED BY <1>3, <2>4 DEF AllDue
<1>5. FromOld'  BY <1>1, <1>3 DEF FromOld
<1> QED BY <1>4, <1>5

LEMMA CalmStays ==
    ASSUME Calm, UNCHANGED <<mpc, job>>,
           mpc = "listed" => UNCHANGED content /\ \A c \in Client : ~IsPush(c)'
    PROVE  Calm'
BY DEF Calm, Has

LEMMA StoredStays ==
    ASSUME Stored, acked' = acked, \A v \in Volume : content'[v] \subseteq content[v],
           \A c \in Client : Uploaded(c) => Uploaded(c)' /\ call'[c].item = call[c].item
    PROVE  Stored'
<1>1. \A i : PartOf(i) => PartOf(i)'  BY DEF PartOf
<1> QED BY <1>1 DEF Stored

LEMMA RequestsPush ==
    ASSUME TypeInv, Alone, CallsInv, CopyInv, Requests
    PROVE  CallsInv' /\ CopyInv'
<1> USE DEF TypeInv, CopyInv
<1>1. UNCHANGED <<rule, mpc, job, copying>>  BY RequestKeeps
<1>2. ASSUME UNCHANGED <<content, acked>>,
             mpc = "listed" => \A c \in Client : IsPush(c)' => IsPush(c),
             \A c \in Client : call'[c] # None =>
                /\ call'[c].op # "delete"
                /\ call'[c].op \in Pushing =>
                      call'[c].via = rule \/ (IsPush(c) /\ call'[c].via = call[c].via)
                /\ call'[c].op \in {"blobbed", "manifest"} =>
                      Uploaded(c) /\ call'[c].item = call[c].item,
             \A c \in Client : Uploaded(c) => Uploaded(c)' /\ call'[c].item = call[c].item
      PROVE  CallsInv' /\ CopyInv'
  <2>1. CallsInv'  BY <1>1, <1>2, CallsMove
  <2>2. AllDue' /\ FromOld'  BY <1>1, <1>2, NotDue
  <2>3. Calm'
    <3>1. mpc = "listed" => \A c \in Client : ~IsPush(c)'  BY <1>2 DEF Calm
    <3> QED BY <1>1, <1>2, <3>1, CalmStays
  <2>4. Stored'  BY <1>2, StoredStays
  <2> QED BY <2>1, <2>2, <2>3, <2>4
(* One call changes.                                                       *)
<1>3. ASSUME NEW c \in Client, NEW k, call' = [call EXCEPT ![c] = k], UNCHANGED <<content, acked>>,
             k # None => /\ k.op # "delete"
                         /\ k.op \in Pushing => mpc # "listed"
                         /\ k.op \in Pushing => k.via = rule
                         /\ k.op \in {"blobbed", "manifest"} => Uploaded(c) /\ k.item = call[c].item,
             Uploaded(c) => k # None /\ k.op \in {"blobbed", "manifest"} /\ k.item = call[c].item
      PROVE  CallsInv' /\ CopyInv'
  <2>1. call'[c] = k /\ \A d \in Client : d # c => call'[d] = call[d]  BY <1>3 DEF CallsOK
  <2>2. ASSUME NEW d \in Client, call'[d] # None
        PROVE  /\ call'[d].op # "delete"
               /\ call'[d].op \in Pushing =>
                     call'[d].via = rule \/ (IsPush(d) /\ call'[d].via = call[d].via)
               /\ call'[d].op \in {"blobbed", "manifest"} =>
                     Uploaded(d) /\ call'[d].item = call[d].item
    <3>1. CASE d = c  BY <1>3, <2>1, <2>2, <3>1
    <3>2. CASE d # c  BY <2>1, <2>2, <3>2 DEF CallsInv, NoDeletes, IsPush, Uploaded
    <3> QED BY <3>1, <3>2
  <2>3. \A d \in Client : Uploaded(d) => Uploaded(d)' /\ call'[d].item = call[d].item
    <3>1. Uploaded(c) => Uploaded(c)' /\ call'[c].item = call[c].item
          BY <1>3, <2>1 DEF Uploaded
    <3> QED BY <2>1, <3>1 DEF Uploaded
  <2>4. mpc = "listed" => \A d \in Client : IsPush(d)' => IsPush(d)
    <3>1. mpc = "listed" => ~IsPush(c)'  BY <1>3, <2>1 DEF IsPush
    <3> QED BY <2>1, <3>1 DEF IsPush
  <2> QED BY <1>2, <1>3, <2>2, <2>3, <2>4
<1>4. ASSUME NEW c \in Client, NEW r \in Repo, NEW t \in Tag, NEW m \in Manifest,
             StartPush(c, r, t, m)
      PROVE  CallsInv' /\ CopyInv'
  <2> DEFINE k == [op |-> "blob", repo |-> r, item |-> ManifestItem(r, m), tag |-> t, via |-> rule]
  <2>1. /\ call' = [call EXCEPT ![c] = k] /\ UNCHANGED <<content, acked>>
        /\ mpc # "listed" /\ call[c] = None
        BY <1>4, OneRule DEF StartPush, store, MayPush, Alone
  <2>2. k.op = "blob" /\ k.via = rule  OBVIOUS
  <2>3. ~Uploaded(c)  BY <2>1 DEF Uploaded
  <2> HIDE DEF k
  <2> QED BY <1>3, <2>1, <2>2, <2>3
<1>5. ASSUME NEW c \in Client, StartPut(c) PROVE CallsInv' /\ CopyInv'
  <2> DEFINE k == [call[c] EXCEPT !.op = "manifest", !.via = rule]
  <2>1. call[c] # None /\ call[c].op = "blobbed" /\ call[c] \in Call /\ call[c].repo \in Repo
        BY <1>5, CallFields DEF StartPut, CallsOK, CallOK
  <2>2. call' = [call EXCEPT ![c] = k] /\ UNCHANGED <<content, acked>>
        BY <1>5, <2>1, OneRule DEF StartPut, store, CallsOK
  <2>3. k.op = "manifest" /\ k.via = rule /\ k.item = call[c].item /\ k \in Call
        BY <2>1 DEF Call, JobOK
  <2>4. IsPush(c) /\ Uploaded(c)  BY <2>1 DEF IsPush, Pushing, Uploaded
  <2>5. mpc # "listed"  BY <2>4 DEF Calm
  <2> HIDE DEF k
  <2>6. k # None  BY <2>3, CallsApart
  <2> QED BY <1>3, <2>2, <2>3, <2>4, <2>5, <2>6
<1>6. ASSUME NEW c \in Client, NEW r \in Repo, NEW item \in Content, StartRead(c, r, item)
      PROVE  CallsInv' /\ CopyInv'
  <2> DEFINE k == [op |-> "read", repo |-> r, item |-> item, via |-> resolve(r)]
  <2>1. call' = [call EXCEPT ![c] = k] /\ UNCHANGED <<content, acked>> /\ call[c] = None
        BY <1>6 DEF StartRead, store
  <2>2. k.op = "read" /\ ~Uploaded(c)  BY <2>1 DEF Uploaded
  <2> HIDE DEF k
  <2> QED BY <1>3, <2>1, <2>2 DEF Pushing
<1>7. ASSUME NEW c \in Client, ReadVolume(c) PROVE CallsInv' /\ CopyInv'
  <2> DEFINE k == [call[c] EXCEPT !.via = Tail(call[c].via)]
  <2>1. /\ call' = [call EXCEPT ![c] = None] \/ call' = [call EXCEPT ![c] = k]
        /\ UNCHANGED <<content, acked>> /\ call[c] # None /\ call[c].op = "read"
        BY <1>7 DEF ReadVolume, store
  <2>2. k.op = "read" /\ ~Uploaded(c)  BY <2>1 DEF Uploaded, CallsOK, CallOK, Call
  <2> HIDE DEF k
  <2> QED BY <1>3, <2>1, <2>2 DEF Pushing
<1>8. ASSUME NEW c \in Client, PushBlobs(c) \/ FinishPut(c) PROVE CallsInv' /\ CopyInv'
  <2>1. /\ CallsInv' /\ Stored'
        /\ \A w \in Volume : content[w] \subseteq content'[w]
        /\ \A w \in Volume : w # Head(rule) => content'[w] = content[w]
        BY <1>8, PushBlobsStep, FinishPutStep
  <2>2. AllDue' /\ FromOld'  BY <1>1, <2>1, NotDue
  <2>3. IsPush(c)  BY <1>8 DEF PushBlobs, FinishPut, IsPush, Pushing
  <2>4. mpc # "listed"  BY <2>3 DEF Calm
  <2>5. Calm'  BY <1>1, <2>4 DEF Calm
  <2> QED BY <2>1, <2>2, <2>5
<1>9. ~\E c \in Client : \E r \in Repo, item \in Content \cup TagItems : StartDelete(c, r, item)
      BY DEF Alone, StartDelete
<1>10. ~\E c \in Client : DeleteOnVolume(c)  BY DEF CallsInv, NoDeletes, DeleteOnVolume
<1>11. ~\E c \in Client : GiveUp(c)  BY DEF Alone, GiveUp
<1> QED BY <1>4, <1>5, <1>6, <1>7, <1>8, <1>9, <1>10, <1>11 DEF Requests

(* Steps that change neither store nor rule nor calls.                     *)
LEMMA CallsStay ==
    ASSUME TypeInv, CallsInv, Stored, UNCHANGED <<content, rule, call, acked>>
    PROVE  CallsInv' /\ Stored'
<1>1. CallsInv'
  <2>1. \A c \in Client : call'[c] # None =>
          /\ call'[c].op # "delete"
          /\ call'[c].op \in Pushing => IsPush(c) /\ call'[c].via = call[c].via
          /\ call'[c].op \in {"blobbed", "manifest"} => Uploaded(c) /\ call'[c].item = call[c].item
        BY DEF CallsInv, NoDeletes, IsPush, Uploaded
  <2> QED BY <2>1, CallsMove
<1>2. Stored'  BY DEF Stored, PartOf, Uploaded
<1> QED BY <1>1, <1>2

LEMMA StartStep ==
    ASSUME Hidden = {}, TypeInv, Alone, CallsInv, CopyInv, NEW to \in Target, NEW drain \in Drains,
           Start(to, drain)
    PROVE  CallsInv' /\ CopyInv'
<1> USE DEF TypeInv, CopyInv
<1> DEFINE repos == list_repos(rule) \cap Class
<1>1. /\ mpc' = "listed" /\ job'.old = rule /\ job'.repos = repos /\ NoPush
      /\ UNCHANGED <<content, known, rule, call, acked>>
      BY DEF Start, store
<1>2. CallsInv' /\ Stored'  BY <1>1, CallsStay
<1>3. \A c \in Client : ~IsPush(c)'  BY <1>1 DEF IsPush, NoPush, Alone
<1>4. ASSUME NEW x \in Image, NEW v \in Volumes(rule), ManifestItem(x[1], x[2]) \in content[v]
      PROVE  x[1] \in repos
  <2>1. v \in Volume /\ x[1] \in Class /\ x[2] \in Manifest
        BY ImagePair, VolumesType DEF Alone, JobOK
  <2> QED BY <1>4, <2>1, RepoFacts DEF StoreOK, KnownOK, list_repos
<1> HIDE DEF repos
<1>5. Calm'
  <2> SUFFICES ASSUME NEW x \in Image, Has(job.old, ManifestItem(x[1], x[2]))'
               PROVE  x[1] \in repos
      BY <1>1, <1>3 DEF Calm
  <2>1. \E v \in Volumes(rule) : ManifestItem(x[1], x[2]) \in content[v]  BY <1>1 DEF Has
  <2> QED BY <1>4, <2>1
<1>6. AllDue' /\ FromOld'  BY <1>1 DEF AllDue, FromOld, Copying
<1> QED BY <1>2, <1>5, <1>6

LEMMA OverlayStep ==
    ASSUME TypeInv, CallsInv, CopyInv, Overlay
    PROVE  CallsInv' /\ CopyInv'
<1> USE DEF TypeInv, CopyInv
<1>1. /\ mpc = "listed" /\ mpc' = "backfill" /\ rule' = <<job.to>> \o job.old
      /\ UNCHANGED <<content, call, acked, job, left, cur, todo, want, buf>>
      /\ rule = job.old /\ left = job.repos
      BY DEF Overlay, store, history, copying, JobOK, PhaseOK
<1>2. \A c \in Client : ~IsPush(c)  BY <1>1 DEF Calm
<1>3. Volumes(rule') = {job.to} \cup Volumes(rule)  BY <1>1, OnTop DEF JobOK
<1>4. \A i : Has(rule, i) => Has(rule, i)'  BY <1>1, <1>3 DEF Has
<1>5. CallsInv'  BY <1>1, <1>2, <1>4, RuleMoves
<1>6. Stored'  BY <1>1 DEF Stored, PartOf, Uploaded
<1>7. Calm' /\ FromOld'  BY <1>1 DEF Calm, FromOld
<1>8. ASSUME NEW i \in Content, Has(rule, i)
      PROVE  \E x \in Image : /\ i \in Items(x) /\ Has(rule, ManifestItem(x[1], x[2]))
                              /\ x[1] \in left
  <2>1. PICK v \in Volume : i \in content[v]  BY <1>8, VolumesType DEF Has, JobOK
  <2>2. PartOf(i)  BY <2>1 DEF Stored
  <2>3. \A c \in Client : ~Uploaded(c)  BY <1>2 DEF IsPush, Uploaded, Pushing
  <2>4. PICK x \in acked : i \in Items(x)  BY <2>2, <2>3 DEF PartOf
  <2>5. x \in Image  BY <2>4 DEF HistoryOK
  <2>6. ManifestItem(x[1], x[2]) \in Items(x)  BY DEF Items
  <2>7. Has(rule, ManifestItem(x[1], x[2]))  BY <2>4, <2>6 DEF CallsInv, Whole
  <2>8. x[1] \in left  BY <1>1, <2>5, <2>7 DEF Calm
  <2> QED BY <2>4, <2>5, <2>7, <2>8
<1>9. AllDue'
  <2> SUFFICES ASSUME NEW i \in Content, Owed(i)'
               PROVE  \E x \in Image : /\ i \in Items(x)
                                       /\ Has(job.old, ManifestItem(x[1], x[2]))'
                                       /\ Due(x, i)'
      BY <1>1 DEF AllDue
  <2>1. Has(rule, i)  BY <1>1 DEF Owed, Has
  <2> QED BY <1>1, <1>8, <2>1 DEF Has, Due
<1> QED BY <1>5, <1>6, <1>7, <1>9

LEMMA CollapseStep ==
    ASSUME TypeInv, CallsInv, CopyInv, Collapse
    PROVE  CallsInv' /\ CopyInv'
<1> USE DEF TypeInv, CopyInv
<1>1. /\ mpc = "backfill" /\ left = {} /\ rule' = <<job.to>>
      /\ mpc' \in {"purge", "done"}
      /\ UNCHANGED <<content, call, acked, job>>
      BY DEF Collapse, store, history
<1>2. cur = None /\ want = {} /\ buf = None  BY <1>1 DEF PhaseOK
<1>3. ASSUME NEW i \in Content, Has(rule, i) PROVE i \in content[job.to]
  <2> SUFFICES ASSUME i \notin content[job.to] PROVE FALSE  OBVIOUS
  <2>1. Volumes(rule) = {job.to} \cup Volumes(job.old)  BY <1>1, HeadTo DEF Copying
  <2>2. Owed(i)  BY <1>3, <2>1 DEF Owed, Has
  <2>3. PICK x \in Image : Due(x, i)  BY <1>1, <2>2 DEF AllDue, Copying
  <2> QED BY <1>1, <1>2, <2>3, RepoFacts DEF Due
<1>4. \A i : i \in content[job.to] <=> Has(rule, i)'  BY <1>1, OneVolume DEF Has
<1>5. CallsInv'
  <2>1. ASSUME NEW c \in Client, IsPush(c)
        PROVE  /\ Head(rule') = Head(rule)
               /\ \A i \in BlobItems : Has(call[c].via, i)' => Has(rule, i)
    <3>1. Head(rule) = job.to /\ Head(rule') = job.to  BY <1>1, HeadTo DEF Copying
    <3>2. \A i : Has(call[c].via, i)' <=> Has(call[c].via, i)  BY <1>1 DEF Has
    <3> QED BY <2>1, <3>1, <3>2 DEF CallsInv, SameHead
  <2> QED BY <1>1, <1>3, <1>4, <2>1, RuleMoves
<1>6. Stored'  BY <1>1 DEF Stored, PartOf, Uploaded
<1>7. Calm' /\ AllDue' /\ FromOld'  BY <1>1 DEF Calm, AllDue, FromOld, Copying
<1> QED BY <1>5, <1>6, <1>7

(* The copy writes what the old backend has.                               *)
LEMMA WriteStep ==
    ASSUME TypeInv, CallsInv, CopyInv, Write
    PROVE  CallsInv' /\ CopyInv'
<1> USE DEF TypeInv, CopyInv
<1>1. /\ mpc = "copy" /\ buf' = None /\ buf \in Content \cup Pointers
      /\ UNCHANGED <<rule, call, mpc, job, left, cur, todo, want, ptrs, acked>>
      /\ \A w \in Volume : content[w] \subseteq content'[w]
      /\ \A w \in Volume : w # job.to => content'[w] = content[w]
      /\ buf \in Content => content'[job.to] = content[job.to] \cup {buf}
      BY WriteAdds, StepKeeps DEF history, Write, StoreItem, StoreTag
<1>2. job.to \in Volume /\ Volumes(job.old) \subseteq Volume /\ Volumes(rule) \subseteq Volume
      BY VolumesType DEF JobOK
<1>3. \A i \in content'[job.to] : i \in content[job.to] \/ Has(job.old, i)
  <2>1. CASE buf \in Content  BY <1>1, <2>1 DEF FromOld
  <2>2. CASE buf \in Pointers
    <3>1. buf \notin Content  BY <2>2, Kinds
    <3>2. PutManifest(job.to, cur, buf.name, buf.target)
          BY <3>1 DEF Write, StoreItem, StoreTag
    <3>3. content'[job.to] = content[job.to] \cup {ManifestItem(cur, buf.target)}
          BY <1>2, <3>2 DEF PutManifest, StoreOK
    <3>4. Has(job.old, ManifestItem(cur, buf.target))  BY <1>1, <2>2 DEF FromOld
    <3> QED BY <3>3, <3>4
  <2> QED BY <1>1, <2>1, <2>2
<1>4. Volumes(rule) = {job.to} \cup Volumes(job.old)  BY <1>1, HeadTo DEF Copying
<1>5. \A v \in Volume : \A i \in content'[v] : i \in content[v] \/ Has(job.old, i)
      BY <1>1, <1>3
<1>6. \A i : Has(job.old, i) => Has(job.old, i)'  BY <1>1, <1>2 DEF Has
<1>7. \A i : Has(rule, i) => Has(rule, i)'  BY <1>1, <1>2 DEF Has
<1>8. \A i : Has(job.old, i) => Has(rule, i)  BY <1>4 DEF Has
<1>9. CallsInv'
  <2>1. ASSUME NEW c \in Client, IsPush(c), NEW i \in BlobItems, Has(call[c].via, i)'
        PROVE  Has(rule, i)
    <3>1. call[c].via \in Backend  BY <2>1, CallFields DEF IsPush
    <3>2. PICK v \in Volumes(call[c].via) : i \in content'[v]  BY <1>1, <2>1 DEF Has
    <3>3. v \in Volume  BY <3>1, VolumesType
    <3>4. CASE i \in content[v]
      <4>1. Has(call[c].via, i)  BY <3>2, <3>4 DEF Has
      <4> QED BY <2>1, <4>1 DEF CallsInv, SameHead
    <3>5. CASE Has(job.old, i)  BY <1>8, <3>5
    <3> QED BY <1>5, <3>2, <3>3, <3>4, <3>5
  <2> QED BY <1>1, <1>7, <2>1, RuleMoves
<1>10. Stored'
  <2>1. \A i : PartOf(i)' <=> PartOf(i)  BY <1>1 DEF PartOf, Uploaded
  <2>2. \A i : Has(job.old, i) => PartOf(i)  BY <1>2 DEF Has, Stored
  <2> QED BY <1>5, <2>1, <2>2 DEF Stored
<1>11. Calm'  BY <1>1 DEF Calm
<1>12. FromOld'
  <2>1. None \notin Content \cup Pointers  BY RepoFacts
  <2> QED BY <1>1, <2>1 DEF FromOld
<1>13. AllDue'
  <2> SUFFICES ASSUME NEW i \in Content, Owed(i)'
               PROVE  \E x \in Image : /\ i \in Items(x)
                                       /\ Has(job.old, ManifestItem(x[1], x[2]))'
                                       /\ Due(x, i)'
      BY <1>1 DEF AllDue
  <2>1. i \notin content'[job.to] /\ \E v \in Volumes(job.old) : i \in content'[v]
        BY <1>1 DEF Owed, Has
  <2>2. Owed(i)  BY <1>1, <1>2, <2>1 DEF Owed, Has
  <2>3. PICK x \in Image : i \in Items(x) /\ Has(job.old, ManifestItem(x[1], x[2])) /\ Due(x, i)
        BY <1>1, <2>2 DEF AllDue, Copying
  <2>4. i # buf  BY <1>1, <2>1
  <2>5. Due(x, i)'  BY <1>1, <2>3, <2>4 DEF Due
  <2>6. Has(job.old, ManifestItem(x[1], x[2]))'  BY <1>6, <2>3
  <2> QED BY <2>3, <2>5, <2>6
<1> QED BY <1>9, <1>10, <1>11, <1>12, <1>13

(* The drain takes nothing from the destination.                           *)
LEMMA ClearStep ==
    ASSUME TypeInv, Apart, CallsInv, CopyInv, Clear
    PROVE  CallsInv' /\ CopyInv'
<1> USE DEF TypeInv, CopyInv
<1>1. /\ mpc \in {"purge", "sweep"} /\ UNCHANGED <<rule, call, mpc, acked>>
      /\ \A w \in Volume : content'[w] \subseteq content[w]
      /\ \A w \in Volume : w \notin Volumes(job.old) => content'[w] = content[w]
      BY ClearRemoves, StepKeeps DEF history
<1>2. job.to \notin Volumes(job.old) /\ job.to \in Volume /\ rule = <<job.to>>
      BY <1>1 DEF Apart, PhaseOK, JobOK
<1>3. \A i : Has(rule, i) => Has(rule, i)'  BY <1>1, <1>2, OneVolume DEF Has
<1>4. CallsInv'
  <2>1. ASSUME NEW c \in Client, IsPush(c), NEW i \in BlobItems, Has(call[c].via, i)'
        PROVE  Has(rule, i)
    <3>1. call[c].via \in Backend  BY <2>1, CallFields DEF IsPush
    <3>2. Has(call[c].via, i)  BY <1>1, <2>1, <3>1, VolumesType DEF Has
    <3> QED BY <2>1, <3>2 DEF CallsInv, SameHead
  <2> QED BY <1>1, <1>3, <2>1, RuleMoves
<1>5. Stored'  BY <1>1, StoredStays DEF Uploaded
<1>6. Calm' /\ AllDue' /\ FromOld'  BY <1>1 DEF Calm, AllDue, FromOld, Copying
<1> QED BY <1>4, <1>5, <1>6

LEMMA DueStays ==
    ASSUME AllDue, UNCHANGED <<content, job>>, mpc \in Copying,
           \A x \in Image, i \in Content :
              /\ i \in Items(x) /\ Owed(i) /\ Has(job.old, ManifestItem(x[1], x[2])) /\ Due(x, i)
              => Due(x, i)'
    PROVE  AllDue'
<1> SUFFICES ASSUME NEW i \in Content, Owed(i)'
             PROVE  \E x \in Image : /\ i \in Items(x)
                                     /\ Has(job.old, ManifestItem(x[1], x[2]))'
                                     /\ Due(x, i)'
    BY DEF AllDue
<1>1. Owed(i)  BY DEF Owed, Has
<1>2. PICK x \in Image : i \in Items(x) /\ Has(job.old, ManifestItem(x[1], x[2])) /\ Due(x, i)
      BY <1>1 DEF AllDue
<1>3. Has(job.old, ManifestItem(x[1], x[2]))'  BY <1>2 DEF Has
<1> QED BY <1>1, <1>2, <1>3

LEMMA PlanStep ==
    ASSUME TypeInv, Closed, CallsInv, CopyInv, Plan
    PROVE  CallsInv' /\ CopyInv'
<1> USE DEF TypeInv, CopyInv
<1>1. UNCHANGED <<content, rule, call, acked, job>>  BY PlanKeeps DEF store, history
<1>2. CallsInv' /\ Stored'  BY <1>1, CallsStay
<1>3. mpc' # "listed"
      BY DEF Plan, CopyRepo, ReadTag, End, ListDigests, ReadDigest, StartCopy, FetchItem, FetchTag,
         EndRepo, PurgeRepo, Mark, Done
<1>4. Calm'  BY <1>3 DEF Calm
<1>5. \A i \in Content : i # None  BY RepoFacts
<1>6. ASSUME NEW r \in Class, CopyRepo(r) PROVE AllDue' /\ FromOld'
  <2>1. /\ mpc = "backfill" /\ mpc' = "tags" /\ left' = left \ {r} /\ cur' = r
        /\ want = {} /\ buf = None
        BY <1>6 DEF CopyRepo, PhaseOK
  <2>2. AllDue'  BY <1>1, <1>5, <2>1, DueStays DEF Due, Copying
  <2> QED BY <2>1, <2>2 DEF FromOld
<1>7. ASSUME NEW item \in TagItems, ReadTag(item) PROVE AllDue' /\ FromOld'
  <2>1. mpc = "tags"  BY <1>7 DEF ReadTag
  <2>2. CASE mpc' = "failed"  BY <2>2 DEF AllDue, FromOld, Copying
  <2>3. CASE mpc' = "tags" /\ want \subseteq want' /\ UNCHANGED <<left, cur, buf>>
    <3>1. AllDue'  BY <1>1, <2>1, <2>3, DueStays DEF Due, Copying
    <3> QED BY <2>3, <3>1 DEF FromOld
  <2> QED BY <1>7, <2>1, <2>2, <2>3 DEF ReadTag, End
<1>8. ASSUME ListDigests PROVE AllDue' /\ FromOld'
  <2>1. /\ mpc = "tags" /\ mpc' = "digests"
        /\ todo' = list_manifest_digests(job.old, cur) \ want
        /\ UNCHANGED <<left, cur, want, buf>>
        BY <1>8 DEF ListDigests
  <2>2. cur \in Repo /\ job.old \in Backend  BY <2>1, RepoFacts DEF PhaseOK, JobOK
  <2>3. ASSUME NEW x \in Image, NEW i \in Items(x), x[1] = cur,
               Has(job.old, ManifestItem(x[1], x[2]))
        PROVE  ManifestItem(x[1], x[2]) \in todo' \/ i \in want
    <3>1. x[2] \in Manifest /\ x = <<cur, x[2]>>  BY <2>3, ImagePair
    <3>2. ManifestItem(cur, x[2]) \in list_manifest_digests(job.old, cur)
          BY <2>2, <2>3, <3>1, ListedItems
    <3>3. CASE ManifestItem(cur, x[2]) \notin want  BY <2>1, <2>3, <3>2, <3>3
    <3>4. CASE ManifestItem(cur, x[2]) \in want  BY <2>1, <3>1, <3>4 DEF Closed
    <3> QED BY <3>3, <3>4
  <2>4. AllDue'  BY <1>1, <2>1, <2>3, DueStays DEF Due, Copying
  <2>5. mpc' # "copy"  BY <2>1
  <2> QED BY <2>4, <2>5 DEF FromOld
<1>9. ASSUME NEW item \in Content, ReadDigest(item) PROVE AllDue' /\ FromOld'
  <2>1. /\ mpc = "digests" /\ todo' = todo \ {item}
        /\ want' = IF Has(job.old, item) THEN want \cup Items(<<cur, item.name>>) ELSE want
        /\ UNCHANGED <<mpc, left, cur, buf>>
        BY <1>9 DEF ReadDigest
  <2>2. ASSUME NEW x \in Image, NEW i \in Items(x), x[1] = cur,
               Has(job.old, ManifestItem(x[1], x[2])), ManifestItem(x[1], x[2]) = item
        PROVE  i \in want'
    <3>1. x = <<cur, item.name>>  BY <2>2, ImagePair, Kinds
    <3> QED BY <2>1, <2>2, <3>1
  <2>3. want \subseteq want'  BY <2>1
  <2>4. AllDue'  BY <1>1, <2>1, <2>2, <2>3, DueStays DEF Due, Copying
  <2> QED BY <2>1, <2>4 DEF FromOld
<1>10. ASSUME StartCopy PROVE AllDue' /\ FromOld'
  <2>1. /\ mpc = "digests" /\ todo = {} /\ mpc' = "copy" /\ UNCHANGED <<left, cur, todo, want, buf>>
        /\ buf = None
        BY <1>10 DEF StartCopy, copying, PhaseOK
  <2>2. AllDue'  BY <1>1, <2>1, DueStays DEF Due, Copying
  <2>3. buf' \notin Content \cup Pointers  BY <2>1, RepoFacts
  <2> QED BY <2>2, <2>3 DEF FromOld
<1>11. ASSUME NEW item \in Content, FetchItem(item) PROVE AllDue' /\ FromOld'
  <2>1. /\ mpc = "copy" /\ buf = None /\ want' = want \ {item}
        /\ buf' = IF item \notin content[job.to] /\ Has(job.old, item) THEN item ELSE None
        /\ UNCHANGED <<mpc, left, cur, todo>>
        BY <1>11 DEF FetchItem
  <2>2. Owed(item) => buf' = item  BY <2>1 DEF Owed
  <2>3. ASSUME NEW x \in Image, NEW i \in Content, Owed(i), Due(x, i) PROVE Due(x, i)'
    <3>1. CASE i = item  BY <2>2, <2>3, <3>1 DEF Due
    <3>2. CASE i # item  BY <1>5, <2>1, <2>3, <3>2 DEF Due
    <3> QED BY <3>1, <3>2
  <2>4. AllDue'  BY <1>1, <2>1, <2>3, DueStays DEF Copying
  <2>5. FromOld'
    <3>1. item \notin Pointers /\ None \notin Content \cup Pointers  BY Kinds, RepoFacts
    <3>2. buf' \in Content => buf' = item /\ Has(job.old, item)  BY <2>1, <3>1
    <3> QED BY <1>1, <2>1, <3>1, <3>2 DEF FromOld, Has
  <2> QED BY <2>4, <2>5
<1>12. ASSUME NEW ptr \in Pointers, FetchTag(ptr) PROVE AllDue' /\ FromOld'
  <2>1. /\ mpc = "copy" /\ buf = None
        /\ buf' = IF Has(job.old, ManifestItem(cur, ptr.target)) THEN ptr ELSE None
        /\ UNCHANGED <<mpc, left, cur, todo, want>>
        BY <1>12 DEF FetchTag
  <2>2. AllDue'  BY <1>1, <1>5, <2>1, DueStays DEF Due, Copying
  <2>3. FromOld'
    <3>1. ptr \notin Content /\ None \notin Content \cup Pointers  BY Kinds, RepoFacts
    <3>2. buf' \in Pointers => buf' = ptr /\ Has(job.old, ManifestItem(cur, ptr.target))
          BY <2>1, <3>1
    <3> QED BY <1>1, <2>1, <3>1, <3>2 DEF FromOld, Has
  <2> QED BY <2>2, <2>3
<1>13. ASSUME EndRepo PROVE AllDue' /\ FromOld'
  <2>1. /\ mpc = "copy" /\ buf = None /\ want = {} /\ mpc' = "backfill"
        /\ UNCHANGED <<left, todo, want, buf>>
        BY <1>13 DEF EndRepo
  <2>2. AllDue'  BY <1>1, <1>5, <2>1, DueStays DEF Due, Copying
  <2>3. mpc' # "copy"  BY <2>1
  <2> QED BY <2>2, <2>3 DEF FromOld
<1>14. ASSUME (\E r \in Class : PurgeRepo(r)) \/ Mark \/ Done
       PROVE  AllDue' /\ FromOld'
  <2>1. mpc' \in {"purge", "sweep", "done"}  BY <1>14 DEF PurgeRepo, Mark, Done
  <2>2. mpc' # "copy" /\ mpc' \notin Copying  BY <2>1 DEF Copying
  <2> QED BY <2>2 DEF AllDue, FromOld
<1> QED BY <1>2, <1>4, <1>6, <1>7, <1>8, <1>9, <1>10, <1>11, <1>12, <1>13, <1>14 DEF Plan

LEMMA PushStep ==
    ASSUME Hidden = {}, TypeInv, BackfillInv, PushInv, Alone, Apart, [Next]_vars
    PROVE  PushInv'
<1> USE DEF TypeInv
<1> SUFFICES ASSUME restarts' = 0 PROVE CallsInv' /\ CopyInv'  BY DEF PushInv
<1>1. ~Restart /\ restarts = 0
  <2>1. restarts \in Nat  BY ConstantsOK DEF HistoryOK
  <2>2. Restart => restarts' = restarts + 1  BY DEF Restart
  <2>3. ~Restart  BY <2>1, <2>2
  <2>4. restarts' = restarts
        BY <2>3, NextCases, StepCases, StepKeeps, PlanKeeps, RequestKeeps, OtherKeeps
        DEF bounds, vars
  <2> QED BY <2>3, <2>4
<1>2. CallsInv /\ CopyInv /\ Closed  BY <1>1 DEF PushInv, BackfillInv
<1>3. CASE Requests  BY <1>2, <1>3, RequestsPush
<1>4. CASE \E to \in Target, drain \in Drains : Start(to, drain)  BY <1>2, <1>4, StartStep
<1>5. CASE Overlay  BY <1>2, <1>5, OverlayStep
<1>6. CASE Collapse  BY <1>2, <1>6, CollapseStep
<1>7. CASE Plan  BY <1>2, <1>7, PlanStep
<1>8. CASE Write  BY <1>2, <1>8, WriteStep
<1>9. CASE Clear  BY <1>2, <1>9, ClearStep
<1>10. CASE Fail
  <2>1. mpc' = "failed" /\ UNCHANGED <<content, rule, call, acked>>
        BY <1>10 DEF Fail, End, store, history
  <2>2. CallsInv' /\ Stored'  BY <1>2, <2>1, CallsStay DEF CopyInv
  <2>3. Calm' /\ AllDue' /\ FromOld'  BY <2>1 DEF Calm, AllDue, FromOld, Copying
  <2> QED BY <2>2, <2>3 DEF CopyInv
<1>11. CASE UNCHANGED vars
  <2>1. UNCHANGED <<content, rule, call, acked, mpc, job, left, cur, todo, want, buf>>
        BY <1>11 DEF vars, store, copying, history
  <2>2. CallsInv' /\ Stored'  BY <1>2, <2>1, CallsStay DEF CopyInv
  <2>3. Calm' /\ AllDue' /\ FromOld'
        BY <1>2, <2>1 DEF CopyInv, Calm, AllDue, FromOld, Owed, Due, Has, IsPush
  <2> QED BY <2>2, <2>3 DEF CopyInv
<1> QED BY <1>1, <1>3, <1>4, <1>5, <1>6, <1>7, <1>8, <1>9, <1>10, <1>11, NextCases, StepCases

(* An acknowledged push survives: for a class that has its volumes to      *)
(* itself, without deletes or pushes given up, and with no push in flight  *)
(* at the overlay, an image whose push was acknowledged is served ever     *)
(* after, however often the class is migrated and wherever migrations      *)
(* fail, until the process is restarted (PutManifest, Overlay, Collapse).  *)
THEOREM PushesKept == ASSUME Hidden = {}, Alone PROVE Spec /\ []Apart => []PushKept
<1>1. Init => PushInv
      BY DEF Init, PushInv, CallsInv, CopyInv, NoDeletes, SameHead, Ready, Whole, Calm, Stored,
         AllDue, FromOld, IsPush, Uploaded, Copying
<1>2. TypeInv /\ BackfillInv /\ PushInv /\ Apart /\ [Next]_vars => PushInv'  BY PushStep
<1>3. TypeInv /\ PushInv => PushKept
  <2> SUFFICES ASSUME TypeInv, PushInv, restarts = 0, NEW x \in acked, NEW i \in Items(x)
               PROVE  Has(resolve(x[1]), i)
      BY DEF PushKept, Served
  <2>1. Has(rule, i)  BY DEF PushInv, CallsInv, Whole
  <2>2. x[1] \in Repo  BY ImagePair DEF TypeInv, HistoryOK
  <2> QED BY <2>1, <2>2, OneRule
<1> QED BY <1>1, <1>2, <1>3, TypesAlways, BackfillAlways, PTL DEF Spec
=============================================================================
