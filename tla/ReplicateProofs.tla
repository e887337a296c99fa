-------------------------- MODULE ReplicateProofs --------------------------
(***************************************************************************)
(* Theorems about Replicate, for every set of partitions, images, tags and *)
(* runners of passes.                                                      *)
(***************************************************************************)
EXTENDS Replicate, TLAPS

Copying == {"blobs", "manifests", "pointers"}

(* A pass is where its variables say it is.                                *)
PassShape(r) ==
    /\ at[r] \in Copying => dest[r] \in Secondary
    /\ at[r] = "tags" => left[r] \subseteq Tag
    /\ at[r] = "digests" => left[r] \subseteq Manifest
    /\ at[r] = "blobs" => /\ left[r] \subseteq want[r] \cap Blob
                          /\ held[r] \in (want[r] \cap Blob) \cup {None}
    /\ at[r] = "manifests" => /\ left[r] \subseteq want[r] \cap Manifest
                              /\ held[r] \in (want[r] \cap Manifest) \cup {None}
    /\ at[r] = "pointers" => /\ left[r] \subseteq wantT[r]
                             /\ held[r] \in wantT[r] \cup {None}
    /\ at[r] = "idle" => wantT[r] = {}

TypeInv == TypeOK /\ \A r \in Runner : PassShape(r)

(* The kinds of thing are told apart.                                      *)
LEMMA Kinds ==
    /\ Primary \in Partition /\ Primary \notin Secondary /\ Secondary \subseteq Partition
    /\ None \notin Blob \cup Manifest \cup Tag /\ None \notin Partition
    /\ Blob \cap Manifest = {} /\ Tag \cap (Blob \cup Manifest) = {}
    /\ \A x \in Tag \X Manifest : x \notin Blob \cup Manifest \cup Tag \cup {None}
    /\ \A x \in Tag \X Manifest : x[1] \in Tag /\ x[2] \in Manifest
    /\ \A m \in Manifest : BlobsOf[m] \subseteq Blob /\ ChildrenOf[m] \subseteq Manifest
BY ConstantsOK DEF Secondary, Object

(* The initial state is typed.                                             *)
LEMMA TypeInit == Init => TypeInv
<1> SUFFICES ASSUME Init PROVE TypeInv  OBVIOUS
<1> USE Kinds DEF Init
<1>1. TypeOK  BY ConstantsOK DEF TypeOK, NoDelete, Place, Object
<1>2. \A r \in Runner : PassShape(r)  BY DEF PassShape, Copying
<1> QED BY <1>1, <1>2 DEF TypeInv

(* Passes do not move when clients do.                                     *)
LEMMA ClientShape ==
    ASSUME TypeInv, UNCHANGED passes PROVE \A r \in Runner : PassShape(r)'
BY DEF TypeInv, PassShape, passes

(* Every step keeps the types: client requests,                            *)
LEMMA ClientType ==
    ASSUME TypeInv,
           \/ \E b \in Blob : blob_write(b)
           \/ \E m \in Manifest, t \in Tag \cup {None} : manifest_put(m, t)
           \/ \E x \in Object : Delete(x)
           \/ \E p \in Partition : DeleteFails(p)
           \/ DeleteStep
    PROVE  TypeInv'
<1> USE Kinds, ConstantsOK DEF TypeInv
<1>a. del \in [of : Object \cup {None}, via : SUBSET Partition, clean : BOOLEAN]  BY DEF TypeOK
<1>b. ASSUME NEW o \in Object \cup {None}, NEW v \in SUBSET Partition, NEW c \in BOOLEAN
      PROVE  [of |-> o, via |-> v, clean |-> c] \in
             [of : Object \cup {None}, via : SUBSET Partition, clean : BOOLEAN]
      OBVIOUS
<1>c. del.of \in Object \cup {None} /\ del.via \in SUBSET Partition /\ del.clean \in BOOLEAN
      BY <1>a
<1>0. UNCHANGED passes
      BY DEF blob_write, manifest_put, Delete, DeleteFails, DeleteStep, DeleteOn, DeleteDone
<1>1. \A r \in Runner : PassShape(r)'  BY <1>0, ClientShape
<1>3. ASSUME NEW b \in Blob, blob_write(b) PROVE TypeOK'
  <2>1. del' \in [of : Object \cup {None}, via : SUBSET Partition, clean : BOOLEAN]
        BY <1>3, <1>a, <1>b, <1>c DEF blob_write, PutAgain
  <2> QED BY <1>3, <2>1 DEF blob_write, Call, PutAgain, TypeOK, passes
<1>4. ASSUME NEW m \in Manifest, NEW t \in Tag \cup {None}, manifest_put(m, t) PROVE TypeOK'
  <2>1. del' \in [of : Object \cup {None}, via : SUBSET Partition, clean : BOOLEAN]
        BY <1>4, <1>a, <1>b, <1>c DEF manifest_put, PutAgain
  <2>2. tags' \in [Partition -> [Tag -> Manifest \cup {None}]]
        BY <1>4 DEF manifest_put, TypeOK
  <2> QED BY <1>4, <2>1, <2>2 DEF manifest_put, Call, PutAgain, TypeOK, passes
<1>5. ASSUME NEW x \in Object, Delete(x) PROVE TypeOK'
  <2>1. del' \in [of : Object \cup {None}, via : SUBSET Partition, clean : BOOLEAN]
        BY <1>5, <1>b DEF Delete, Idle
  <2> QED BY <1>5, <2>1 DEF Delete, Call, TypeOK, passes, store
<1>6. ASSUME NEW p \in Partition, DeleteFails(p) PROVE TypeOK'
  <2>1. del' \in [of : Object \cup {None}, via : SUBSET Partition, clean : BOOLEAN]
        BY <1>6, <1>b, <1>c DEF DeleteFails
  <2> QED BY <1>6, <2>1 DEF DeleteFails, Error, TypeOK, passes, store
<1>7. ASSUME NEW p \in Partition, DeleteOn(p) PROVE TypeOK'
  <2>1. del' \in [of : Object \cup {None}, via : SUBSET Partition, clean : BOOLEAN]
        BY <1>7, <1>b, <1>c DEF DeleteOn
  <2>2. tags' \in [Partition -> [Tag -> Manifest \cup {None}]]
        BY <1>7 DEF DeleteOn, Without, TypeOK
  <2> QED BY <1>7, <2>1, <2>2 DEF DeleteOn, Without, TypeOK, passes
<1>8. ASSUME DeleteDone PROVE TypeOK'
  <2>1. del' \in [of : Object \cup {None}, via : SUBSET Partition, clean : BOOLEAN]
        BY <1>8 DEF DeleteDone, NoDelete
  <2>2. gone' \subseteq Object
    <3>1. CASE del.of \in Object  BY <1>8, <3>1 DEF DeleteDone, TypeOK
    <3>2. CASE del.of = None
          BY <1>8, <1>c, <3>2 DEF DeleteDone, TypeOK
    <3> QED BY <1>c, <3>1, <3>2
  <2> QED BY <1>8, <2>1, <2>2 DEF DeleteDone, TypeOK, passes, store
<1> QED BY <1>1, <1>3, <1>4, <1>5, <1>6, <1>7, <1>8 DEF DeleteStep

(* A pass that another runner's step does not touch is as it was.          *)
LEMMA OtherShape ==
    ASSUME NEW q \in Runner, PassShape(q),
           at'[q] = at[q], left'[q] = left[q], want'[q] = want[q], wantT'[q] = wantT[q],
           dest'[q] = dest[q], held'[q] = held[q]
    PROVE  PassShape(q)'
BY DEF PassShape

(* steps of a pass that collect what is wanted,                            *)
LEMMA WalkType ==
    ASSUME TypeInv, NEW r \in Runner,
           Start(r) \/ ReadTag(r) \/ ReadChild(r) \/ ListDigests(r) \/ ReadDigest(r) \/ Fail(r)
    PROVE  TypeInv'
<1> USE Kinds, ConstantsOK DEF TypeInv
<1>a. del \in [of : Object \cup {None}, via : SUBSET Partition, clean : BOOLEAN]  BY DEF TypeOK
<1>e. ASSUME End(r), UNCHANGED <<store, clients>>, fails' \in 0..MaxFails PROVE TypeInv'
  <2>1. TypeOK'  BY <1>e DEF End, TypeOK, store, clients, Place
  <2>2. PassShape(r)'  BY <1>e DEF End, PassShape, TypeOK, Copying
  <2>3. ASSUME NEW q \in Runner, q # r PROVE PassShape(q)'
        BY <1>e, <2>3, OtherShape DEF End, TypeOK
  <2> QED BY <2>1, <2>2, <2>3
<1>1. CASE Start(r)
  <2>1. del' \in [of : Object \cup {None}, via : SUBSET Partition, clean : BOOLEAN]
        BY <1>1, <1>a DEF Start
  <2>2. /\ left' \in [Runner -> SUBSET (Object \cup (Tag \X Manifest))] /\ left'[r] \subseteq Tag
        /\ \A q \in Runner \ {r} : left'[q] = left[q]
        BY <1>1, SMTT(30) DEF Start, Listed, TypeOK, Object
  <2>0. every \in [Runner -> BOOLEAN]  BY DEF TypeOK
  <2>3. every' \in [Runner -> BOOLEAN]
    <3>1. every' = every \/ every' = [every EXCEPT ![r] = TRUE]  BY <1>1 DEF Start
    <3> QED BY <2>0, <3>1, Zenon
  <2>4. at' \in [Runner -> Place] /\ at'[r] = "tags"  BY <1>1 DEF Start, TypeOK, Place
  <2>5. TypeOK'  BY <1>1, <2>1, <2>2, <2>3, <2>4 DEF Start, TypeOK, store
  <2>6. PassShape(r)'  BY <2>2, <2>4 DEF PassShape, Copying
  <2>7. ASSUME NEW q \in Runner, q # r PROVE PassShape(q)'
        BY <1>1, <2>2, <2>7, OtherShape DEF Start, TypeOK
  <2> QED BY <2>5, <2>6, <2>7
<1>2. ASSUME NEW m \in Manifest, walk_manifest(r, m)
      PROVE  /\ todo' \in [Runner -> SUBSET Manifest]
             /\ want' \in [Runner -> SUBSET (Blob \cup Manifest)]
             /\ \A q \in Runner \ {r} : want'[q] = want[q]
      BY <1>2 DEF walk_manifest, TypeOK
<1>3. ASSUME NEW m \in Manifest, ReadByDigest(r, m)
      PROVE  /\ todo' \in [Runner -> SUBSET Manifest]
             /\ want' \in [Runner -> SUBSET (Blob \cup Manifest)]
             /\ \A q \in Runner \ {r} : want'[q] = want[q]
      BY <1>2, <1>3 DEF ReadByDigest, TypeOK
<1>4. CASE ReadTag(r)
  <2>1. PICK t \in left[r] :
          LET m == tags[Primary][t] IN
          IF m \notin content[Primary]
          THEN End(r)
          ELSE /\ wantT' = [wantT EXCEPT ![r] = @ \cup {<<t, m>>}]
               /\ left' = [left EXCEPT ![r] = @ \ {t}]
               /\ IF m \in want[r] THEN UNCHANGED <<want, todo>> ELSE walk_manifest(r, m)
               /\ UNCHANGED <<at, every, rest, dest, held>>
        BY <1>4 DEF ReadTag
  <2>2. at[r] = "tags" /\ UNCHANGED <<store, clients, fails>>  BY <1>4 DEF ReadTag
  <2> DEFINE m == tags[Primary][t]
  <2>3. CASE m \notin content[Primary]
        BY <1>e, <2>1, <2>2, <2>3 DEF TypeOK
  <2>4. CASE m \in content[Primary]
    <3>0. t \in Tag /\ m \in Manifest  BY <2>2, <2>4 DEF PassShape, TypeOK
    <3>1. /\ todo' \in [Runner -> SUBSET Manifest]
          /\ want' \in [Runner -> SUBSET (Blob \cup Manifest)]
          /\ \A q \in Runner \ {r} : want'[q] = want[q]
          BY <1>2, <2>1, <2>4, <3>0 DEF TypeOK
    <3>2. wantT' \in [Runner -> SUBSET (Tag \X Manifest)]
          BY <2>1, <2>4, <3>0, SMTT(30) DEF TypeOK
    <3>3. /\ left' \in [Runner -> SUBSET (Object \cup (Tag \X Manifest))]
          /\ left'[r] \subseteq Tag
      <4>1. left \in [Runner -> SUBSET (Object \cup (Tag \X Manifest))]  BY DEF TypeOK
      <4>2. left[r] \subseteq Tag  BY <2>2 DEF PassShape
      <4>3. left' = [left EXCEPT ![r] = @ \ {t}]  BY <2>1, <2>4
      <4> QED BY <4>1, <4>2, <4>3
    <3>4. UNCHANGED <<at, every, rest, dest, held>>  BY <2>1, <2>4
    <3>5. TypeOK'  BY <2>2, <3>1, <3>2, <3>3, <3>4 DEF TypeOK, store, clients
    <3>6. PassShape(r)'  BY <2>2, <3>3, <3>4 DEF PassShape, Copying
    <3>7. ASSUME NEW q \in Runner, q # r PROVE PassShape(q)'
          BY <2>1, <2>4, <3>1, <3>4, <3>7, OtherShape DEF TypeOK
    <3> QED BY <3>5, <3>6, <3>7
  <2> QED BY <2>3, <2>4
<1>5. CASE ReadChild(r)
  <2>1. PICK m \in todo[r] : ReadByDigest(r, m)  BY <1>5 DEF ReadChild
  <2>2. m \in Manifest  BY DEF TypeOK
  <2>3. UNCHANGED <<store, at, every, left, wantT, rest, dest, held, clients, fails>>
        BY <1>5 DEF ReadChild
  <2>4. TypeOK'  BY <1>3, <2>1, <2>2, <2>3 DEF TypeOK, store, clients
  <2>5. want[r] \subseteq want'[r]
        BY <2>1, <2>2 DEF ReadByDigest, walk_manifest, TypeOK
  <2>6. PassShape(r)'  BY <2>3, <2>5 DEF PassShape
  <2>7. ASSUME NEW q \in Runner, q # r PROVE PassShape(q)'
        BY <1>3, <2>1, <2>2, <2>3, <2>7, OtherShape
  <2> QED BY <2>4, <2>6, <2>7
<1>6. CASE ListDigests(r)
  <2>1. /\ left' \in [Runner -> SUBSET (Object \cup (Tag \X Manifest))] /\ left'[r] \subseteq Manifest
        /\ \A q \in Runner \ {r} : left'[q] = left[q] /\ at'[q] = at[q]
        /\ at' \in [Runner -> Place] /\ at'[r] = "digests"
        BY <1>6 DEF ListDigests, TypeOK, Object, Place
  <2>2. dest[r] = None  BY <1>6 DEF ListDigests, TypeOK
  <2>3. TypeOK'  BY <1>6, <2>1, <2>2 DEF ListDigests, TypeOK, store, clients
  <2>4. PassShape(r)'  BY <2>1 DEF PassShape, Copying
  <2>5. ASSUME NEW q \in Runner, q # r PROVE PassShape(q)'
        BY <1>6, <2>1, <2>5, OtherShape DEF ListDigests
  <2> QED BY <2>3, <2>4, <2>5
<1>7. CASE ReadDigest(r)
  <2>1. PICK m \in left[r] : left' = [left EXCEPT ![r] = @ \ {m}] /\ ReadByDigest(r, m)
        BY <1>7 DEF ReadDigest
  <2>2. at[r] = "digests" /\ UNCHANGED <<store, at, every, wantT, rest, dest, held, clients, fails>>
        BY <1>7 DEF ReadDigest
  <2>3. m \in Manifest /\ left[r] \subseteq Manifest  BY <2>2 DEF PassShape
  <2>4. /\ left' \in [Runner -> SUBSET (Object \cup (Tag \X Manifest))]
        /\ left'[r] \subseteq Manifest
        /\ \A q \in Runner \ {r} : left'[q] = left[q]
        BY <2>1, <2>3 DEF TypeOK
  <2>5. TypeOK'  BY <1>3, <2>1, <2>2, <2>3, <2>4 DEF TypeOK, store, clients
  <2>6. PassShape(r)'  BY <2>2, <2>4 DEF PassShape, Copying
  <2>7. ASSUME NEW q \in Runner, q # r PROVE PassShape(q)'
        BY <1>3, <2>1, <2>2, <2>3, <2>4, <2>7, OtherShape
  <2> QED BY <2>5, <2>6, <2>7
<1>8. CASE Fail(r)
  <2>1. fails' \in 0..MaxFails  BY <1>8 DEF Fail, Error, TypeOK
  <2> QED BY <1>8, <1>e, <2>1 DEF Fail
<1> QED BY <1>1, <1>4, <1>5, <1>6, <1>7, <1>8

(* and steps that copy it.                                                 *)
LEMMA CopyType ==
    ASSUME TypeInv, NEW r \in Runner,
           \/ NextTarget(r) \/ Report(r) \/ Phase(r)
           \/ Fetch(r) \/ FetchTag(r) \/ StoreItem(r) \/ StoreTag(r)
    PROVE  TypeInv'
<1> USE Kinds, ConstantsOK DEF TypeInv
<1>1. CASE NextTarget(r)
  <2>1. PICK s \in rest[r] : /\ dest' = [dest EXCEPT ![r] = s]
                             /\ rest' = [rest EXCEPT ![r] = @ \ {s}]
        BY <1>1 DEF NextTarget
  <2>2. s \in Secondary  BY DEF TypeOK
  <2>3. /\ left' = [left EXCEPT ![r] = want[r] \cap Blob] /\ at' = [at EXCEPT ![r] = "blobs"]
        /\ held[r] = None /\ UNCHANGED <<store, every, todo, want, wantT, held, clients, fails>>
        BY <1>1 DEF NextTarget, Through
  <2>4. TypeOK'  BY <2>1, <2>2, <2>3 DEF TypeOK, Place, store, clients, Object
  <2>5. PassShape(r)'  BY <2>1, <2>2, <2>3 DEF PassShape, TypeOK
  <2>6. ASSUME NEW q \in Runner, q # r PROVE PassShape(q)'
        BY <2>1, <2>3, <2>6, OtherShape DEF TypeOK
  <2> QED BY <2>4, <2>5, <2>6
<1>2. CASE Report(r)
  <2>1. End(r) /\ UNCHANGED <<store, clients, fails>>  BY <1>2 DEF Report
  <2>2. TypeOK'  BY <2>1 DEF End, TypeOK, store, clients, Place
  <2>3. PassShape(r)'  BY <2>1 DEF End, PassShape, TypeOK, Copying
  <2>4. ASSUME NEW q \in Runner, q # r PROVE PassShape(q)'
        BY <2>1, <2>4, OtherShape DEF End, TypeOK
  <2> QED BY <2>2, <2>3, <2>4
<1>3. CASE Phase(r)
  <2>1. /\ at' \in [Runner -> Place] /\ left' \in [Runner -> SUBSET (Object \cup (Tag \X Manifest))]
        /\ \A q \in Runner \ {r} : at'[q] = at[q] /\ left'[q] = left[q]
        /\ at[r] \in Copying /\ at'[r] \in {"manifests", "pointers"} /\ held[r] = None
        /\ at'[r] = "manifests" => left'[r] = want[r] \cap Manifest
        /\ at'[r] = "pointers" => left'[r] = wantT[r]
    <3>1. /\ at \in [Runner -> Place] /\ left \in [Runner -> SUBSET (Object \cup (Tag \X Manifest))]
          /\ want[r] \subseteq Blob \cup Manifest /\ wantT[r] \subseteq Tag \X Manifest
          BY DEF TypeOK
    <3>2. CASE /\ at[r] = "blobs" /\ at' = [at EXCEPT ![r] = "manifests"]
               /\ left' = [left EXCEPT ![r] = want[r] \cap Manifest]
          BY <1>3, <3>1, <3>2 DEF Phase, Place, Object, Copying
    <3>3. CASE /\ at[r] = "manifests" /\ at' = [at EXCEPT ![r] = "pointers"]
               /\ left' = [left EXCEPT ![r] = wantT[r]]
          BY <1>3, <3>1, <3>3 DEF Phase, Place, Object, Copying
    <3> QED BY <1>3, <3>2, <3>3 DEF Phase
  <2>2. UNCHANGED <<store, every, todo, want, wantT, rest, dest, held, clients, fails>>
        BY <1>3 DEF Phase
  <2>3. TypeOK'  BY <2>1, <2>2 DEF TypeOK, store, clients
  <2>4. PassShape(r)'  BY <2>1, <2>2 DEF PassShape, Copying
  <2>5. ASSUME NEW q \in Runner, q # r PROVE PassShape(q)'
        BY <2>1, <2>2, <2>5, OtherShape
  <2> QED BY <2>3, <2>4, <2>5
<1>4. CASE Fetch(r) \/ FetchTag(r)
  <2>a. PICK x \in left[r] : /\ left' = [left EXCEPT ![r] = @ \ {x}]
                             /\ held' = held \/ held' = [held EXCEPT ![r] = x]
        BY <1>4 DEF Fetch, FetchTag
  <2>b. /\ at[r] \in Copying /\ held[r] = None
        /\ UNCHANGED <<store, at, every, todo, want, wantT, rest, dest, clients, fails>>
        BY <1>4 DEF Fetch, FetchTag, Copying
  <2>c. /\ left \in [Runner -> SUBSET (Object \cup (Tag \X Manifest))]
        /\ held \in [Runner -> Blob \cup Manifest \cup (Tag \X Manifest) \cup {None}]
        BY DEF TypeOK
  <2>d. /\ left' \in [Runner -> SUBSET (Object \cup (Tag \X Manifest))] /\ left'[r] \subseteq left[r]
        /\ \A q \in Runner \ {r} : left'[q] = left[q]
        BY <2>a, <2>c
  <2>e. \A q \in Runner \ {r} : held'[q] = held[q]  BY <2>a, <2>c
  <2>1. /\ at[r] \in Copying /\ UNCHANGED <<store, at, every, todo, want, wantT, rest, dest, clients, fails>>
        /\ \A q \in Runner \ {r} : left'[q] = left[q] /\ held'[q] = held[q]
        /\ left' \in [Runner -> SUBSET (Object \cup (Tag \X Manifest))] /\ left'[r] \subseteq left[r]
        BY <2>b, <2>d, <2>e
  <2>2. held'[r] \in left[r] \cup {None} /\ held' = [held EXCEPT ![r] = held'[r]]
        BY <2>a, <2>b, <2>c
  <2>3. left[r] \subseteq Blob \cup Manifest \cup (Tag \X Manifest)
        BY <2>1 DEF PassShape, Copying, TypeOK
  <2>4. held' \in [Runner -> Blob \cup Manifest \cup (Tag \X Manifest) \cup {None}]
        BY <2>2, <2>3 DEF TypeOK
  <2>5. dest[r] \in Secondary  BY <2>1 DEF PassShape
  <2>6. TypeOK'  BY <2>1, <2>4, <2>5 DEF TypeOK, store, clients
  <2>7. PassShape(r)'  BY <2>1, <2>2 DEF PassShape, Copying
  <2>8. ASSUME NEW q \in Runner, q # r PROVE PassShape(q)'
        BY <2>1, <2>8, OtherShape
  <2> QED BY <2>6, <2>7, <2>8
<1>5. CASE StoreItem(r) \/ StoreTag(r)
  <2>1. /\ held' = [held EXCEPT ![r] = None]
        /\ UNCHANGED <<at, every, left, todo, want, wantT, rest, dest, clients, fails>>
        BY <1>5 DEF StoreItem, StoreTag
  <2>2. dest[r] \in Secondary  BY <1>5 DEF StoreItem, StoreTag, TypeOK
  <2>3. content' \in [Partition -> SUBSET (Blob \cup Manifest)]
        BY <1>5, <2>2 DEF StoreItem, StoreTag, TypeOK
  <2>4. tags' \in [Partition -> [Tag -> Manifest \cup {None}]]
    <3>1. CASE StoreItem(r)  BY <3>1 DEF StoreItem, TypeOK
    <3>2. CASE StoreTag(r)
      <4>1. /\ tags \in [Partition -> [Tag -> Manifest \cup {None}]]
            /\ dest[r] \in Partition  BY <2>2 DEF TypeOK
      <4>2. held[r][1] \in Tag /\ held[r][2] \in Manifest  BY <3>2 DEF StoreTag
      <4>3. tags' = [tags EXCEPT ![dest[r]] = [tags[dest[r]] EXCEPT ![held[r][1]] = held[r][2]]]
            BY <3>2 DEF StoreTag
      <4>4. [tags[dest[r]] EXCEPT ![held[r][1]] = held[r][2]] \in [Tag -> Manifest \cup {None}]
            BY <4>1, <4>2
      <4> QED BY <4>1, <4>3, <4>4
    <3> QED BY <1>5, <3>1, <3>2
  <2>5. TypeOK'  BY <2>1, <2>3, <2>4 DEF TypeOK, clients
  <2>6. PassShape(r)'  BY <2>1 DEF PassShape, TypeOK
  <2>7. ASSUME NEW q \in Runner, q # r PROVE PassShape(q)'
        BY <2>1, <2>7, OtherShape DEF TypeOK
  <2> QED BY <2>5, <2>6, <2>7
<1> QED BY <1>1, <1>2, <1>3, <1>4, <1>5

LEMMA TypeStep == TypeInv /\ [Next]_vars => TypeInv'
<1> SUFFICES ASSUME TypeInv, [Next]_vars PROVE TypeInv'  OBVIOUS
<1>1. CASE UNCHANGED vars
      BY <1>1 DEF vars, store, passes, clients, TypeInv, TypeOK, PassShape
<1>2. ASSUME NEW r \in Runner, Start(r) \/ PassStep(r) \/ Fail(r) PROVE TypeInv'
      BY <1>2, WalkType, CopyType DEF PassStep
<1> QED BY <1>1, <1>2, ClientType DEF Next

(* The variables keep their types in every behaviour.                      *)
THEOREM TypeCorrect == Spec => []TypeOK
<1>1. TypeInv => TypeOK  BY DEF TypeInv
<1> QED BY <1>1, TypeInit, TypeStep, PTL DEF Spec

-----------------------------------------------------------------------------
(* Completeness of the secondaries.                                        *)

(* What partitions have was pushed, with everything it refers to, and what *)
(* was pushed is on the primary unless a request deleted it. The object of *)
(* a delete under way counts as deleted.                                   *)
Pushed ==
    /\ have \subseteq content[Primary] \cup deleted
    /\ \A m \in have \cap Manifest : BlobsOf[m] \cup ChildrenOf[m] \subseteq have
    /\ \A p \in Partition : content[p] \subseteq have
    /\ del.of \in deleted \cup {None}

(* A pass wants a manifest together with its blobs and, but for deletes,   *)
(* its children, once it has read them, and the manifest of each tag; it   *)
(* wants nothing that was never pushed, and nothing more once it copies.   *)
Wanted(r) ==
    /\ at[r] \in Copying => todo[r] = {}
    /\ want[r] \cup todo[r] \subseteq have
    /\ \A m \in want[r] \cap Manifest : /\ BlobsOf[m] \subseteq want[r]
                                       /\ ChildrenOf[m] \subseteq want[r] \cup todo[r] \cup deleted
    /\ \A x \in wantT[r] : x[2] \in want[r]

(* The blobs that the pass has gone through are on its target, all of them *)
(* before the first manifest, and so are the manifests, all of them before *)
(* the first tag, except for what it holds and what a request has deleted. *)
Copied(r) ==
    /\ at[r] = "blobs" =>
        (want[r] \cap Blob) \ (left[r] \cup {held[r]} \cup deleted) \subseteq content[dest[r]]
    /\ at[r] \in {"manifests", "pointers"} =>
        (want[r] \cap Blob) \ deleted \subseteq content[dest[r]]
    /\ at[r] = "manifests" =>
        (want[r] \cap Manifest) \ (left[r] \cup {held[r]} \cup deleted) \subseteq content[dest[r]]
    /\ at[r] = "pointers" => (want[r] \cap Manifest) \ deleted \subseteq content[dest[r]]

CompleteInv == TypeInv /\ Pushed /\ (\A r \in Runner : Wanted(r) /\ Copied(r)) /\ ReplicaComplete

LEMMA CompleteInit == Init => CompleteInv
<1> SUFFICES ASSUME Init PROVE CompleteInv  OBVIOUS
<1> USE Kinds DEF Init
<1>1. Pushed  BY DEF Pushed, NoDelete
<1>2. \A r \in Runner : Wanted(r) /\ Copied(r)  BY DEF Wanted, Copied
<1>3. ReplicaComplete  BY DEF ReplicaComplete
<1> QED BY <1>1, <1>2, <1>3, TypeInit DEF CompleteInv

(* What nobody deletes stays where it is.                                  *)
Keeps == /\ have \subseteq have' /\ deleted \subseteq deleted'
         /\ \A p \in Partition : content[p] \ deleted' \subseteq content'[p]

(* So what a pass wants, and has copied, is not disturbed by others.       *)
LEMMA OtherPass ==
    ASSUME NEW q \in Runner, TypeInv, Wanted(q), Copied(q), Keeps,
           at'[q] = at[q], left'[q] = left[q], todo'[q] = todo[q], want'[q] = want[q],
           wantT'[q] = wantT[q], dest'[q] = dest[q], held'[q] = held[q]
    PROVE  Wanted(q)' /\ Copied(q)'
<1>1. Wanted(q)'  BY DEF Wanted, Keeps
<1>2. at[q] \in Copying => dest[q] \in Partition
      BY Kinds DEF TypeInv, PassShape
<1>3. Copied(q)'  BY <1>2 DEF Copied, Keeps, Copying
<1> QED BY <1>1, <1>3

(* Nor is a tree of images, except for what is deleted of it.              *)
LEMMA TreeStays ==
    ASSUME NEW s, NEW m, WholeTree(s, m), deleted \subseteq deleted',
           content[s] \ deleted' \subseteq content'[s]
    PROVE  WholeTree(s, m)'
<1>1. PICK tree \in SUBSET (content[s] \cap Manifest) :
        m \in tree \cup deleted /\ \A x \in tree : ChildrenOf[x] \subseteq tree \cup deleted
      BY DEF WholeTree
<1> DEFINE kept == tree \ deleted'
<1>2. kept \in SUBSET (content'[s] \cap Manifest)  BY <1>1
<1>3. m \in kept \cup deleted' /\ \A x \in kept : ChildrenOf[x] \subseteq kept \cup deleted'
      BY <1>1
<1> QED BY <1>2, <1>3 DEF WholeTree

(* Requests of the clients.                                                *)
LEMMA ClientComplete ==
    ASSUME CompleteInv, TypeInv',
           \/ \E b \in Blob : blob_write(b)
           \/ \E m \in Manifest, t \in Tag \cup {None} : manifest_put(m, t)
           \/ \E x \in Object : Delete(x)
           \/ \E p \in Partition : DeleteFails(p)
           \/ DeleteStep
    PROVE  CompleteInv'
<1> USE Kinds DEF CompleteInv
<1>0. UNCHANGED passes
      BY DEF blob_write, manifest_put, Delete, DeleteFails, DeleteStep, DeleteOn, DeleteDone
<1>t. /\ content \in [Partition -> SUBSET (Blob \cup Manifest)]
      /\ tags \in [Partition -> [Tag -> Manifest \cup {None}]]
      BY DEF TypeInv, TypeOK
<1> DEFINE Kept == /\ Keeps
                   /\ \A s \in Secondary : /\ content'[s] \subseteq content[s]
                                           /\ \A t \in Tag : tags'[s][t] \in {tags[s][t], None}
<1>1. ASSUME NEW b \in Blob, blob_write(b) PROVE Kept /\ Pushed'
  <2>1. /\ content' = [content EXCEPT ![Primary] = content[Primary] \cup {b}] /\ have' = have \cup {b}
        /\ tags' = tags /\ deleted' = deleted /\ del'.of = del.of
        BY <1>1 DEF blob_write, PutAgain
  <2>2. /\ content'[Primary] = content[Primary] \cup {b}
        /\ \A p \in Partition \ {Primary} : content'[p] = content[p]
        BY <1>t, <2>1
  <2>3. Kept  BY <2>1, <2>2 DEF Keeps
  <2>4. Pushed'  BY <2>1, <2>2 DEF Pushed
  <2> QED BY <2>3, <2>4
<1>2. ASSUME NEW m \in Manifest, NEW t \in Tag \cup {None}, manifest_put(m, t) PROVE Kept /\ Pushed'
  <2>1. /\ content' = [content EXCEPT ![Primary] = content[Primary] \cup {m}] /\ have' = have \cup {m}
        /\ deleted' = deleted /\ del'.of = del.of /\ BlobsOf[m] \cup ChildrenOf[m] \subseteq have
        BY <1>2 DEF manifest_put, PutAgain
  <2>2. /\ content'[Primary] = content[Primary] \cup {m}
        /\ \A p \in Partition \ {Primary} : content'[p] = content[p]
        BY <1>t, <2>1
  <2>3. \A s \in Secondary : tags'[s] = tags[s]
        BY <1>2, <1>t DEF manifest_put
  <2>4. Kept  BY <2>1, <2>2, <2>3 DEF Keeps
  <2>5. Pushed'  BY <2>1, <2>2 DEF Pushed
  <2> QED BY <2>4, <2>5
<1>3. ASSUME NEW x \in Object, Delete(x) PROVE Kept /\ Pushed'
  <2>1. /\ content' = content /\ tags' = tags /\ have' = have
        /\ deleted' = deleted \cup {x} /\ del'.of = x
        BY <1>3 DEF Delete, store
  <2>2. Kept  BY <2>1 DEF Keeps
  <2>3. Pushed'  BY <2>1 DEF Pushed
  <2> QED BY <2>2, <2>3
<1>4. ASSUME NEW p \in Partition, DeleteFails(p) PROVE Kept /\ Pushed'
  <2>1. /\ content' = content /\ tags' = tags /\ have' = have /\ deleted' = deleted /\ del'.of = del.of
        BY <1>4 DEF DeleteFails, store
  <2> QED BY <2>1 DEF Keeps, Pushed
<1>5. ASSUME NEW p \in Partition, DeleteOn(p) PROVE Kept /\ Pushed'
  <2>1. /\ content' = [content EXCEPT ![p] = content[p] \ {del.of}]
        /\ have' = have /\ deleted' = deleted /\ del'.of = del.of
        BY <1>5 DEF DeleteOn, Without
  <2>2. \A q \in Partition : /\ content[q] \ {del.of} \subseteq content'[q]
                             /\ content'[q] \subseteq content[q]
        BY <1>t, <2>1
  <2>3. \A s \in Partition, t \in Tag : tags'[s][t] \in {tags[s][t], None}
        BY <1>5, <1>t DEF DeleteOn, Without
  <2>4. None \notin content[Primary]  BY <1>t
  <2>5. Kept  BY <1>t, <2>1, <2>2, <2>3 DEF Keeps, Pushed
  <2>6. Pushed'  BY <1>t, <2>1, <2>2 DEF Pushed
  <2> QED BY <2>5, <2>6
<1>6. ASSUME DeleteDone PROVE Kept /\ Pushed'
  <2>1. /\ content' = content /\ tags' = tags /\ have' = have /\ deleted' = deleted /\ del'.of = None
        BY <1>6 DEF DeleteDone, NoDelete, store
  <2> QED BY <2>1 DEF Keeps, Pushed
<1>7. Kept /\ Pushed'
      BY <1>1, <1>2, <1>3, <1>4, <1>5, <1>6 DEF DeleteStep
<1>8. \A r \in Runner : Wanted(r)' /\ Copied(r)'
      BY <1>0, <1>7, OtherPass DEF passes
<1>9. ReplicaComplete'
  <2> SUFFICES ASSUME NEW s \in Secondary
               PROVE  /\ \A m \in content'[s] \cap Manifest : BlobsOf[m] \ deleted' \subseteq content'[s]
                      /\ \A t \in Tag, m \in Manifest : tags'[s][t] = m => WholeTree(s, m)'
    <3>1. \A s \in Secondary, t \in Tag : tags'[s][t] \in Manifest \cup {None}  BY DEF TypeInv, TypeOK
    <3> QED BY <3>1 DEF ReplicaComplete, WholeTree
  <2>1. /\ content'[s] \subseteq content[s] /\ deleted \subseteq deleted'
        /\ content[s] \ deleted' \subseteq content'[s]
        /\ \A t \in Tag : tags'[s][t] \in {tags[s][t], None}
        BY <1>7 DEF Keeps
  <2>2. ASSUME NEW t \in Tag, NEW m \in Manifest, tags'[s][t] = m PROVE WholeTree(s, m)'
    <3>1. m = tags[s][t] /\ WholeTree(s, m)  BY <2>1, <2>2 DEF ReplicaComplete
    <3> QED BY <2>1, <3>1, TreeStays
  <2> QED BY <2>1, <2>2 DEF ReplicaComplete
<1> QED BY <1>7, <1>8, <1>9

(* A pass that only reads changes no partition and nothing of the clients. *)
LEMMA ReadComplete ==
    ASSUME CompleteInv, NEW r \in Runner, UNCHANGED <<store, have, deleted>>, del'.of = del.of,
           Wanted(r)', Copied(r)',
           \A q \in Runner \ {r} :
                /\ at'[q] = at[q] /\ left'[q] = left[q] /\ todo'[q] = todo[q] /\ want'[q] = want[q]
                /\ wantT'[q] = wantT[q] /\ dest'[q] = dest[q] /\ held'[q] = held[q],
           TypeInv'
    PROVE  CompleteInv'
<1> USE DEF CompleteInv, store
<1>1. Pushed' /\ ReplicaComplete'  BY DEF Pushed, ReplicaComplete, WholeTree
<1>2. Keeps  BY DEF Keeps
<1>3. ASSUME NEW q \in Runner, q # r PROVE Wanted(q)' /\ Copied(q)'
      BY <1>2, <1>3, OtherPass
<1> QED BY <1>1, <1>3

(* What a pass reads on the primary was pushed.                            *)
LEMMA ReadPushed ==
    ASSUME CompleteInv, NEW r \in Runner, NEW m \in Manifest, m \in content[Primary],
           walk_manifest(r, m)
    PROVE  /\ want'[r] \cup todo'[r] \subseteq have /\ m \in want'[r] /\ want[r] \subseteq want'[r]
           /\ \A n \in want'[r] \cap Manifest :
                /\ BlobsOf[n] \subseteq want'[r]
                /\ ChildrenOf[n] \subseteq want'[r] \cup todo'[r] \cup deleted
<1> USE Kinds DEF CompleteInv
<1>1. /\ want'[r] = want[r] \cup {m} \cup BlobsOf[m]
      /\ todo'[r] = (todo[r] \cup ChildrenOf[m]) \ {m}
      BY DEF walk_manifest, TypeInv, TypeOK
<1>2. m \in have /\ BlobsOf[m] \cup ChildrenOf[m] \subseteq have  BY DEF Pushed
<1> QED BY <1>1, <1>2 DEF Wanted

(* Steps of a pass that collect what is wanted,                            *)
LEMMA WalkComplete ==
    ASSUME CompleteInv, TypeInv', NEW r \in Runner,
           Start(r) \/ ReadTag(r) \/ ReadChild(r) \/ ListDigests(r) \/ ReadDigest(r) \/ Fail(r)
    PROVE  CompleteInv'
<1> USE Kinds DEF CompleteInv
<1>t. /\ at \in [Runner -> Place] /\ left \in [Runner -> SUBSET (Object \cup (Tag \X Manifest))]
      /\ todo \in [Runner -> SUBSET Manifest]
      /\ want \in [Runner -> SUBSET (Blob \cup Manifest)]
      /\ wantT \in [Runner -> SUBSET (Tag \X Manifest)]
      /\ dest \in [Runner -> Secondary \cup {None}]
      /\ held \in [Runner -> Blob \cup Manifest \cup (Tag \X Manifest) \cup {None}]
      BY DEF TypeInv, TypeOK
<1>e. ASSUME End(r), UNCHANGED <<store, clients>> PROVE CompleteInv'
  <2>1. Wanted(r)' /\ Copied(r)'  BY <1>e, <1>t DEF End, Wanted, Copied, Copying
  <2> QED BY <1>e, <1>t, <2>1, ReadComplete DEF End, clients
<1>w. ASSUME NEW m \in Manifest, ReadByDigest(r, m), at[r] \notin Copying,
             UNCHANGED <<at, wantT, dest, held, store, clients>>,
             \A q \in Runner \ {r} : left'[q] = left[q]
      PROVE  CompleteInv'
  <2>1. \A q \in Runner \ {r} : want'[q] = want[q] /\ todo'[q] = todo[q]
        BY <1>t, <1>w DEF ReadByDigest, walk_manifest
  <2>2. Wanted(r)'
    <3>1. CASE m \in want[r] \/ m \notin content[Primary]
      <4>1. todo'[r] = todo[r] \ {m} /\ want' = want  BY <1>t, <1>w, <3>1 DEF ReadByDigest
      <4>2. m \in todo[r] => m \in want[r] \cup deleted  BY <3>1 DEF Wanted, Pushed
      <4> QED BY <1>w, <4>1, <4>2 DEF Wanted, clients
    <3>2. CASE m \notin want[r] /\ m \in content[Primary]
          BY <1>w, <3>2, ReadPushed DEF ReadByDigest, Wanted, clients
    <3> QED BY <3>1, <3>2
  <2>3. Copied(r)'  BY <1>w DEF Copied, Copying
  <2> QED BY <1>w, <2>1, <2>2, <2>3, ReadComplete DEF clients
<1>1. CASE Start(r)
  <2>1. /\ \A q \in Runner \ {r} : at'[q] = at[q] /\ left'[q] = left[q]
        /\ at'[r] = "tags"
        /\ UNCHANGED <<store, todo, want, wantT, dest, held, have, deleted>> /\ del'.of = del.of
        BY <1>1, <1>t DEF Start, Listed, store
  <2>2. Wanted(r)' /\ Copied(r)'  BY <2>1 DEF Wanted, Copied, Copying
  <2> QED BY <2>1, <2>2, ReadComplete
<1>2. CASE ReadTag(r)
  <2>1. PICK t \in left[r] :
          LET m == tags[Primary][t] IN
          IF m \notin content[Primary]
          THEN End(r)
          ELSE /\ wantT' = [wantT EXCEPT ![r] = @ \cup {<<t, m>>}]
               /\ left' = [left EXCEPT ![r] = @ \ {t}]
               /\ IF m \in want[r] THEN UNCHANGED <<want, todo>> ELSE walk_manifest(r, m)
               /\ UNCHANGED <<at, every, rest, dest, held>>
        BY <1>2 DEF ReadTag
  <2>2. at[r] = "tags" /\ UNCHANGED <<store, clients, fails>>  BY <1>2 DEF ReadTag
  <2> DEFINE m == tags[Primary][t]
  <2>3. CASE m \notin content[Primary]  BY <1>e, <2>1, <2>2, <2>3
  <2>4. CASE m \in content[Primary]
    <3>0. t \in Tag /\ m \in Manifest
          BY <2>2, <2>4 DEF TypeInv, PassShape, TypeOK
    <3>1. /\ \A q \in Runner \ {r} : want'[q] = want[q] /\ todo'[q] = todo[q]
          /\ want'[r] \cup todo'[r] \subseteq have /\ m \in want'[r] /\ want[r] \subseteq want'[r]
          /\ \A n \in want'[r] \cap Manifest :
                /\ BlobsOf[n] \subseteq want'[r]
                /\ ChildrenOf[n] \subseteq want'[r] \cup todo'[r] \cup deleted
      <4>1. CASE m \in want[r]  BY <2>1, <2>4, <4>1 DEF Wanted
      <4>2. CASE m \notin want[r]
        <5>1. walk_manifest(r, m)  BY <2>1, <2>4, <4>2
        <5>2. \A q \in Runner \ {r} : want'[q] = want[q] /\ todo'[q] = todo[q]
              BY <1>t, <5>1 DEF walk_manifest
        <5> QED BY <2>4, <3>0, <5>1, <5>2, ReadPushed
      <4> QED BY <4>1, <4>2
    <3>2. /\ wantT'[r] = wantT[r] \cup {<<t, m>>}
          /\ \A q \in Runner \ {r} : wantT'[q] = wantT[q] /\ left'[q] = left[q]
          BY <1>t, <2>1, <2>4
    <3>3. UNCHANGED <<at, every, rest, dest, held>>  BY <2>1, <2>4
    <3>4. Wanted(r)'  BY <2>2, <3>1, <3>2, <3>3 DEF Wanted, clients, Copying
    <3>5. Copied(r)'  BY <2>2, <3>3 DEF Copied
    <3> QED BY <2>2, <3>1, <3>2, <3>3, <3>4, <3>5, ReadComplete DEF clients
  <2> QED BY <2>3, <2>4
<1>3. CASE ReadChild(r)
  <2>1. PICK m \in todo[r] : ReadByDigest(r, m)  BY <1>3 DEF ReadChild
  <2>2. m \in Manifest /\ at[r] \notin Copying  BY <1>t DEF Wanted
  <2> QED BY <1>3, <1>w, <2>1, <2>2 DEF ReadChild
<1>4. CASE ListDigests(r)
  <2>1. /\ \A q \in Runner \ {r} : left'[q] = left[q] /\ at'[q] = at[q]
        /\ at'[r] = "digests"
        /\ UNCHANGED <<store, every, todo, want, wantT, rest, dest, held, clients, fails>>
        BY <1>4, <1>t DEF ListDigests
  <2>2. Wanted(r)' /\ Copied(r)'  BY <2>1 DEF Wanted, Copied, Copying, clients
  <2> QED BY <2>1, <2>2, ReadComplete DEF clients
<1>5. CASE ReadDigest(r)
  <2>1. PICK m \in left[r] : left' = [left EXCEPT ![r] = @ \ {m}] /\ ReadByDigest(r, m)
        BY <1>5 DEF ReadDigest
  <2>2. at[r] = "digests" /\ UNCHANGED <<store, at, every, wantT, rest, dest, held, clients, fails>>
        BY <1>5 DEF ReadDigest
  <2>3. m \in Manifest  BY <2>1, <2>2 DEF TypeInv, PassShape
  <2> QED BY <1>t, <1>w, <2>1, <2>2, <2>3 DEF Copying
<1>6. CASE Fail(r)  BY <1>6, <1>e DEF Fail
<1> QED BY <1>1, <1>2, <1>3, <1>4, <1>5, <1>6

(* and steps that copy it: blobs before the manifests that need them.      *)
LEMMA CopyComplete ==
    ASSUME CompleteInv, TypeInv', NEW r \in Runner,
           \/ NextTarget(r) \/ Report(r) \/ Phase(r)
           \/ Fetch(r) \/ FetchTag(r) \/ StoreItem(r) \/ StoreTag(r)
    PROVE  CompleteInv'
<1> USE Kinds DEF CompleteInv
<1>t. /\ at \in [Runner -> Place] /\ left \in [Runner -> SUBSET (Object \cup (Tag \X Manifest))]
      /\ todo \in [Runner -> SUBSET Manifest]
      /\ want \in [Runner -> SUBSET (Blob \cup Manifest)]
      /\ wantT \in [Runner -> SUBSET (Tag \X Manifest)]
      /\ dest \in [Runner -> Secondary \cup {None}]
      /\ held \in [Runner -> Blob \cup Manifest \cup (Tag \X Manifest) \cup {None}]
      /\ content \in [Partition -> SUBSET (Blob \cup Manifest)]
      /\ tags \in [Partition -> [Tag -> Manifest \cup {None}]]
      BY DEF TypeInv, TypeOK
<1>1. CASE NextTarget(r)
  <2>1. /\ \A q \in Runner \ {r} : at'[q] = at[q] /\ left'[q] = left[q] /\ dest'[q] = dest[q]
        /\ at'[r] = "blobs" /\ left'[r] = want[r] \cap Blob /\ todo[r] = {}
        /\ UNCHANGED <<store, every, todo, want, wantT, held, clients, fails>>
        BY <1>1, <1>t DEF NextTarget, Through
  <2>2. Wanted(r)' /\ Copied(r)'  BY <2>1 DEF Wanted, Copied, clients
  <2> QED BY <2>1, <2>2, ReadComplete DEF clients
<1>2. CASE Report(r)
  <2>1. End(r) /\ UNCHANGED <<store, clients>>  BY <1>2 DEF Report
  <2>2. Wanted(r)' /\ Copied(r)'  BY <2>1, <1>t DEF End, Wanted, Copied, Copying
  <2> QED BY <2>1, <1>t, <2>2, ReadComplete DEF End, clients
<1>3. CASE Phase(r)
  <2>1. /\ \A q \in Runner \ {r} : at'[q] = at[q] /\ left'[q] = left[q]
        /\ UNCHANGED <<store, every, todo, want, wantT, rest, dest, held, clients, fails>>
        /\ left[r] = {} /\ held[r] = None
        /\ \/ at[r] = "blobs" /\ at'[r] = "manifests" /\ left'[r] = want[r] \cap Manifest
           \/ at[r] = "manifests" /\ at'[r] = "pointers"
        BY <1>3, <1>t DEF Phase
  <2>2. Wanted(r)'  BY <2>1 DEF Wanted, clients, Copying
  <2>3. Copied(r)'  BY <1>t, <2>1 DEF Copied, clients, store
  <2> QED BY <2>1, <2>2, <2>3, ReadComplete DEF clients
<1>4. CASE Fetch(r)
  <2>1. PICK x \in left[r] :
            /\ left' = [left EXCEPT ![r] = @ \ {x}]
            /\ IF x \in content[Primary] \ content[dest[r]]
               THEN held' = [held EXCEPT ![r] = x]
               ELSE UNCHANGED held
        BY <1>4 DEF Fetch
  <2>2. /\ at[r] \in {"blobs", "manifests"} /\ held[r] = None
        /\ UNCHANGED <<store, at, every, todo, want, wantT, rest, dest, clients, fails>>
        BY <1>4 DEF Fetch
  <2>3. \A q \in Runner \ {r} : left'[q] = left[q] /\ held'[q] = held[q]  BY <1>t, <2>1
  <2>4. Wanted(r)'  BY <2>2 DEF Wanted, clients
  <2>5. Copied(r)'
    <3>1. left'[r] = left[r] \ {x} /\ x \in want[r]
          BY <1>t, <2>1, <2>2 DEF TypeInv, PassShape
    <3>2. x = held'[r] \/ x \in content[dest[r]] \cup deleted
          BY <1>t, <2>1, <3>1 DEF Pushed, Wanted
    <3>3. CASE at[r] = "blobs"  BY <2>2, <3>1, <3>2, <3>3 DEF Copied, clients, store
    <3>4. CASE at[r] = "manifests"  BY <2>2, <3>1, <3>2, <3>4 DEF Copied, clients, store
    <3> QED BY <2>2, <3>3, <3>4
  <2> QED BY <2>2, <2>3, <2>4, <2>5, ReadComplete DEF clients
<1>5. CASE FetchTag(r)
  <2>1. /\ at[r] = "pointers" /\ \A q \in Runner \ {r} : left'[q] = left[q] /\ held'[q] = held[q]
        /\ UNCHANGED <<store, at, every, todo, want, wantT, rest, dest, clients, fails>>
        BY <1>5, <1>t DEF FetchTag
  <2>2. Wanted(r)' /\ Copied(r)'  BY <2>1 DEF Wanted, Copied, clients, store
  <2> QED BY <2>1, <2>2, ReadComplete DEF clients
<1>6. CASE StoreItem(r) \/ StoreTag(r)
  <2> DEFINE x == IF held[r] \in Tag \X Manifest THEN held[r][2] ELSE held[r]
             s == dest[r]
  <2>1. /\ s \in Secondary /\ x \in Blob \cup Manifest /\ x \in want[r]
        /\ at[r] \in {"blobs", "manifests"} => x = held[r]
        /\ held[r] \in Tag \X Manifest => at[r] = "pointers"
        /\ at[r] \in {"blobs", "manifests", "pointers"}
    <3>1. held[r] # None  BY <1>6 DEF StoreItem, StoreTag
    <3>2. s \in Secondary /\ at[r] \in {"blobs", "manifests", "pointers"}
          BY <3>1, <1>t DEF TypeInv, TypeOK
    <3>3. CASE at[r] = "blobs"  BY <1>6, <3>1, <3>2, <3>3 DEF TypeInv, PassShape, StoreItem, StoreTag
    <3>4. CASE at[r] = "manifests"  BY <1>6, <3>1, <3>2, <3>4 DEF TypeInv, PassShape, StoreItem, StoreTag
    <3>5. CASE at[r] = "pointers"
      <4>1. held[r] \in wantT[r] /\ held[r] \in Tag \X Manifest
            BY <1>t, <3>1, <3>5 DEF TypeInv, PassShape
      <4> QED BY <3>2, <3>5, <4>1 DEF Wanted
    <3> QED BY <3>2, <3>3, <3>4, <3>5
  <2>2. /\ content' = [content EXCEPT ![s] = content[s] \cup {x}]
        /\ held' = [held EXCEPT ![r] = None]
        /\ UNCHANGED <<at, every, left, todo, want, wantT, rest, dest, clients, fails>>
        BY <1>6 DEF StoreItem, StoreTag
  <2>3. /\ content'[s] = content[s] \cup {x}
        /\ \A p \in Partition \ {s} : content'[p] = content[p]
        BY <1>t, <2>1, <2>2
  <2>4. \A q \in Secondary, t \in Tag :
            tags'[q][t] # None => tags'[q][t] = tags[q][t]
                    \/ (q = s /\ tags'[q][t] = x /\ held[r] \in Tag \X Manifest /\ x \in Manifest)
    <3>1. CASE StoreItem(r)  BY <3>1 DEF StoreItem
    <3>2. CASE StoreTag(r)  BY <1>t, <2>1, <3>2 DEF StoreTag
    <3> QED BY <1>6, <3>1, <3>2
  <2>5. Keeps  BY <2>2, <2>3 DEF Keeps, clients
  <2>6. Pushed'  BY <2>1, <2>2, <2>3 DEF Pushed, clients, Wanted
  <2>7. ASSUME NEW q \in Runner, q # r PROVE Wanted(q)' /\ Copied(q)'
        BY <1>t, <2>2, <2>5, <2>7, OtherPass
  <2>8. Wanted(r)'  BY <2>2 DEF Wanted, clients
  <2>9. Copied(r)'
    <3>1. held'[r] = None  BY <1>t, <2>2
    <3> QED BY <2>1, <2>2, <2>3, <3>1 DEF Copied, clients
  <2>10. ReplicaComplete'
    <3> SUFFICES ASSUME NEW q \in Secondary
                 PROVE  /\ \A m \in content'[q] \cap Manifest : BlobsOf[m] \ deleted \subseteq content'[q]
                        /\ \A t \in Tag, m \in Manifest : tags'[q][t] = m => WholeTree(q, m)'
      <4>1. \A q \in Secondary, t \in Tag : tags'[q][t] \in Manifest \cup {None}  BY DEF TypeInv, TypeOK
      <4> QED BY <2>2, <4>1 DEF ReplicaComplete, WholeTree, clients
    <3>1. content[q] \subseteq content'[q]  BY <2>3
    <3>2. \A m \in content[q] \cap Manifest : BlobsOf[m] \ deleted \subseteq content'[q]
          BY <3>1 DEF ReplicaComplete
    <3>3. x \in Manifest => BlobsOf[x] \ deleted \subseteq content[s]
      <4>1. at[r] = "blobs" => x \in Blob  BY <2>1 DEF TypeInv, PassShape
      <4> QED BY <2>1, <4>1 DEF Copied, Wanted
    <3>4. \A m \in content'[q] \cap Manifest : BlobsOf[m] \ deleted \subseteq content'[q]
          BY <2>3, <3>1, <3>2, <3>3
    <3>5. ASSUME NEW t \in Tag, NEW m \in Manifest, tags'[q][t] = m PROVE WholeTree(q, m)'
      <4>1. CASE m = tags[q][t]
        <5>1. WholeTree(q, m)  BY <4>1 DEF ReplicaComplete
        <5> QED BY <2>5, <3>1, <5>1, TreeStays DEF Keeps
      <4>2. CASE m # tags[q][t]
        <5>1. /\ at[r] = "pointers" /\ q = s /\ m = x /\ x \in Manifest /\ deleted' = deleted
              BY <2>1, <2>2, <2>4, <3>5, <4>2 DEF StoreTag, clients
        <5> DEFINE tree == (want[r] \cap Manifest) \ deleted
        <5>2. tree \in SUBSET (content'[q] \cap Manifest)  BY <3>1, <5>1 DEF Copied
        <5>3. \A n \in tree : ChildrenOf[n] \subseteq tree \cup deleted
              BY <5>1 DEF Wanted, Copying
        <5>4. x \in tree \cup deleted  BY <2>1, <5>1
        <5> QED BY <5>1, <5>2, <5>3, <5>4 DEF WholeTree
      <4> QED BY <4>1, <4>2
    <3> QED BY <3>4, <3>5
  <2> QED BY <2>6, <2>7, <2>8, <2>9, <2>10
<1> QED BY <1>1, <1>2, <1>3, <1>4, <1>5, <1>6

LEMMA CompleteStep == CompleteInv /\ [Next]_vars => CompleteInv'
<1> SUFFICES ASSUME CompleteInv, [Next]_vars PROVE CompleteInv'  OBVIOUS
<1>0. TypeInv'  BY TypeStep DEF CompleteInv
<1>1. CASE UNCHANGED vars
      BY <1>0, <1>1 DEF vars, store, passes, clients, CompleteInv, Pushed, Wanted, Copied, ReplicaComplete, WholeTree
<1>2. ASSUME NEW r \in Runner, Start(r) \/ PassStep(r) \/ Fail(r) PROVE CompleteInv'
      BY <1>0, <1>2, WalkComplete, CopyComplete DEF PassStep
<1> QED BY <1>0, <1>1, <1>2, ClientComplete DEF Next

(* A secondary has the blobs of its manifests, and under each tag the      *)
(* whole tree of images, whenever a pass stops (copy_into), except for     *)
(* what a request has deleted.                                             *)
THEOREM SecondariesComplete == Spec => []ReplicaComplete
<1>1. CompleteInv => ReplicaComplete  BY DEF CompleteInv
<1> QED BY <1>1, CompleteInit, CompleteStep, PTL DEF Spec

-----------------------------------------------------------------------------
(* Deletes that stick.                                                     *)

(* While an undisturbed delete is under way no pass is, and the object is  *)
(* off the partitions the delete has been to.                              *)
Sweeping ==
    del.of # None /\ del.clean =>
        /\ Idle
        /\ \A p \in Partition \ del.via :
            /\ del.of \notin content[p]
            /\ del.of \in Tag => tags[p][del.of] = None

(* No pass holds, or means to write, what is gone.                         *)
HoldsNothingGone(r) ==
    /\ held[r] \in Blob \cup Manifest => held[r] \notin gone
    /\ held[r] \in Tag \X Manifest => held[r][2] \notin gone
    /\ \A x \in wantT[r] : x[1] \notin gone

GoneInv == TypeInv /\ Sweeping /\ (\A r \in Runner : HoldsNothingGone(r)) /\ DeletedGone

LEMMA GoneInit == Init => GoneInv
<1> SUFFICES ASSUME Init PROVE GoneInv  OBVIOUS
<1> USE Kinds DEF Init
<1>1. TypeInv  BY TypeInit
<1>2. Sweeping  BY DEF Sweeping, NoDelete
<1>3. DeletedGone  BY DEF DeletedGone
<1>4. \A r \in Runner : HoldsNothingGone(r)  BY DEF HoldsNothingGone
<1> QED BY <1>1, <1>2, <1>3, <1>4 DEF GoneInv

(* Less may be gone without harm to a pass that stands still.              *)
LEMMA StillHolds ==
    ASSUME NEW r \in Runner, HoldsNothingGone(r), held'[r] = held[r], wantT'[r] = wantT[r],
           gone' \subseteq gone
    PROVE  HoldsNothingGone(r)'
BY DEF HoldsNothingGone

(* A put takes what it puts out of gone, and disturbs the delete of it.    *)
LEMMA PutGone ==
    ASSUME GoneInv, TypeInv', NEW xs, PutAgain(xs), UNCHANGED passes,
           \A p \in Partition : content'[p] \subseteq content[p] \cup xs,
           \A p \in Partition, t \in Tag : tags'[p][t] = tags[p][t] \/ t \in xs
    PROVE  GoneInv'
<1> USE DEF GoneInv, PutAgain
<1>1. \A r \in Runner : HoldsNothingGone(r)'  BY StillHolds DEF passes
<1>2. DeletedGone'  BY DEF DeletedGone
<1>3. Sweeping'
  <2>1. CASE del.of \in xs  BY <2>1 DEF Sweeping
  <2>2. CASE del.of \notin xs
    <3>1. del' = del /\ (Idle => Idle')  BY <2>2 DEF Idle, passes
    <3> QED BY <2>2, <3>1 DEF Sweeping
  <2> QED BY <2>1, <2>2
<1> QED BY <1>1, <1>2, <1>3

(* The steps of the clients,                                               *)
LEMMA ClientGone ==
    ASSUME GoneInv, TypeInv',
           \/ \E b \in Blob : blob_write(b)
           \/ \E m \in Manifest, t \in Tag \cup {None} : manifest_put(m, t)
           \/ \E x \in Object : Delete(x)
           \/ \E p \in Partition : DeleteFails(p)
           \/ DeleteStep
    PROVE  GoneInv'
<1> USE Kinds DEF GoneInv
<1>t. /\ content \in [Partition -> SUBSET (Blob \cup Manifest)]
      /\ tags \in [Partition -> [Tag -> Manifest \cup {None}]]
      /\ del.of \in Object \cup {None}
      BY DEF TypeInv, TypeOK
<1>1. ASSUME NEW b \in Blob, blob_write(b) PROVE GoneInv'
  <2>1. \A p \in Partition : content'[p] \subseteq content[p] \cup {b}
        BY <1>1, <1>t DEF blob_write
  <2> QED BY <1>1, <2>1, PutGone DEF blob_write
<1>2. ASSUME NEW m \in Manifest, NEW t \in Tag \cup {None}, manifest_put(m, t) PROVE GoneInv'
  <2> DEFINE xs == {m, t} \cap Object
  <2>1. m \in xs /\ (t \in Tag => t \in xs)  BY DEF Object
  <2>2. \A p \in Partition : content'[p] \subseteq content[p] \cup xs
        BY <1>2, <1>t, <2>1 DEF manifest_put
  <2>3. \A p \in Partition, u \in Tag : tags'[p][u] = tags[p][u] \/ u \in xs
        BY <1>2, <1>t, <2>1 DEF manifest_put
  <2> HIDE DEF xs
  <2>4. PutAgain(xs) /\ UNCHANGED passes  BY <1>2 DEF manifest_put, xs
  <2> QED BY <2>2, <2>3, <2>4, PutGone
<1>3. ASSUME NEW x \in Object, Delete(x) PROVE GoneInv'
  <2>1. UNCHANGED <<store, passes, gone>> /\ del' = [of |-> x, via |-> Partition, clean |-> Idle]
        BY <1>3 DEF Delete
  <2>2. Sweeping'  BY <2>1 DEF Sweeping, Idle, passes
  <2>3. DeletedGone'  BY <2>1 DEF DeletedGone, store
  <2>4. \A r \in Runner : HoldsNothingGone(r)'  BY <2>1, StillHolds DEF passes
  <2> QED BY <2>2, <2>3, <2>4
<1>4. ASSUME NEW p \in Partition, DeleteFails(p) PROVE GoneInv'
  <2>1. UNCHANGED <<store, passes, gone>> /\ ~del'.clean  BY <1>4 DEF DeleteFails
  <2>2. Sweeping'  BY <2>1 DEF Sweeping
  <2>3. DeletedGone'  BY <2>1 DEF DeletedGone, store
  <2>4. \A r \in Runner : HoldsNothingGone(r)'  BY <2>1, StillHolds DEF passes
  <2> QED BY <2>2, <2>3, <2>4
<1>5. ASSUME NEW p \in Partition, DeleteOn(p) PROVE GoneInv'
  <2>1. /\ Without(del.of, p) /\ UNCHANGED <<passes, gone>>
        /\ del' = [of |-> del.of, via |-> del.via \ {p}, clean |-> del.clean]
        BY <1>5 DEF DeleteOn
  <2>2. /\ del.of \notin content'[p]
        /\ \A q \in Partition : content'[q] \subseteq content[q]
        BY <2>1, <1>t DEF Without
  <2>3. /\ del.of \in Tag => tags'[p][del.of] = None
        /\ \A q \in Partition, t \in Tag : tags'[q][t] \in {tags[q][t], None}
        BY <2>1, <1>t DEF Without
  <2>4. Sweeping'
    <3>1. Idle => Idle'  BY <2>1 DEF Idle, passes
    <3> QED BY <2>1, <2>2, <2>3, <3>1 DEF Sweeping
  <2>5. DeletedGone'  BY <2>1, <2>2, <2>3 DEF DeletedGone
  <2>6. \A r \in Runner : HoldsNothingGone(r)'  BY <2>1, StillHolds DEF passes
  <2> QED BY <2>4, <2>5, <2>6
<1>6. ASSUME DeleteDone PROVE GoneInv'
  <2>1. /\ del.of # None /\ del.via = {}
        /\ gone' = IF del.clean THEN gone \cup {del.of} ELSE gone
        /\ del' = NoDelete /\ UNCHANGED <<store, passes>>
        BY <1>6 DEF DeleteDone
  <2>2. Sweeping'  BY <2>1 DEF Sweeping, NoDelete
  <2>3. CASE ~del.clean
    <3>1. gone' = gone  BY <2>1, <2>3
    <3> QED BY <2>1, <2>2, <3>1, StillHolds DEF DeletedGone, store, passes
  <2>4. CASE del.clean
    <3>1. gone' = gone \cup {del.of}  BY <2>1, <2>4
    <3>2. DeletedGone'  BY <2>1, <2>4, <3>1 DEF DeletedGone, Sweeping, store
    <3>3. ASSUME NEW r \in Runner PROVE HoldsNothingGone(r)'
      <4>1. at[r] = "idle"  BY <2>1, <2>4 DEF Sweeping, Idle
      <4>2. held[r] = None /\ wantT[r] = {}
            BY <4>1 DEF TypeInv, TypeOK, PassShape
      <4> QED BY <2>1, <4>2 DEF HoldsNothingGone, passes
    <3> QED BY <2>2, <3>2, <3>3
  <2> QED BY <2>3, <2>4
<1> QED BY <1>1, <1>2, <1>3, <1>4, <1>5, <1>6 DEF DeleteStep

(* A step of a pass that writes to no partition.                           *)
LEMMA ReadGone ==
    ASSUME GoneInv, TypeInv', NEW r \in Runner, UNCHANGED <<store, gone>>,
           \/ del' = del /\ at[r] # "idle"
           \/ del.of = None /\ del' = del
           \/ ~del'.clean,
           HoldsNothingGone(r)',
           \A q \in Runner \ {r} : held'[q] = held[q] /\ wantT'[q] = wantT[q]
    PROVE  GoneInv'
<1> USE DEF GoneInv
<1>1. DeletedGone'  BY DEF DeletedGone, store
<1>2. Sweeping'  BY DEF Sweeping, Idle
<1>3. \A q \in Runner : HoldsNothingGone(q)'  BY StillHolds
<1> QED BY <1>1, <1>2, <1>3

(* and the steps of a pass: it reads nothing that is gone.                 *)
LEMMA PassGone ==
    ASSUME GoneInv, TypeInv', NEW r \in Runner, Start(r) \/ PassStep(r) \/ Fail(r)
    PROVE  GoneInv'
<1> USE Kinds DEF GoneInv
<1>t. /\ left \in [Runner -> SUBSET (Object \cup (Tag \X Manifest))]
      /\ wantT \in [Runner -> SUBSET (Tag \X Manifest)]
      /\ dest \in [Runner -> Secondary \cup {None}]
      /\ held \in [Runner -> Blob \cup Manifest \cup (Tag \X Manifest) \cup {None}]
      /\ content \in [Partition -> SUBSET (Blob \cup Manifest)]
      /\ tags \in [Partition -> [Tag -> Manifest \cup {None}]]
      /\ todo \in [Runner -> SUBSET Manifest]
      BY DEF TypeInv, TypeOK
<1>e. ASSUME End(r), at[r] # "idle", UNCHANGED <<store, clients>> PROVE GoneInv'
  <2>1. /\ \A q \in Runner \ {r} : held'[q] = held[q] /\ wantT'[q] = wantT[q]
        /\ held'[r] = None /\ wantT'[r] = {}
        BY <1>e, <1>t DEF End
  <2>2. HoldsNothingGone(r)'  BY <2>1 DEF HoldsNothingGone
  <2> QED BY <1>e, <2>1, <2>2, ReadGone DEF clients
<1>s. ASSUME at[r] # "idle", UNCHANGED <<store, wantT, held, clients>> PROVE GoneInv'
      BY <1>s, StillHolds, ReadGone DEF clients
<1>1. CASE Start(r)
  <2>1. UNCHANGED <<store, wantT, held, gone>>  BY <1>1 DEF Start
  <2>2. (del.of = None /\ del' = del) \/ ~del'.clean  BY <1>1 DEF Start
  <2> QED BY <2>1, <2>2, StillHolds, ReadGone
<1>2. CASE ReadTag(r)
  <2>1. PICK t \in left[r] :
          LET m == tags[Primary][t] IN
          IF m \notin content[Primary]
          THEN End(r)
          ELSE /\ wantT' = [wantT EXCEPT ![r] = @ \cup {<<t, m>>}]
               /\ left' = [left EXCEPT ![r] = @ \ {t}]
               /\ IF m \in want[r] THEN UNCHANGED <<want, todo>> ELSE walk_manifest(r, m)
               /\ UNCHANGED <<at, every, rest, dest, held>>
        BY <1>2 DEF ReadTag
  <2>2. at[r] = "tags" /\ UNCHANGED <<store, clients, fails>>  BY <1>2 DEF ReadTag
  <2> DEFINE m == tags[Primary][t]
  <2>3. CASE m \notin content[Primary]  BY <1>e, <2>1, <2>2, <2>3
  <2>4. CASE m \in content[Primary]
    <3>1. t \in Tag /\ m \in Manifest /\ m # None
          BY <1>t, <2>2, <2>4 DEF TypeInv, PassShape
    <3>2. t \notin gone  BY <3>1 DEF DeletedGone
    <3>3. /\ held' = held /\ wantT'[r] = wantT[r] \cup {<<t, m>>}
          /\ \A q \in Runner \ {r} : wantT'[q] = wantT[q]
          BY <1>t, <2>1, <2>4
    <3>4. gone' = gone  BY <2>2 DEF clients
    <3>5. HoldsNothingGone(r)'  BY <3>2, <3>3, <3>4 DEF HoldsNothingGone
    <3> QED BY <2>2, <3>3, <3>5, ReadGone DEF clients
  <2> QED BY <2>3, <2>4
<1>3. CASE ReadChild(r)
  <2>1. UNCHANGED <<store, at, left, wantT, held, clients>>  BY <1>3 DEF ReadChild
  <2>2. DeletedGone' /\ Sweeping' /\ \A q \in Runner : HoldsNothingGone(q)'
        BY <2>1, StillHolds DEF DeletedGone, Sweeping, Idle, store, clients
  <2> QED BY <2>2
<1>4. CASE ListDigests(r) \/ ReadDigest(r) \/ NextTarget(r) \/ Phase(r)
  <2>1. at[r] # "idle"
        BY <1>4 DEF ListDigests, ReadDigest, NextTarget, Phase, Through
  <2>2. UNCHANGED <<store, wantT, held, clients>>
        BY <1>4 DEF ListDigests, ReadDigest, NextTarget, Phase
  <2> QED BY <1>s, <2>1, <2>2
<1>5. CASE Report(r) \/ Fail(r)
  <2>1. at[r] # "idle"  BY <1>5 DEF Report, Fail, Through
  <2>2. End(r) /\ UNCHANGED <<store, clients>>  BY <1>5 DEF Report, Fail
  <2> QED BY <1>e, <2>1, <2>2
<1>6. CASE Fetch(r)
  <2>1. PICK x \in left[r] :
            IF x \in content[Primary] \ content[dest[r]]
            THEN held' = [held EXCEPT ![r] = x]
            ELSE UNCHANGED held
        BY <1>6 DEF Fetch
  <2>2. at[r] \in {"blobs", "manifests"} /\ UNCHANGED <<store, wantT, clients>>
        BY <1>6 DEF Fetch
  <2>3. held'[r] = held[r] \/ (held'[r] = x /\ x \in content[Primary])
        BY <1>t, <2>1
  <2>4. \A q \in Runner \ {r} : held'[q] = held[q]  BY <1>t, <2>1
  <2>5. x \in content[Primary] => x \in Blob \cup Manifest /\ x \notin gone
        BY <1>t DEF DeletedGone
  <2>6. HoldsNothingGone(r)'  BY <2>2, <2>3, <2>5 DEF HoldsNothingGone, clients
  <2> QED BY <2>2, <2>4, <2>6, ReadGone DEF clients
<1>7. CASE FetchTag(r)
  <2>1. PICK x \in left[r] :
            IF x[2] \in content[Primary]
            THEN held' = [held EXCEPT ![r] = x]
            ELSE UNCHANGED held
        BY <1>7 DEF FetchTag
  <2>2. at[r] = "pointers" /\ UNCHANGED <<store, wantT, clients>>
        BY <1>7 DEF FetchTag
  <2>3. held'[r] = held[r] \/ (held'[r] = x /\ x[2] \in content[Primary])
        BY <1>t, <2>1
  <2>4. \A q \in Runner \ {r} : held'[q] = held[q]  BY <1>t, <2>1
  <2>5. x \in Tag \X Manifest /\ (x[2] \in content[Primary] => x[2] \notin gone)
        BY <1>t, <2>2 DEF DeletedGone, TypeInv, PassShape
  <2>6. HoldsNothingGone(r)'  BY <2>2, <2>3, <2>5 DEF HoldsNothingGone, clients
  <2> QED BY <2>2, <2>4, <2>6, ReadGone DEF clients
<1>8. CASE StoreItem(r) \/ StoreTag(r)
  <2>1. /\ held[r] # None /\ held' = [held EXCEPT ![r] = None]
        /\ UNCHANGED <<at, wantT, clients>>
        BY <1>8 DEF StoreItem, StoreTag
  <2>2. dest[r] \in Secondary /\ at[r] \in Copying
        BY <2>1, <1>t DEF TypeInv, TypeOK, Copying
  <2>3. Sweeping'  BY <2>1, <2>2 DEF Sweeping, Idle, Copying, clients
  <2>4. \A q \in Runner : HoldsNothingGone(q)'  BY <1>t, <2>1 DEF HoldsNothingGone, clients
  <2>5. CASE StoreItem(r)
    <3>1. held[r] \in Blob \cup Manifest /\ held[r] \notin gone
          BY <2>5 DEF StoreItem, HoldsNothingGone
    <3>2. \A p \in Partition : content'[p] \subseteq content[p] \cup {held[r]}
          BY <1>t, <2>2, <2>5 DEF StoreItem
    <3>3. tags' = tags /\ gone' = gone  BY <2>5 DEF StoreItem, clients
    <3>4. DeletedGone'  BY <3>1, <3>2, <3>3 DEF DeletedGone
    <3> QED BY <2>3, <2>4, <3>4
  <2>6. CASE StoreTag(r)
    <3>1. held[r] \in Tag \X Manifest /\ held[r] \in wantT[r]
          BY <1>t, <2>2, <2>6 DEF StoreTag, TypeInv, PassShape, Copying
    <3>2. held[r][1] \notin gone /\ held[r][2] \notin gone
          BY <3>1 DEF HoldsNothingGone
    <3>3. \A p \in Partition : content'[p] \subseteq content[p] \cup {held[r][2]}
          BY <1>t, <2>2, <2>6 DEF StoreTag
    <3>4. \A p \in Partition, t \in Tag : tags'[p][t] = tags[p][t] \/ t = held[r][1]
          BY <1>t, <2>2, <2>6 DEF StoreTag
    <3>5. gone' = gone  BY <2>1 DEF clients
    <3>6. DeletedGone'  BY <3>2, <3>3, <3>4, <3>5 DEF DeletedGone
    <3> QED BY <2>3, <2>4, <3>6
  <2> QED BY <1>8, <2>5, <2>6
<1> QED BY <1>1, <1>2, <1>3, <1>4, <1>5, <1>6, <1>7, <1>8 DEF PassStep

LEMMA GoneStep == GoneInv /\ [Next]_vars => GoneInv'
<1> SUFFICES ASSUME GoneInv, [Next]_vars PROVE GoneInv'  OBVIOUS
<1>0. TypeInv'  BY TypeStep DEF GoneInv
<1>1. CASE UNCHANGED vars
  <2>1. UNCHANGED <<content, tags, at, del, gone, held, wantT>>
        BY <1>1 DEF vars, store, passes, clients
  <2> QED BY <1>0, <2>1, StillHolds DEF GoneInv, Sweeping, Idle, DeletedGone
<1> QED BY <1>0, <1>1, ClientGone, PassGone DEF Next

(* Deletes apply to every partition: what a request deleted without an     *)
(* error, with no pass under way, no later pass brings back (multi.rs).    *)
THEOREM DeletesStick == Spec => []DeletedGone
<1>1. GoneInv => DeletedGone  BY DEF GoneInv
<1> QED BY <1>1, GoneInit, GoneStep, PTL DEF Spec

=============================================================================
