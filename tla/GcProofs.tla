------------------------------ MODULE GcProofs ------------------------------
(***************************************************************************)
(* The collector is safe for steady images, and a run of its own leaves no *)
(* garbage, for any number of clients, images, repositories and backends.  *)
(***************************************************************************)
EXTENDS Gc, TLAPS

-----------------------------------------------------------------------------
(* Type correctness.                                                       *)

LEMMA TypeInit == Init => TypeOK
BY ConstantsOK DEF Init, TypeOK

(* Every step keeps the types.                                             *)
LEMMA TypeStep == TypeOK /\ [Next]_vars => TypeOK'
<1> SUFFICES ASSUME TypeOK, [Next]_vars PROVE TypeOK'  OBVIOUS
<1> USE ConstantsOK
<1>1. ASSUME NEW c \in Client, NEW r \in Repo, NEW m \in Manifest, StartPush(c, r, m) PROVE TypeOK'
      BY <1>1 DEF StartPush, TypeOK, store, collector
<1>p. ASSUME NEW c \in Client, push[c] # None
      PROVE  push[c] \in [repo : Repo, m : Manifest, have : SUBSET Blob]
      BY <1>p DEF TypeOK
<1>2. ASSUME NEW c \in Client, NEW b \in Blob, PushBlob(c, b) PROVE TypeOK'
      BY <1>2, <1>p DEF PushBlob, TypeOK, collector
<1>3. ASSUME NEW c \in Client, PutManifest(c) PROVE TypeOK'
  <2>1. push[c].repo \in Repo /\ push[c].m \in Manifest  BY <1>3, <1>p DEF PutManifest
  <2>2. push' \in [Client -> [repo : Repo, m : Manifest, have : SUBSET Blob] \cup {None}]
        BY <1>3 DEF PutManifest, TypeOK
  <2>3. manifests' \subseteq Repo \X Manifest /\ known' \subseteq Repo /\ steady' \subseteq manifests'
        BY <1>3, <2>1 DEF PutManifest, TypeOK
  <2> QED BY <1>3, <2>2, <2>3 DEF PutManifest, TypeOK, collector
<1>4. ASSUME NEW x \in manifests, DeleteManifest(x) PROVE TypeOK'
      BY <1>4 DEF DeleteManifest, TypeOK, collector
<1>5. ASSUME NEW r \in Repo, NEW b \in Blob, DeleteBlob(r, b) PROVE TypeOK'
      BY <1>5 DEF DeleteBlob, TypeOK, collector
<1>6. CASE ListRepos
  <2>1. lone' \subseteq Blob  BY <1>6 DEF ListRepos, Lone
  <2> QED BY <1>6, <2>1 DEF ListRepos, TypeOK, store
<1>7. ASSUME NEW r \in Repo, ListManifests(r) PROVE TypeOK'
      BY <1>7 DEF ListManifests, TypeOK, store
<1>8. ASSUME NEW y \in Repo \X Manifest, MarkManifest(y) PROVE TypeOK'
      BY <1>8 DEF MarkManifest, TypeOK, store
<1>9. CASE ListBlobs  BY <1>9 DEF ListBlobs, TypeOK, store
<1>10. ASSUME NEW b \in Blob, Keep(b) PROVE TypeOK'  BY <1>10 DEF Keep, TypeOK, store
<1>11. ASSUME NEW b \in Blob, Sweep(b) PROVE TypeOK'
  <2>1. Owners(b) \subseteq Backend  BY DEF Owners, TypeOK
  <2>2. PICK be \in Backend : blobs' = [blobs EXCEPT ![be] = @ \ {b}]  BY <1>11, <2>1 DEF Sweep
  <2> QED BY <1>11, <2>2 DEF Sweep, TypeOK
<1>12. CASE Report  BY <1>12 DEF Report, TypeOK, store
<1>13. CASE Abort  BY <1>13 DEF Abort, TypeOK, store
<1>14. CASE UNCHANGED vars  BY <1>14 DEF vars, store, collector, TypeOK
<1> QED BY <1>1, <1>2, <1>3, <1>4, <1>5, <1>6, <1>7, <1>8, <1>9, <1>10, <1>11, <1>12, <1>13, <1>14
    DEF Next, Requests, Work

(* Every variable of the collector and of its clients keeps its type.      *)
THEOREM TypeCorrect == Spec => []TypeOK
BY TypeInit, TypeStep, PTL DEF Spec

-----------------------------------------------------------------------------
(* Images that are left alone.                                             *)

(* Every repository with a manifest is one that list_repos may return.     *)
DirsKnown == \A x \in manifests : x[1] \in known

(* While the collector marks, a steady image is marked, or read next, or   *)
(* its repository is still to be listed; when it sweeps, it is marked.     *)
MarkInv ==
    /\ gcpc = "mark" =>
        \A x \in steady : x[1] \in left \/ x \in todo \/ Refs[x[2]] \subseteq reachable
    /\ gcpc = "sweep" => \A x \in steady : Refs[x[2]] \subseteq reachable

IInv == TypeOK /\ DirsKnown /\ MarkInv /\ SteadyKept

(* The initial state satisfies the invariant.                              *)
LEMMA IInvInit == Init => IInv
<1> SUFFICES ASSUME Init PROVE IInv  OBVIOUS
<1> QED BY TypeInit DEF Init, IInv, DirsKnown, MarkInv, SteadyKept

(* Requests keep it: they leave the collector alone, and what they take    *)
(* from an image makes it unsteady.                                        *)
LEMMA RequestsStep == IInv /\ Requests => IInv'
<1> SUFFICES ASSUME IInv, Requests PROVE IInv'  OBVIOUS
<1> USE ConstantsOK DEF IInv
<1>0. TypeOK'  BY TypeStep DEF Next
<1>1. ASSUME NEW c \in Client, NEW r \in Repo, NEW m \in Manifest, StartPush(c, r, m) PROVE IInv'
      BY <1>1, <1>0 DEF StartPush, DirsKnown, MarkInv, SteadyKept, Complete, store, collector
<1>2. ASSUME NEW c \in Client, NEW b \in Blob, PushBlob(c, b) PROVE IInv'
  <2>0. push[c] \in [repo : Repo, m : Manifest, have : SUBSET Blob]
        BY <1>2 DEF PushBlob, TypeOK
  <2>2. \A be \in Backend : blobs[be] \subseteq blobs'[be]
        BY <1>2, <2>0 DEF PushBlob, TypeOK
  <2>3. SteadyKept'
        BY <1>2, <2>2 DEF PushBlob, SteadyKept, Complete, TypeOK
  <2> QED BY <1>2, <1>0, <2>3 DEF PushBlob, DirsKnown, MarkInv, collector
<1>3. ASSUME NEW c \in Client, PutManifest(c) PROVE IInv'
  <2>1. push[c].repo \in Repo /\ push[c].m \in Manifest  BY <1>3 DEF PutManifest, TypeOK
  <2> QED BY <1>3, <1>0 DEF PutManifest, DirsKnown, MarkInv, SteadyKept, Complete, collector
<1>4. ASSUME NEW x \in manifests, DeleteManifest(x) PROVE IInv'
      BY <1>4, <1>0 DEF DeleteManifest, DirsKnown, MarkInv, SteadyKept, Complete, collector
<1>5. ASSUME NEW r \in Repo, NEW b \in Blob, DeleteBlob(r, b) PROVE IInv'
  <2>2. SteadyKept'
    <3> SUFFICES ASSUME NEW x \in steady' PROVE Refs[x[2]] \subseteq blobs'[Home[x[1]]]
          BY DEF SteadyKept, Complete
    <3>1. x \in steady /\ (Home[x[1]] = Home[r] => b \notin Refs[x[2]])
          BY <1>5 DEF DeleteBlob
    <3>2. Refs[x[2]] \subseteq blobs[Home[x[1]]]  BY <3>1 DEF SteadyKept, Complete
    <3>3. Home[x[1]] \in Backend  BY <3>1 DEF TypeOK
    <3> QED BY <1>5, <3>1, <3>2, <3>3 DEF DeleteBlob, TypeOK
  <2> QED BY <1>5, <1>0, <2>2 DEF DeleteBlob, DirsKnown, MarkInv, collector
<1> QED BY <1>1, <1>2, <1>3, <1>4, <1>5 DEF Requests

(* The collector's own steps keep it, if list_repos hides no repository.   *)
LEMMA CollectorStep == ASSUME Hidden = {} PROVE IInv /\ (ListRepos \/ Work \/ Abort) => IInv'
<1> SUFFICES ASSUME IInv, ListRepos \/ Work \/ Abort PROVE IInv'  OBVIOUS
<1> USE ConstantsOK DEF IInv
<1>0. TypeOK'  BY TypeStep DEF Next
<1>1. CASE ListRepos
      BY <1>1, <1>0 DEF ListRepos, DirsKnown, MarkInv, SteadyKept, Complete, store
<1>2. ASSUME NEW r \in Repo, ListManifests(r) PROVE IInv'
  <2>2. MarkInv'
    <3> SUFFICES ASSUME NEW x \in steady
                 PROVE  x[1] \in left' \/ x \in todo' \/ Refs[x[2]] \subseteq reachable
          BY <1>2 DEF ListManifests, MarkInv
    <3>1. x \in manifests  BY DEF TypeOK
    <3> QED BY <1>2, <3>1 DEF ListManifests, MarkInv
  <2> QED BY <1>2, <1>0, <2>2 DEF ListManifests, DirsKnown, SteadyKept, Complete, store
<1>3. ASSUME NEW y \in Repo \X Manifest, MarkManifest(y) PROVE IInv'
  <2>2. MarkInv'
    <3> SUFFICES ASSUME NEW x \in steady
                 PROVE  x[1] \in left \/ x \in todo' \/ Refs[x[2]] \subseteq reachable'
          BY <1>3 DEF MarkManifest, MarkInv
    <3>1. x \in manifests  BY DEF TypeOK
    <3> QED BY <1>3, <3>1 DEF MarkManifest, MarkInv
  <2> QED BY <1>3, <1>0, <2>2 DEF MarkManifest, DirsKnown, SteadyKept, Complete, store
<1>4. CASE ListBlobs
      BY <1>4, <1>0 DEF ListBlobs, DirsKnown, MarkInv, SteadyKept, Complete, store
<1>5. ASSUME NEW b \in Blob, Keep(b) PROVE IInv'
      BY <1>5, <1>0 DEF Keep, DirsKnown, MarkInv, SteadyKept, Complete, store
<1>6. ASSUME NEW b \in Blob, Sweep(b) PROVE IInv'
  <2>a. Owners(b) \subseteq Backend  BY DEF Owners, TypeOK
  <2>0. PICK be \in Backend : blobs' = [blobs EXCEPT ![be] = @ \ {b}]
        BY <1>6, <2>a DEF Sweep
  <2>2. SteadyKept'
    <3> SUFFICES ASSUME NEW x \in steady PROVE Refs[x[2]] \subseteq blobs'[Home[x[1]]]
          BY <1>6 DEF Sweep, SteadyKept, Complete
    <3>1. Refs[x[2]] \subseteq reachable /\ b \notin reachable
          BY <1>6 DEF Sweep, MarkInv
    <3>2. Refs[x[2]] \subseteq blobs[Home[x[1]]] /\ Home[x[1]] \in Backend
          BY DEF SteadyKept, Complete, TypeOK
    <3> QED BY <2>0, <3>1, <3>2 DEF TypeOK
  <2> QED BY <1>6, <1>0, <2>2 DEF Sweep, DirsKnown, MarkInv
<1>7. CASE Report
      BY <1>7, <1>0 DEF Report, DirsKnown, MarkInv, SteadyKept, Complete, store
<1>8. CASE Abort
      BY <1>8, <1>0 DEF Abort, DirsKnown, MarkInv, SteadyKept, Complete, store
<1> QED BY <1>1, <1>2, <1>3, <1>4, <1>5, <1>6, <1>7, <1>8 DEF Work

(* gc::run is safe: whatever clients push, put and delete while it runs,   *)
(* and wherever it is cut short, it takes no blob of an image that was     *)
(* complete when it started and untouched since.                           *)
THEOREM CollectorSafe == ASSUME Hidden = {} PROVE Spec => []SteadyKept
<1>1. IInv /\ [Next]_vars => IInv'
  <2> SUFFICES ASSUME IInv, [Next]_vars PROVE IInv'  OBVIOUS
  <2>1. CASE Next  BY <2>1, RequestsStep, CollectorStep DEF Next
  <2>2. CASE UNCHANGED vars
        BY <2>2 DEF vars, store, collector, IInv, TypeOK, DirsKnown, MarkInv, SteadyKept, Complete
  <2> QED BY <2>1, <2>2
<1>2. IInv => SteadyKept  BY DEF IInv
<1> QED BY <1>1, <1>2, IInvInit, PTL DEF Spec

-----------------------------------------------------------------------------
(* Garbage of a run that was alone.                                        *)

Gone(b) == \A be \in Backend : b \notin blobs[be]

(* The one copy of b is on the backend of a repository the run has listed. *)
OneCopy(b) == \E r \in repos : \A be \in Backend : b \in blobs[be] <=> be = Home[r]

(* What the run has to delete is never marked, and is still to be looked   *)
(* at until it is gone.                                                    *)
LoneOK(b) ==
    /\ ~Referenced(b)
    /\ gcpc \in {"mark", "sweep", "done"} => b \notin reachable /\ todo \subseteq manifests
    /\ gcpc = "mark" => OneCopy(b)
    /\ gcpc = "sweep" => (b \in victims /\ OneCopy(b)) \/ Gone(b)
    /\ gcpc = "done" => Gone(b)

QuietInv == TypeOK /\ \A b \in lone : LoneOK(b)

(* A step of the collector that touches no blob and no list.               *)
LEMMA QuietFrame ==
    ASSUME NEW b, LoneOK(b), UNCHANGED <<manifests, blobs, repos, todo, reachable>>,
           gcpc' = gcpc, b \in victims => b \in victims'
    PROVE  LoneOK(b)'
BY DEF LoneOK, Referenced, OneCopy, Gone

LEMMA QuietStep == QuietInv /\ [Next]_vars => QuietInv'
<1> SUFFICES ASSUME QuietInv, [Next]_vars PROVE QuietInv'  OBVIOUS
<1> USE ConstantsOK DEF QuietInv
<1>0. TypeOK'  BY TypeStep
<1>1. CASE Requests
  <2>1. lone' = {}
        BY <1>1 DEF Requests, StartPush, PushBlob, PutManifest, DeleteManifest, DeleteBlob
  <2> QED BY <1>0, <2>1
<1>2. CASE ListRepos
  <2>1. ASSUME NEW b \in lone' PROVE LoneOK(b)'
    <3>1. /\ ~Referenced(b) /\ b \in Blob
          /\ \E r \in known \ Hidden : {be \in Backend : b \in blobs[be]} = {Home[r]}
          BY <1>2 DEF ListRepos, Lone
    <3>2. OneCopy(b)'
      <4>1. PICK r \in known \ Hidden : {be \in Backend : b \in blobs[be]} = {Home[r]}  BY <3>1
      <4>2. \A be \in Backend : b \in blobs[be] <=> be = Home[r]  BY <4>1
      <4> QED BY <1>2, <4>2 DEF ListRepos, OneCopy, store
    <3> QED BY <1>2, <3>1, <3>2 DEF ListRepos, LoneOK, Referenced, store
  <2> QED BY <1>0, <2>1
<1>3. ASSUME NEW r \in Repo, ListManifests(r) PROVE QuietInv'
      BY <1>0, <1>3 DEF ListManifests, LoneOK, Referenced, OneCopy, store
<1>4. ASSUME NEW y \in Repo \X Manifest, MarkManifest(y) PROVE QuietInv'
  <2>1. ASSUME NEW b \in lone PROVE LoneOK(b)'
    <3>1. y \in manifests /\ b \notin reachable  BY <1>4, <2>1 DEF MarkManifest, LoneOK
    <3>2. b \notin Refs[y[2]] \cup {y[2]}  BY <3>1, <2>1 DEF LoneOK, Referenced
    <3>3. b \notin reachable'  BY <1>4, <3>1, <3>2 DEF MarkManifest
    <3> QED BY <1>4, <3>3, <2>1 DEF MarkManifest, LoneOK, Referenced, OneCopy, store
  <2> QED BY <1>0, <1>4, <2>1 DEF MarkManifest
<1>5. CASE ListBlobs
  <2>1. ASSUME NEW b \in lone PROVE LoneOK(b)'
    <3>1. OneCopy(b)  BY <1>5, <2>1 DEF ListBlobs, LoneOK
    <3>2. b \in victims'
      <4>1. PICK r \in repos : \A be \in Backend : b \in blobs[be] <=> be = Home[r]
            BY <3>1 DEF OneCopy
      <4>2. Home[r] \in Backend /\ b \in blobs[Home[r]]  BY <4>1 DEF TypeOK
      <4> QED BY <1>5, <4>2 DEF ListBlobs
    <3> QED BY <1>5, <3>1, <3>2, <2>1 DEF ListBlobs, LoneOK, Referenced, OneCopy, store
  <2> QED BY <1>0, <1>5, <2>1 DEF ListBlobs
<1>6. ASSUME NEW c \in Blob, Keep(c) PROVE QuietInv'
  <2>1. ASSUME NEW b \in lone PROVE LoneOK(b)'
    <3>1. b # c  BY <1>6, <2>1 DEF Keep, LoneOK
    <3> QED BY <1>6, <2>1, <3>1, QuietFrame DEF Keep, store
  <2> QED BY <1>0, <1>6, <2>1 DEF Keep
<1>7. ASSUME NEW c \in Blob, Sweep(c) PROVE QuietInv'
  <2>1. PICK be \in IF Owners(c) = {} THEN {Fallback} ELSE Owners(c) :
            blobs' = [blobs EXCEPT ![be] = @ \ {c}]
        BY <1>7 DEF Sweep
  <2>2. \A x \in Backend : blobs'[x] = IF x = be THEN blobs[x] \ {c} ELSE blobs[x]
        BY <2>1 DEF TypeOK
  <2>3. gcpc = "sweep" /\ victims' = victims \ {c}
        /\ UNCHANGED <<manifests, gcpc, repos, todo, reachable, lone>>
        BY <1>7 DEF Sweep
  <2>4. ASSUME NEW b \in lone PROVE LoneOK(b)'
    <3>1. ~Referenced(b)' /\ b \notin reachable' /\ (todo \subseteq manifests)'
          BY <2>3, <2>4 DEF LoneOK, Referenced
    <3>2. Gone(b) => Gone(b)'  BY <2>2 DEF Gone
    <3>3. CASE b # c
      <4>1. \A x \in Backend : b \in blobs'[x] <=> b \in blobs[x]  BY <2>2, <3>3
      <4>2. OneCopy(b) => OneCopy(b)'  BY <2>3, <4>1 DEF OneCopy
      <4> QED BY <2>3, <2>4, <3>1, <3>2, <3>3, <4>2 DEF LoneOK
    <3>4. CASE b = c /\ OneCopy(b)
      <4>1. PICK r \in repos : \A x \in Backend : b \in blobs[x] <=> x = Home[r]
            BY <3>4 DEF OneCopy
      <4>2. \A q \in repos : Home[q] \in Backend  BY DEF TypeOK
      <4>3. Owners(c) = {Home[r]}  BY <3>4, <4>1, <4>2 DEF Owners
      <4>4. be = Home[r]  BY <2>1, <4>3
      <4>5. Gone(b)'  BY <2>2, <3>4, <4>1, <4>4 DEF Gone
      <4> QED BY <2>3, <3>1, <4>5 DEF LoneOK
    <3> QED BY <2>3, <2>4, <3>1, <3>2, <3>3, <3>4 DEF LoneOK
  <2> QED BY <1>0, <2>3, <2>4
<1>8. CASE Report
      BY <1>0, <1>8 DEF Report, LoneOK, Referenced, Gone, store
<1>9. CASE Abort
      BY <1>0, <1>9 DEF Abort, LoneOK, Referenced, store
<1>10. CASE UNCHANGED vars
      BY <1>0, <1>10, QuietFrame DEF vars, store, collector
<1> QED BY <1>1, <1>2, <1>3, <1>4, <1>5, <1>6, <1>7, <1>8, <1>9, <1>10 DEF Next, Work

(* A collector that ran alone has found every unreferenced blob there was  *)
(* one copy of, and deleted it where it was (locate_owner).                *)
THEOREM QuietRunComplete == Spec => []QuietRunCollects
<1>1. Init => QuietInv  BY TypeInit DEF Init, QuietInv
<1>2. QuietInv => QuietRunCollects  BY DEF QuietInv, LoneOK, Gone, QuietRunCollects
<1> QED BY <1>1, <1>2, QuietStep, PTL DEF Spec

=============================================================================
