---------------------------- MODULE MirrorsProofs ----------------------------
(***************************************************************************)
(* The clean-up of a mirror spares every fresh snapshot, and the ones that *)
(* latest.txt and the slaves name, for any packages, any number of         *)
(* snapshots, any changes upstream and wherever builds end, as long as the *)
(* syncs of the mirror do not overlap and repoquery works, and for those   *)
(* that have aged as long as createrepo retains their metadata.            *)
(***************************************************************************)
EXTENDS Mirrors, Lemmas, FiniteSetTheorems

AtRecord(b) == /\ "step" \in DOMAIN build[b]
               /\ build[b] = [f \in DOMAIN build[b] |-> build[b][f]]

Shape ==
    /\ build = [b \in Builds |-> build[b]]
    /\ \A b \in Builds : AtRecord(b)
    /\ \A b \in Builds : At(b, "rm") => "doomed" \in DOMAIN build[b]

Names ==
    /\ made \in Nat
    /\ fresh \subseteq 1..made
    /\ Snapshots \subseteq 1..made
    /\ content = [s \in Snapshots |-> content[s]]
    /\ since \in [Snapshots -> Nat]
    /\ IsFiniteSet(Snapshots)
    /\ queryFailures = 0

\* What the clean-up is about to remove is named by no fresh snapshot, ...
FreshIndexed == {s \in Snapshots \cap fresh : content[s] # NoIndex}

FreshHavePackages ==
    \A s \in (Snapshots \cap fresh) \ rescued :
        content[s] # NoIndex => content[s] \subseteq base

CleanUpSpares ==
    \A b \in Builds : \A s \in FreshIndexed :
        /\ At(b, "find") => content[s] \subseteq build[b].referenced
        /\ At(b, "rm") => content[s] \cap build[b].doomed = {}

\* ... and the index that a sync copies names packages that are there.
IndexIsTrue ==
    \A b \in Builds :
        index # NoIndex /\ ( \/ At(b, "mkdir") /\ build[b].synced
                             \/ At(b, "copy") /\ build[b].snapshot \notin rescued )
            => index \subseteq base

\* No index has used up metadata of a fresh snapshot.
MetadataIsKept == \A s \in Snapshots \cap fresh : since[s] = 0

Core == Shape /\ Names /\ CleanUpSpares /\ IndexIsTrue /\ FreshHavePackages
IInv == Core /\ MetadataIsKept
-----------------------------------------------------------------------------
(* The steps of a sync, one by one.  A step says what it makes of the build *)
(* and leaves the rest of the invariant to the variables it does not touch. *)

LEMMA InitCore == Init => Core
<1> SUFFICES ASSUME Init PROVE Core
  OBVIOUS
<1>1. Shape
  BY DEF Init, Shape, AtRecord, Idle, At
<1>2. Snapshots = {} /\ content = [s \in Snapshots |-> content[s]]
  BY DEF Init, Snapshots
<1>3. Names
  BY <1>2, FS_EmptySet DEF Init, Names
<1> QED
  BY <1>1, <1>2, <1>3 DEF Init, IInv, Core, CleanUpSpares, IndexIsTrue, FreshHavePackages,
                          FreshIndexed

LEMMA NewStep ==
    ASSUME Shape, NEW b, Builds = {b}, NEW r, build' = [build EXCEPT ![b] = r],
           "step" \in DOMAIN r, r = [f \in DOMAIN r |-> r[f]],
           r.step = "rm" => "doomed" \in DOMAIN r
    PROVE  Shape' /\ build'[b] = r
<1>1. build'[b] = r /\ build' = [x \in Builds |-> build'[x]]
  BY DEF Shape
<1>2. \A x \in Builds : AtRecord(x)'
  BY <1>1 DEF AtRecord
<1>3. \A x \in Builds : At(x, "rm")' => "doomed" \in DOMAIN build'[x]
  BY <1>1 DEF At
<1> QED BY <1>1, <1>2, <1>3 DEF Shape

LEMMA StartSyncCore ==
    ASSUME IInv, NEW b, Builds = {b}, StartSync(b)
    PROVE  Core'
<1>1. PICK r \in {[step |-> "query", checkout |-> pinned],
                 [step |-> "mkdir", synced |-> FALSE]} : build' = [build EXCEPT ![b] = r]
  BY DEF StartSync
<1>2. Shape' /\ build'[b] = r
  <2>1. /\ "step" \in DOMAIN r /\ r = [f \in DOMAIN r |-> r[f]]
        /\ r.step \in {"query", "mkdir"}
    BY <1>1
  <2> QED BY <1>1, <2>1, NewStep DEF IInv, Core
<1>3. Names'
  BY DEF StartSync, IInv, Core, Names, Snapshots, bounds
<1>4. CleanUpSpares' /\ IndexIsTrue' /\ FreshHavePackages'
  BY <1>2 DEF StartSync, IInv, Core, At, CleanUpSpares, IndexIsTrue, FreshHavePackages,
              FreshIndexed, Snapshots
<1> QED BY <1>2, <1>3, <1>4 DEF IInv, Core

LEMMA PublishCore ==
    ASSUME IInv, NEW b, Builds = {b}, Publish(b)
    PROVE  Core'
<1>1. Shape' /\ build'[b] = Idle
  BY NewStep DEF Publish, End, Idle, IInv, Core
<1>2. Names'
  BY DEF Publish, IInv, Core, Names, Snapshots, bounds
<1>3. CleanUpSpares' /\ IndexIsTrue' /\ FreshHavePackages'
  BY <1>1 DEF Publish, IInv, Core, At, CleanUpSpares, IndexIsTrue, FreshHavePackages,
              FreshIndexed, Snapshots, Idle
<1> QED BY <1>1, <1>2, <1>3 DEF IInv, Core

LEMMA CrashCore ==
    ASSUME IInv, NEW b, Builds = {b}, Crash(b)
    PROVE  Core'
<1>1. Shape' /\ build'[b] = Idle
  BY NewStep DEF Crash, End, Idle, IInv, Core
<1>2. Names'
  BY DEF Crash, IInv, Core, Names, Snapshots, bounds
<1>3. CleanUpSpares' /\ IndexIsTrue' /\ FreshHavePackages'
  BY <1>1 DEF Crash, IInv, Core, At, CleanUpSpares, IndexIsTrue, FreshHavePackages,
              FreshIndexed, Snapshots, Idle
<1> QED BY <1>1, <1>2, <1>3 DEF IInv, Core

LEMMA FindUnreferencedCore ==
    ASSUME IInv, NEW b, Builds = {b}, FindUnreferenced(b)
    PROVE  Core'
<1>1. PICK doomed \in Unreferenced(build[b].referenced) :
        build' = [build EXCEPT ![b] = [step |-> "rm", kept |-> build[b].kept,
                                       doomed |-> doomed]]
  BY DEF FindUnreferenced
<1>2. Shape' /\ build'[b] = [step |-> "rm", kept |-> build[b].kept, doomed |-> doomed]
  BY <1>1, NewStep DEF IInv, Core
<1>3. doomed \cap build[b].referenced = {}
  BY DEF Unreferenced
<1>4. Names'
  BY DEF FindUnreferenced, IInv, Core, Names, Snapshots, bounds
<1>5. CleanUpSpares' /\ IndexIsTrue' /\ FreshHavePackages'
  BY <1>2, <1>3 DEF FindUnreferenced, IInv, Core, At, CleanUpSpares, IndexIsTrue,
                    FreshHavePackages, FreshIndexed, Snapshots
<1> QED BY <1>2, <1>4, <1>5 DEF IInv, Core

LEMMA IndexPackagesCore ==
    ASSUME IInv, NEW b, Builds = {b}, IndexPackages(b)
    PROVE  Core'
<1>1. Shape' /\ build'[b] = [step |-> "mkdir", synced |-> TRUE]
  BY NewStep DEF IndexPackages, IInv, Core
<1>2. Names'
  BY DEF IndexPackages, IInv, Core, Names, Snapshots, bounds
<1>3. CleanUpSpares' /\ IndexIsTrue' /\ FreshHavePackages'
  BY <1>1
     DEF IndexPackages, IInv, Core, At, CleanUpSpares, IndexIsTrue, FreshHavePackages,
              FreshIndexed, Snapshots
<1> QED BY <1>1, <1>2, <1>3 DEF IInv, Core

LEMMA DownloadCore ==
    ASSUME IInv, NEW b, Builds = {b}, Download(b)
    PROVE  Core'
<1>1. Shape'
  BY DEF Download, IInv, Core, Shape, AtRecord, At
<1>2. Names'
  BY DEF Download, IInv, Core, Names, Snapshots, bounds
<1>3. CleanUpSpares' /\ IndexIsTrue' /\ FreshHavePackages'
  BY <1>1 DEF Download, IInv, Core, At, CleanUpSpares, IndexIsTrue, FreshHavePackages,
              FreshIndexed, Snapshots
<1> QED BY <1>1, <1>2, <1>3 DEF IInv, Core

LEMMA RemovePackageCore ==
    ASSUME IInv, NEW b, Builds = {b}, RemovePackage(b)
    PROVE  Core'
<1>1. PICK p \in build[b].doomed \cap base :
        base' = base \ {p} /\ build' = [build EXCEPT ![b].doomed = @ \ {p}]
  BY DEF RemovePackage
<1>2. PICK r : /\ build' = [build EXCEPT ![b] = r]
               /\ r = [build[b] EXCEPT !.doomed = @ \ {p}]
  BY <1>1
<1>3. r.step = "rm" /\ r.doomed = build[b].doomed \ {p}
  BY <1>2 DEF RemovePackage, IInv, Core, Shape, AtRecord, At
<1>4. "step" \in DOMAIN r /\ "doomed" \in DOMAIN r /\ r = [f \in DOMAIN r |-> r[f]]
  BY <1>2 DEF RemovePackage, IInv, Core, Shape, AtRecord, At
<1>5. Shape' /\ build'[b] = r
  BY <1>2, <1>4, NewStep DEF IInv, Core
<1>6. Names'
  BY DEF RemovePackage, IInv, Core, Names, Snapshots, bounds
<1>7. CleanUpSpares' /\ IndexIsTrue' /\ FreshHavePackages'
  BY <1>1, <1>3, <1>5 DEF RemovePackage, IInv, Core, At, CleanUpSpares, IndexIsTrue,
                          FreshHavePackages, FreshIndexed, Snapshots
<1> QED BY <1>5, <1>6, <1>7 DEF IInv, Core

LEMMA RemovedPackagesCore ==
    ASSUME IInv, NEW b, Builds = {b}, RemovedPackages(b)
    PROVE  Core'
<1>1. PICK r \in {Idle, [step |-> "rmdir", old |-> Snapshots \ build[b].kept]} :
        build' = [build EXCEPT ![b] = r]
  BY DEF RemovedPackages, End
<1>2. Shape' /\ build'[b] = r /\ r.step \in {"idle", "rmdir"}
  <2>1. /\ "step" \in DOMAIN r /\ r = [f \in DOMAIN r |-> r[f]]
        /\ r.step \in {"idle", "rmdir"}
    BY <1>1 DEF Idle
  <2> QED BY <1>1, <2>1, NewStep DEF IInv, Core
<1>3. Names'
  BY DEF RemovedPackages, IInv, Core, Names, Snapshots, bounds
<1>4. CleanUpSpares' /\ IndexIsTrue' /\ FreshHavePackages'
  BY <1>2 DEF RemovedPackages, IInv, Core, At, CleanUpSpares, IndexIsTrue,
              FreshHavePackages, FreshIndexed, Snapshots
<1> QED BY <1>2, <1>3, <1>4 DEF IInv, Core

LEMMA NextStep ==
    ASSUME Shape, NEW b, Builds = {b}, NEW step, step # "rm", GoTo(b, step)
    PROVE  Shape' /\ At(b, step)'
<1>1. PICK r : /\ build' = [build EXCEPT ![b] = r]
               /\ r = [build[b] EXCEPT !.step = step]
  BY DEF GoTo
<1>2. "step" \in DOMAIN r /\ r = [f \in DOMAIN r |-> r[f]] /\ r.step = step
  BY <1>1 DEF Shape, AtRecord
<1>3. Shape' /\ build'[b] = r
  BY <1>1, <1>2, NewStep
<1> QED BY <1>2, <1>3 DEF At

LEMMA RemovedSnapshotsCore ==
    ASSUME IInv, NEW b, Builds = {b}, RemovedSnapshots(b)
    PROVE  Core'
<1>1. Shape' /\ At(b, "sync")'
  BY NextStep DEF RemovedSnapshots, IInv, Core
<1>2. Names'
  BY DEF RemovedSnapshots, IInv, Core, Names, Snapshots, bounds
<1>3. CleanUpSpares' /\ IndexIsTrue' /\ FreshHavePackages'
  BY <1>1
     DEF RemovedSnapshots, IInv, Core, At, CleanUpSpares, IndexIsTrue, FreshHavePackages,
              FreshIndexed, Snapshots
<1> QED BY <1>1, <1>2, <1>3 DEF IInv, Core

LEMMA TruncateCore ==
    ASSUME IInv, NEW b, Builds = {b}, Truncate(b)
    PROVE  Core'
<1>1. Shape' /\ At(b, "publish")'
  BY NextStep DEF Truncate, IInv, Core
<1>2. Names'
  BY DEF Truncate, IInv, Core, Names, Snapshots, bounds
<1>3. CleanUpSpares' /\ IndexIsTrue' /\ FreshHavePackages'
  BY <1>1 DEF Truncate, IInv, Core, At, CleanUpSpares, IndexIsTrue, FreshHavePackages,
              FreshIndexed, Snapshots
<1> QED BY <1>1, <1>2, <1>3 DEF IInv, Core

\* With no failure to spare, every snapshot with an index answers.
LEMMA AllAnswer ==
    ASSUME Names, MaxQueryFailures = 0, NEW indexed, indexed \subseteq Snapshots,
           NEW failing \in SUBSET indexed,
           queryFailures + Cardinality(failing) <= MaxQueryFailures
    PROVE  failing = {} /\ queryFailures + Cardinality(failing) = 0
<1>1. IsFiniteSet(failing)
  BY FS_Subset DEF Names
<1>2. Cardinality(failing) \in Nat /\ (Cardinality(failing) = 0 <=> failing = {})
  BY <1>1, FS_CardinalityType, FS_EmptySet
<1> QED BY <1>2 DEF Names

LEMMA FindReferencedCore ==
    ASSUME IInv, NEW b, Builds = {b}, MaxQueryFailures = 0, FindReferenced(b)
    PROVE  Core'
<1> DEFINE kept == Kept(build[b].checkout)
           indexed == {s \in kept : Indexed(s) /\ Retained(s)}
<1>1. Snapshots' = Snapshots /\ UNCHANGED <<base, index, content, since, made, fresh, rescued>>
  BY DEF FindReferenced, Snapshots
<1>2. CASE kept = {} /\ GoTo(b, "sync") /\ UNCHANGED queryFailures
  <2>1. Shape' /\ At(b, "sync")'
    BY <1>2, NextStep DEF IInv, Core
  <2>2. Names'
    BY <1>1, <1>2 DEF IInv, Core, Names
  <2>3. CleanUpSpares' /\ IndexIsTrue' /\ FreshHavePackages'
    BY <1>1, <2>1 DEF IInv, Core, At, CleanUpSpares, IndexIsTrue, FreshHavePackages
  <2> QED BY <2>1, <2>2, <2>3 DEF IInv, Core
<1>3. ASSUME NEW failing \in SUBSET indexed,
             queryFailures + Cardinality(failing) <= MaxQueryFailures,
             queryFailures' = queryFailures + Cardinality(failing),
             build' = [build EXCEPT ![b] =
                [step |-> "find", kept |-> kept,
                 referenced |-> UNION {content[s] : s \in indexed \ failing}]]
      PROVE  Core'
  <2>1. failing = {} /\ queryFailures' = 0
    BY <1>3, AllAnswer DEF IInv, Core, Indexed
  <2>2. PICK referenced : referenced = UNION {content[s] : s \in indexed}
    OBVIOUS
  <2>3. build' = [build EXCEPT ![b] = [step |-> "find", kept |-> kept,
                                       referenced |-> referenced]]
    BY <1>3, <2>1, <2>2
  <2>4. Shape' /\ build'[b] = [step |-> "find", kept |-> kept, referenced |-> referenced]
    BY <2>3, NewStep DEF IInv, Core
  <2>5. FreshIndexed \subseteq indexed
    BY MirrorsAssumption DEF FreshIndexed, Kept, IInv, MetadataIsKept, Indexed, Retained
  <2>6. \A s \in FreshIndexed : content[s] \subseteq referenced
    BY <2>2, <2>5
  <2>7. FreshIndexed' = FreshIndexed
    BY <1>1 DEF FreshIndexed
  <2>8. Names'
    BY <1>1, <2>1 DEF IInv, Core, Names
  <2>9. CleanUpSpares' /\ IndexIsTrue' /\ FreshHavePackages'
    BY <1>1, <2>4, <2>6, <2>7
       DEF IInv, Core, At, CleanUpSpares, IndexIsTrue, FreshHavePackages
  <2> QED BY <2>4, <2>8, <2>9 DEF IInv, Core
<1> QED BY <1>2, <1>3 DEF FindReferenced

LEMMA RemoveSnapshotCore ==
    ASSUME IInv, NEW b, Builds = {b}, RemoveSnapshot(b)
    PROVE  Core'
<1>1. PICK s \in build[b].old :
        /\ content' = Restrict(content, Snapshots \ {s})
        /\ since' = Restrict(since, Snapshots \ {s})
        /\ build' = [build EXCEPT ![b].old = @ \ {s}]
  BY DEF RemoveSnapshot
<1>2. /\ Snapshots' = Snapshots \ {s}
      /\ \A t \in Snapshots' : content'[t] = content[t]
      /\ content' = [t \in Snapshots' |-> content'[t]]
  BY <1>1 DEF Restrict, Snapshots
<1>3. PICK r : /\ build' = [build EXCEPT ![b] = r]
               /\ r = [build[b] EXCEPT !.old = @ \ {s}]
  BY <1>1
<1>4. "step" \in DOMAIN r /\ r = [f \in DOMAIN r |-> r[f]] /\ r.step = "rmdir"
  <2>1. AtRecord(b) /\ build[b].step = "rmdir"
    BY DEF RemoveSnapshot, IInv, Core, Shape, At
  <2> QED BY <1>3, <2>1 DEF AtRecord
<1>5. Shape' /\ build'[b] = r
  BY <1>3, <1>4, NewStep DEF IInv, Core
<1>6. IsFiniteSet(Snapshots')
  BY <1>2, FS_Subset DEF IInv, Core, Names
<1>9. since' \in [Snapshots' -> Nat]
  BY <1>1, <1>2 DEF IInv, Core, Names, Restrict
<1>7. Names'
  BY <1>2, <1>6, <1>9 DEF RemoveSnapshot, IInv, Core, Names, bounds
<1>8. CleanUpSpares' /\ IndexIsTrue' /\ FreshHavePackages'
  BY <1>2, <1>4, <1>5 DEF RemoveSnapshot, IInv, Core, At, CleanUpSpares, IndexIsTrue,
                          FreshHavePackages, FreshIndexed
<1> QED BY <1>5, <1>7, <1>8 DEF IInv, Core

LEMMA MakeSnapshotCore ==
    ASSUME IInv, NEW b, Builds = {b}, MakeSnapshot(b)
    PROVE  Core'
<1>1. Shape' /\ build'[b] = [step |-> "copy", snapshot |-> made']
  BY NewStep DEF MakeSnapshot, IInv, Core
<1>2. /\ Snapshots' = Snapshots \cup {made'}
      /\ content' = [s \in Snapshots' |-> content'[s]]
      /\ content'[made'] = NoIndex
      /\ \A s \in Snapshots' : s # made' => content'[s] = content[s]
  BY DEF MakeSnapshot, Snapshots
<1>3. IsFiniteSet(Snapshots')
  BY <1>2, FS_AddElement DEF IInv, Core, Names
<1>4. Names'
  BY <1>2, <1>3 DEF MakeSnapshot, IInv, Core, Names, bounds
<1>5. CleanUpSpares'
  BY <1>1 DEF CleanUpSpares, At
<1>6. IndexIsTrue'
  BY <1>1 DEF MakeSnapshot, IInv, Core, IndexIsTrue, At
<1>7. FreshHavePackages'
  BY <1>2 DEF MakeSnapshot, IInv, Core, Names, FreshHavePackages
<1> QED BY <1>1, <1>4, <1>5, <1>6, <1>7 DEF IInv, Core

LEMMA CopyIndexCore ==
    ASSUME IInv, NEW b, Builds = {b}, CopyIndex(b)
    PROVE  Core'
<1>1. CASE index # NoIndex /\ build[b].snapshot \in Snapshots
  <2>1. Shape' /\ At(b, "truncate")'
    BY <1>1, NextStep DEF CopyIndex, IInv, Core
  <2>2. /\ Snapshots' = Snapshots
        /\ content' = [s \in Snapshots' |-> content'[s]]
        /\ \A s \in Snapshots : content'[s] = IF s = build[b].snapshot THEN index ELSE content[s]
    BY <1>1 DEF CopyIndex, IInv, Core, Names, Snapshots
  <2>3. Names'
    BY <2>2 DEF CopyIndex, IInv, Core, Names, bounds
  <2>4. CleanUpSpares' /\ IndexIsTrue'
    BY <2>1 DEF CleanUpSpares, IndexIsTrue, At
  <2>5. FreshHavePackages'
    BY <1>1, <2>2 DEF CopyIndex, IInv, Core, IndexIsTrue, FreshHavePackages
  <2> QED BY <2>1, <2>3, <2>4, <2>5 DEF IInv, Core
<1>2. CASE ~(index # NoIndex /\ build[b].snapshot \in Snapshots)
  <2>1. Shape' /\ build'[b] = Idle
    BY <1>2, NewStep DEF CopyIndex, End, Idle, IInv, Core
  <2>2. Names'
    BY <1>2 DEF CopyIndex, IInv, Core, Names, Snapshots, bounds
  <2>3. CleanUpSpares' /\ IndexIsTrue' /\ FreshHavePackages'
    BY <1>2, <2>1 DEF CopyIndex, IInv, Core, At, Idle, CleanUpSpares, IndexIsTrue,
                      FreshHavePackages, Snapshots
  <2> QED BY <2>1, <2>2, <2>3 DEF IInv, Core
<1> QED BY <1>1, <1>2

(* Whatever leaves the mirror and the builds alone, and time. *)
LEMMA OthersCore ==
    ASSUME IInv, UNCHANGED <<base, index, content, since, made, build, rescued, queryFailures>>,
           fresh' \subseteq fresh
    PROVE  Core'
<1>1. Snapshots' = Snapshots /\ FreshIndexed' \subseteq FreshIndexed
  BY DEF Snapshots, FreshIndexed
<1>2. Shape'
  BY DEF IInv, Core, Shape, AtRecord, At
<1>3. Names'
  BY <1>1 DEF IInv, Core, Names
<1>4. CleanUpSpares' /\ IndexIsTrue' /\ FreshHavePackages'
  BY <1>1 DEF IInv, Core, At, CleanUpSpares, IndexIsTrue, FreshHavePackages
<1> QED BY <1>2, <1>3, <1>4 DEF IInv, Core

LEMMA NextCore ==
    ASSUME IInv, NEW b, Builds = {b}, MaxQueryFailures = 0, [Next]_vars
    PROVE  Core'
<1>1. CASE Sync(b)
  BY <1>1, StartSyncCore, FindReferencedCore, FindUnreferencedCore, RemovePackageCore,
     RemovedPackagesCore, RemoveSnapshotCore, RemovedSnapshotsCore, DownloadCore,
     IndexPackagesCore, MakeSnapshotCore, CopyIndexCore, TruncateCore, PublishCore
     DEF Sync
<1>2. CASE Crash(b)
  BY <1>2, CrashCore
<1>3. CASE Age
  BY <1>3, OthersCore DEF Age, bounds
<1>4. CASE Pin \/ ChangeUpstream
  BY <1>4, OthersCore DEF Pin, ChangeUpstream, bounds
<1>5. CASE ReadLatest \/ WriteLists \/ UseListed \/ Finish
  BY <1>5, OthersCore DEF ReadLatest, WriteLists, UseListed, Finish, bounds
<1>6. CASE UNCHANGED vars
  BY <1>6, OthersCore DEF vars
<1> QED BY <1>1, <1>2, <1>3, <1>4, <1>5, <1>6 DEF Next, MirrorNext

(* Metadata ages only where createrepo runs, and not while a snapshot is    *)
(* fresh; no snapshot becomes fresh again.                                  *)
LEMMA IndexPackagesMetadata ==
    ASSUME IInv, NEW b, IndexPackages(b)
    PROVE  MetadataIsKept'
<1>1. Snapshots' = Snapshots /\ fresh' = fresh
  BY DEF IndexPackages, Snapshots
<1>2. \A s \in Snapshots \cap fresh : since'[s] \in {0, since[s]}
  BY DEF IndexPackages
<1> QED BY <1>1, <1>2 DEF IInv, MetadataIsKept

LEMMA RemoveSnapshotMetadata ==
    ASSUME IInv, NEW b, RemoveSnapshot(b)
    PROVE  MetadataIsKept'
<1>1. PICK s : /\ content' = Restrict(content, Snapshots \ {s})
               /\ since' = Restrict(since, Snapshots \ {s}) /\ fresh' = fresh
  BY DEF RemoveSnapshot
<1>2. /\ Snapshots' = Snapshots \ {s}
      /\ since' = [t \in Snapshots \ {s} |-> since[t]]
  BY <1>1 DEF Restrict, Snapshots
<1> QED BY <1>1, <1>2 DEF IInv, MetadataIsKept

LEMMA MakeSnapshotMetadata ==
    ASSUME IInv, NEW b, MakeSnapshot(b)
    PROVE  MetadataIsKept'
<1>1. /\ Snapshots' = Snapshots \cup {made'} /\ fresh' = fresh \cup {made'}
      /\ \A s \in Snapshots' : since'[s] = IF s = made' THEN 0 ELSE since[s]
  BY DEF MakeSnapshot, Snapshots
<1> QED BY <1>1 DEF IInv, MetadataIsKept

LEMMA CopyIndexMetadata ==
    ASSUME IInv, NEW b, CopyIndex(b)
    PROVE  MetadataIsKept'
<1>1. Snapshots' = Snapshots /\ fresh' = fresh
  BY DEF CopyIndex, Snapshots
<1>2. \A s \in Snapshots : since'[s] = since[s] \/ since'[s] = 0
  BY DEF CopyIndex, IInv, Core, Names
<1> QED BY <1>1, <1>2 DEF IInv, MetadataIsKept

LEMMA NextMetadata ==
    ASSUME IInv, NEW b, Builds = {b}, [Next]_vars
    PROVE  MetadataIsKept'
<1>1. CASE IndexPackages(b) \/ RemoveSnapshot(b) \/ MakeSnapshot(b) \/ CopyIndex(b)
  BY <1>1, IndexPackagesMetadata, RemoveSnapshotMetadata, MakeSnapshotMetadata,
     CopyIndexMetadata
<1>2. CASE \/ StartSync(b) \/ FindReferenced(b) \/ FindUnreferenced(b) \/ RemovePackage(b)
           \/ RemovedPackages(b) \/ RemovedSnapshots(b) \/ Download(b)
           \/ Truncate(b) \/ Publish(b) \/ Crash(b)
  BY <1>2 DEF StartSync, FindReferenced, FindUnreferenced, RemovePackage, RemovedPackages,
     RemovedSnapshots, Download, Truncate, Publish, Crash, IInv, MetadataIsKept, Snapshots
<1>3. CASE \/ Pin \/ Age \/ ChangeUpstream \/ ReadLatest \/ WriteLists \/ UseListed
           \/ Finish \/ UNCHANGED vars
  <2>1. UNCHANGED <<since, content>> /\ fresh' \subseteq fresh
    BY <1>3 DEF Pin, Age, ChangeUpstream, ReadLatest, WriteLists, UseListed, Finish, vars
  <2> QED BY <2>1 DEF IInv, MetadataIsKept, Snapshots
<1> QED BY <1>1, <1>2, <1>3 DEF Next, MirrorNext, Sync

LEMMA InitIInv == Init => IInv
BY InitCore DEF Init, IInv, MetadataIsKept, Snapshots

LEMMA NextIInv ==
    ASSUME IInv, NEW b, Builds = {b}, MaxQueryFailures = 0, [Next]_vars
    PROVE  IInv'
BY NextCore, NextMetadata DEF IInv

LEMMA FreshAreWhole == IInv => FreshSnapshotsAreWhole
BY MirrorsAssumption
   DEF IInv, Core, FreshHavePackages, MetadataIsKept, FreshSnapshotsAreWhole, Whole, Indexed,
       Retained

(***************************************************************************)
(* mirror_cleanup spares the packages of every fresh snapshot, if the      *)
(* syncs of one mirror run one at a time and repoquery does not fail.      *)
(***************************************************************************)
THEOREM CleanUpSparesFreshSnapshots ==
    ASSUME NEW b, Builds = {b}, MaxQueryFailures = 0
    PROVE  Spec => []FreshSnapshotsAreWhole
<1>1. IInv /\ [Next]_vars => IInv'
  BY NextIInv
<1> QED BY <1>1, FreshAreWhole, InitIInv, PTL DEF Spec
-----------------------------------------------------------------------------
(***************************************************************************)
(* What latest.txt names and what the slaves use.  Only the fresh, the     *)
(* pinned and the last made of the snapshots there are need to be kept;    *)
(* the fresh ones are the last ones made, so the last is always kept.      *)
(***************************************************************************)
Named ==
    /\ latest \in NoFile..made
    /\ pinned \in NoFile..made /\ pinned # Blank
    /\ \A s \in fresh : \A t \in 1..made : t > s => t \in fresh

Needed == {s \in Snapshots : s \in fresh \/ s = pinned \/ \A t \in Snapshots : t <= s}

\* The snapshot being made is the last, and no file names it yet.
Making ==
    \A b \in Builds : build[b].step \in {"copy", "truncate", "publish"} =>
        /\ build[b].snapshot = made /\ made \in Snapshots /\ made \in fresh
        /\ latest < made /\ pinned < made
        /\ ~At(b, "copy") => content[made] # NoIndex

CleanUpKeeps ==
    \A b \in Builds :
        /\ At(b, "query") => pinned = build[b].checkout \/ pinned \in fresh
        /\ build[b].step \in {"find", "rm"} => Needed \subseteq build[b].kept
        /\ At(b, "rmdir") => Needed \cap build[b].old = {}
        /\ \A s \in Needed : content[s] # NoIndex /\ Retained(s) =>
              /\ At(b, "find") => content[s] \subseteq build[b].referenced
              /\ At(b, "rm") => content[s] \cap build[b].doomed = {}

Fields ==
    \A b \in Builds :
        /\ build[b].step \in {"find", "rm"} => "kept" \in DOMAIN build[b]
        /\ At(b, "rmdir") => "old" \in DOMAIN build[b]
        /\ build[b].step \in {"copy", "truncate", "publish"} => "snapshot" \in DOMAIN build[b]

NamedInv ==
    /\ IInv /\ Fields
    /\ Named /\ Making /\ CleanUpKeeps
    /\ LatestIsWhole /\ PinnedIsWhole

\* What is left of it once the rest of the invariant is known.
NamedRest == Fields /\ Named /\ Making /\ CleanUpKeeps /\ LatestIsWhole /\ PinnedIsWhole

LEMMA InitNamed == Init => NamedRest
BY DEF Init, NamedRest, Fields, Named, Making, CleanUpKeeps, LatestIsWhole, PinnedIsWhole,
       Needed, Snapshots, At, Idle, NoFile, Blank

\* A step that leaves a snapshot whole, and its metadata retained or deleted.
Same(s) ==
    /\ Indexed(s) => Indexed(s)' /\ (Retained(s)' <=> Retained(s))
    /\ Whole(s) => Whole(s)'

LEMMA PinnedSame ==
    ASSUME PinnedIsWhole, pinned' = pinned, rescued \subseteq rescued',
           pinned # NoFile => Same(pinned)
    PROVE  PinnedIsWhole'
BY DEF PinnedIsWhole, Same

LEMMA LatestSame ==
    ASSUME LatestIsWhole, latest' = latest, rescued \subseteq rescued',
           latest > Blank => Same(latest), latest \in fresh' => latest \in fresh,
           Interrupted => Interrupted'
    PROVE  LatestIsWhole'
<1>1. CASE Whole(latest)
  BY <1>1 DEF LatestIsWhole, Same
<1>2. CASE ~Whole(latest)
  BY <1>2 DEF LatestIsWhole, Same
<1> QED BY <1>1, <1>2

\* A step that makes and removes no snapshot and no package, and names none.
LEMMA Quiet ==
    ASSUME NamedInv, NEW b, Builds = {b},
           UNCHANGED <<content, since, made, fresh, latest, pinned, rescued>>, base \subseteq base',
           build'[b].step \notin {"copy", "truncate", "publish"}
    PROVE  /\ Named' /\ Making' /\ LatestIsWhole' /\ PinnedIsWhole'
           /\ Needed' = Needed /\ Snapshots' = Snapshots
<1>1. Snapshots' = Snapshots /\ Needed' = Needed
  BY DEF Needed, Snapshots
<1>2. Named'
  BY DEF NamedInv, Named
<1>3. Making'
  BY DEF Making
<1>4. \A s : Same(s)
  BY <1>1 DEF Same, Whole, Indexed, Retained
<1>5. Interrupted => Interrupted'
  BY <1>1 DEF Interrupted
<1>6. LatestIsWhole' /\ PinnedIsWhole'
  BY <1>4, <1>5, LatestSame, PinnedSame DEF NamedInv
<1> QED BY <1>1, <1>2, <1>3, <1>6

LEMMA StartSyncNamed ==
    ASSUME NamedInv, NEW b, Builds = {b}, StartSync(b)
    PROVE  NamedRest'
<1>1. PICK r \in {[step |-> "query", checkout |-> pinned],
                 [step |-> "mkdir", synced |-> FALSE]} : build'[b] = r
  BY DEF StartSync, NamedInv, IInv, Core, Shape
<1>2. UNCHANGED <<content, since, made, fresh, latest, pinned, rescued, base>>
  BY DEF StartSync, clientVars
<1>3. build'[b].step \notin {"copy", "truncate", "publish", "find", "rm", "rmdir"}
  BY <1>1
<1>4. Fields'
  BY <1>3 DEF Fields, At
<1>5. CleanUpKeeps'
  BY <1>1, <1>2, <1>3 DEF CleanUpKeeps, At
<1> QED BY <1>2, <1>3, <1>4, <1>5, Quiet DEF NamedRest

\* Steps that end the clean-up, or a build.
LEMMA NoCleanUp ==
    ASSUME NamedInv, NEW b, Builds = {b},
           UNCHANGED <<content, since, made, fresh, latest, pinned, rescued>>, base \subseteq base',
           build'[b].step \in {"idle", "sync", "mkdir"}
    PROVE  NamedRest'
<1>1. Fields' /\ CleanUpKeeps'
  BY DEF Fields, CleanUpKeeps, At
<1> QED BY <1>1, Quiet DEF NamedRest

\* find_recent_snapshots finds every snapshot that needs to be kept.
LEMMA NeededIsKept ==
    ASSUME NamedInv, NEW pin, pinned = pin \/ pinned \in fresh
    PROVE  Needed \subseteq Kept(pin)
<1>1. SUFFICES ASSUME NEW s \in Needed PROVE s \in Kept(pin)
  OBVIOUS
<1>2. s \in Snapshots /\ s \in 1..made /\ made \in Nat /\ s # NoFile
  BY DEF Needed, NamedInv, IInv, Core, Names, NoFile
<1>3. CASE s \in fresh
  BY <1>2, <1>3 DEF Kept
<1>4. CASE s = pinned
  BY <1>2, <1>3, <1>4 DEF Kept
<1>5. CASE \A t \in Snapshots : t <= s
  <2>1. CASE Snapshots \cap fresh = {}
    <3>1. \A t \in Snapshots : t \in Int
      BY DEF NamedInv, IInv, Core, Names
    <3>2. Max(Snapshots) = s
      <4>1. \A t \in Snapshots : (\A u \in Snapshots : t >= u) => t = s
        BY <1>2, <1>5, <3>1
      <4>2. \A u \in Snapshots : s >= u
        BY <1>2, <1>5, <3>1
      <4> QED BY <1>2, <4>1, <4>2 DEF Max
    <3> QED BY <1>2, <2>1, <3>2 DEF Kept
  <2>2. ASSUME NEW t \in Snapshots \cap fresh PROVE s \in fresh
    <3>1. t = s \/ s > t
      BY <1>2, <1>5 DEF NamedInv, IInv, Core, Names
    <3> QED BY <1>2, <3>1 DEF NamedInv, Named
  <2> QED BY <1>3, <2>1, <2>2
<1> QED BY <1>3, <1>4, <1>5 DEF Needed

LEMMA FindReferencedNamed ==
    ASSUME NamedInv, NEW b, Builds = {b}, MaxQueryFailures = 0, FindReferenced(b)
    PROVE  NamedRest'
<1> DEFINE kept == Kept(build[b].checkout)
           indexed == {s \in kept : Indexed(s) /\ Retained(s)}
<1>1. UNCHANGED <<base, index, content, since, made, fresh, latest, pinned, rescued>>
  BY DEF FindReferenced, clientVars
<1>2. CASE kept = {} /\ GoTo(b, "sync")
  <2>1. At(b, "sync")'
    BY <1>2, NextStep DEF NamedInv, IInv, Core
  <2> QED BY <1>1, <2>1, NoCleanUp DEF At
<1>3. ASSUME NEW failing \in SUBSET indexed,
             queryFailures + Cardinality(failing) <= MaxQueryFailures,
             build' = [build EXCEPT ![b] =
                [step |-> "find", kept |-> kept,
                 referenced |-> UNION {content[s] : s \in indexed \ failing}]]
      PROVE  NamedRest'
  <2>1. failing = {}
    BY <1>3, AllAnswer DEF NamedInv, IInv, Core, Indexed
  <2>2. PICK referenced : referenced = UNION {content[s] : s \in indexed}
    OBVIOUS
  <2>3. build'[b] = [step |-> "find", kept |-> kept, referenced |-> referenced]
    BY <1>3, <2>1, <2>2 DEF NamedInv, IInv, Core, Shape
  <2>4. Needed \subseteq kept
    BY NeededIsKept DEF FindReferenced, NamedInv, CleanUpKeeps
  <2>5. \A s \in Needed : content[s] # NoIndex /\ Retained(s) => content[s] \subseteq referenced
    BY <2>2, <2>4 DEF Needed, Indexed
  <2>6. Fields'
    BY <2>3 DEF Fields, At
  <2>7. /\ Named' /\ Making' /\ LatestIsWhole' /\ PinnedIsWhole' /\ Needed' = Needed
    BY <1>1, <2>3, Quiet
  <2>8. CleanUpKeeps'
    <3> HIDE DEF kept
    <3>1. \A s : Retained(s)' = Retained(s)
      BY <1>1 DEF Retained
    <3> QED BY <1>1, <3>1, <2>3, <2>4, <2>5, <2>7 DEF CleanUpKeeps, At
  <2> QED BY <2>6, <2>7, <2>8 DEF NamedRest
<1> QED BY <1>2, <1>3 DEF FindReferenced

LEMMA FindUnreferencedNamed ==
    ASSUME NamedInv, NEW b, Builds = {b}, FindUnreferenced(b)
    PROVE  NamedRest'
<1>1. PICK doomed \in Unreferenced(build[b].referenced) :
        build'[b] = [step |-> "rm", kept |-> build[b].kept, doomed |-> doomed]
  BY DEF FindUnreferenced, NamedInv, IInv, Core, Shape
<1>2. doomed \cap build[b].referenced = {}
  BY DEF Unreferenced
<1>3. UNCHANGED <<base, content, since, made, fresh, latest, pinned, rescued>>
  BY DEF FindUnreferenced, clientVars
<1>4. /\ Named' /\ Making' /\ LatestIsWhole' /\ PinnedIsWhole' /\ Needed' = Needed
  BY <1>1, <1>3, Quiet
<1>5. Fields'
  BY <1>1 DEF Fields, At
<1>6. CleanUpKeeps'
  BY <1>1, <1>2, <1>3, <1>4 DEF FindUnreferenced, NamedInv, CleanUpKeeps, At, Retained
<1> QED BY <1>4, <1>5, <1>6 DEF NamedRest

LEMMA RemovePackageNamed ==
    ASSUME NamedInv, NEW b, Builds = {b}, RemovePackage(b)
    PROVE  NamedRest'
<1>1. PICK p \in build[b].doomed \cap base :
        base' = base \ {p} /\ build' = [build EXCEPT ![b].doomed = @ \ {p}]
  BY DEF RemovePackage
<1>2. At(b, "rm") /\ UNCHANGED <<content, since, made, fresh, latest, pinned, rescued>>
  BY DEF RemovePackage, clientVars
<1>3. Snapshots' = Snapshots /\ Needed' = Needed
  BY <1>2 DEF Needed, Snapshots
<1>4. /\ build'[b].step = "rm" /\ build'[b].doomed = build[b].doomed \ {p}
      /\ build'[b].kept = build[b].kept /\ "kept" \in DOMAIN build'[b]
  BY <1>1, <1>2 DEF NamedInv, IInv, Core, Shape, AtRecord, Fields, At
<1>5. Fields' /\ Making' /\ Named'
  BY <1>2, <1>4 DEF NamedInv, Fields, Making, Named, At
<1>6. CleanUpKeeps'
  BY <1>2, <1>3, <1>4 DEF NamedInv, CleanUpKeeps, At, Retained
<1>7. \A s : s \in Needed \/ ~Whole(s) => Same(s)
  BY <1>1, <1>2, <1>3 DEF NamedInv, CleanUpKeeps, Same, Whole, Indexed, Retained
<1>8. PinnedIsWhole'
  <2>1. pinned \in Needed \/ ~Whole(pinned)
    BY DEF Needed, Whole, Indexed
  <2> QED BY <1>2, <1>7, <2>1, PinnedSame DEF NamedInv
<1>9. Interrupted => Interrupted'
  BY <1>2, <1>3, <1>4 DEF Interrupted
<1>10. CASE Whole(latest) /\ latest \notin Needed
  <2>1. PICK t \in Snapshots : ~(t <= latest)
    BY <1>10 DEF Needed, Whole, Indexed
  <2>2. t > latest /\ latest \notin fresh
    BY <1>10, <2>1 DEF Needed, Whole, Indexed, NamedInv, IInv, Core, Names
  <2>3. Interrupted'
    BY <1>2, <1>3, <1>4, <2>2 DEF Interrupted
  <2> QED BY <1>2, <1>5, <1>6, <1>8, <2>2, <2>3 DEF NamedRest, LatestIsWhole
<1>11. CASE ~(Whole(latest) /\ latest \notin Needed)
  <2>1. Same(latest)
    BY <1>7, <1>11
  <2>2. LatestIsWhole'
    BY <1>2, <1>9, <2>1, LatestSame DEF NamedInv
  <2> QED BY <1>5, <1>6, <1>8, <2>2 DEF NamedRest
<1> QED BY <1>10, <1>11

LEMMA RemovedPackagesNamed ==
    ASSUME NamedInv, NEW b, Builds = {b}, RemovedPackages(b)
    PROVE  NamedRest'
<1>1. At(b, "rm") /\ UNCHANGED <<base, content, since, made, fresh, latest, pinned, rescued>>
  BY DEF RemovedPackages, clientVars
<1>2. CASE build'[b] = Idle
  BY <1>1, <1>2, NoCleanUp DEF Idle
<1>3. CASE build'[b] = [step |-> "rmdir", old |-> Snapshots \ build[b].kept]
  <2>1. /\ Named' /\ Making' /\ LatestIsWhole' /\ PinnedIsWhole' /\ Needed' = Needed
    BY <1>1, <1>3, Quiet
  <2>2. Fields'
    BY <1>3 DEF Fields, At
  <2>3. Needed \subseteq build[b].kept
    BY <1>1 DEF NamedInv, CleanUpKeeps, At
  <2>4. CleanUpKeeps'
    BY <1>3, <2>1, <2>3 DEF CleanUpKeeps, At
  <2> QED BY <2>1, <2>2, <2>4 DEF NamedRest
<1> QED BY <1>2, <1>3 DEF RemovedPackages, End, NamedInv, IInv, Core, Shape

\* What is removed is not the last, and another one takes its place as a reason.
LEMMA RemoveSnapshotNamed ==
    ASSUME NamedInv, NEW b, Builds = {b}, RemoveSnapshot(b)
    PROVE  NamedRest'
<1>1. PICK s \in build[b].old :
        /\ content' = Restrict(content, Snapshots \ {s})
        /\ since' = Restrict(since, Snapshots \ {s})
        /\ build' = [build EXCEPT ![b].old = @ \ {s}]
  BY DEF RemoveSnapshot
<1>2. At(b, "rmdir") /\ UNCHANGED <<base, made, fresh, latest, pinned, rescued>>
  BY DEF RemoveSnapshot, clientVars
<1>3. /\ Snapshots' = Snapshots \ {s}
      /\ \A t \in Snapshots' : content'[t] = content[t] /\ since'[t] = since[t]
  BY <1>1 DEF Restrict, Snapshots
<1>4. /\ build'[b].step = "rmdir" /\ build'[b].old = build[b].old \ {s}
      /\ "old" \in DOMAIN build'[b]
  BY <1>1, <1>2 DEF NamedInv, IInv, Core, Shape, AtRecord, Fields, At
<1>5. s \notin Needed /\ Needed \cap build[b].old = {}
  BY <1>2 DEF NamedInv, CleanUpKeeps
<1>6. Snapshots \subseteq 1..made /\ made \in Nat /\ latest \in Int
  BY DEF NamedInv, IInv, Core, Names, Named, NoFile
<1>7. s \in Snapshots => \E u \in Snapshots' : u > s
  <2>1. SUFFICES ASSUME s \in Snapshots PROVE \E u \in Snapshots' : u > s
    OBVIOUS
  <2>2. PICK u \in Snapshots : ~(u <= s)
    BY <1>5, <2>1 DEF Needed
  <2>3. u > s /\ u # s
    BY <1>6, <2>1, <2>2
  <2> QED BY <1>3, <2>3
<1>8. Needed' \subseteq Needed
  <2>1. SUFFICES ASSUME NEW x \in Needed', \A t \in Snapshots' : t <= x
                 PROVE  \A t \in Snapshots : t <= x
    BY <1>2, <1>3 DEF Needed
  <2>2. s \in Snapshots => s <= x
    BY <1>3, <1>6, <1>7, <2>1 DEF Needed
  <2> QED BY <1>3, <2>1, <2>2
<1>9. Fields' /\ Making' /\ Named'
  BY <1>2, <1>4 DEF NamedInv, Fields, Making, Named, At
<1>10. CleanUpKeeps'
  BY <1>4, <1>5, <1>8 DEF CleanUpKeeps, At
<1>11. \A t : t # s /\ Indexed(t) => Same(t)
  BY <1>2, <1>3 DEF Same, Whole, Indexed, Retained
<1>12. PinnedIsWhole'
  <2>1. pinned # NoFile /\ pinned \notin rescued => Indexed(pinned) /\ pinned # s
    BY <1>5 DEF NamedInv, PinnedIsWhole, Needed, Indexed
  <2> QED BY <1>2, <1>11, <2>1 DEF NamedInv, PinnedIsWhole, Same
<1>13. (\E u \in Snapshots' : u > latest) => Interrupted'
  BY <1>2, <1>4 DEF Interrupted
<1>14. Interrupted => Interrupted'
  <2>1. ASSUME NEW t \in Snapshots, t > latest PROVE \E u \in Snapshots' : u > latest
    <3>1. CASE t # s
      BY <1>3, <2>1, <3>1
    <3>2. CASE t = s
      BY <1>3, <1>6, <1>7, <2>1, <3>2
    <3> QED BY <3>1, <3>2
  <2> QED BY <1>13, <2>1 DEF Interrupted
<1>15. LatestIsWhole'
  <2>1. CASE latest = s /\ latest \in Snapshots
    <3>1. latest \notin fresh /\ Interrupted'
      BY <1>5, <1>7, <1>13, <2>1 DEF Needed
    <3> QED BY <1>2, <3>1 DEF LatestIsWhole
  <2>2. CASE latest # s /\ Indexed(latest)
    BY <1>2, <1>11, <1>14, <2>2, LatestSame DEF NamedInv
  <2>3. CASE ~Indexed(latest)
    BY <1>2, <1>14, <2>3 DEF NamedInv, LatestIsWhole, Whole
  <2> QED BY <2>1, <2>2, <2>3 DEF Indexed
<1> QED BY <1>9, <1>10, <1>12, <1>15 DEF NamedRest

LEMMA RemovedSnapshotsNamed ==
    ASSUME NamedInv, NEW b, Builds = {b}, RemovedSnapshots(b)
    PROVE  NamedRest'
<1>1. At(b, "sync")'
  BY NextStep DEF RemovedSnapshots, NamedInv, IInv, Core
<1>2. UNCHANGED <<base, content, since, made, fresh, latest, pinned, rescued>>
  BY DEF RemovedSnapshots, clientVars
<1> QED BY <1>1, <1>2, NoCleanUp DEF At

LEMMA DownloadNamed ==
    ASSUME NamedInv, NEW b, Builds = {b}, Download(b)
    PROVE  NamedRest'
BY NoCleanUp DEF Download, clientVars, At

(* createrepo may delete metadata, and makes anew that of the packages there *)
(* are; that of a fresh snapshot is retained.                                *)
LEMMA IndexPackagesNamed ==
    ASSUME NamedInv, NEW b, Builds = {b}, IndexPackages(b)
    PROVE  NamedRest'
<1>1. build'[b] = [step |-> "mkdir", synced |-> TRUE]
  BY DEF IndexPackages, NamedInv, IInv, Core, Shape
<1>2. UNCHANGED <<base, content, made, fresh, latest, pinned, rescued>> /\ Snapshots' = Snapshots
  BY DEF IndexPackages, clientVars, Snapshots
<1>3. \A s \in Snapshots : since'[s] < since[s] => content[s] = base
  BY DEF IndexPackages, NamedInv, IInv, Core, Names
<1>4. \A s \in Snapshots : since'[s] \in Nat /\ since[s] \in Nat
  BY DEF IndexPackages, NamedInv, IInv, Core, Names
<1>5. \A s : Indexed(s) => Indexed(s)'
  BY <1>2 DEF Indexed
<1>6. \A s : Indexed(s) /\ Retained(s)' => Retained(s) \/ Whole(s)'
  BY <1>2, <1>3, <1>4, <1>5, MirrorsAssumption DEF Indexed, Retained, Whole
<1>7. \A s : Whole(s) /\ Retained(s)' => Whole(s)'
  BY <1>2, <1>5 DEF Whole
<1>8. PinnedIsWhole'
  BY <1>2, <1>5, <1>6, <1>7 DEF NamedInv, PinnedIsWhole
<1>9. Interrupted => Interrupted'
  BY <1>1, <1>2 DEF Interrupted
<1>10. LatestIsWhole'
  <2>1. CASE Whole(latest)
    <3>1. Indexed(latest) /\ Indexed(latest)'
      BY <1>2, <2>1 DEF Whole, Indexed
    <3>2. latest \in fresh => Retained(latest)'
      <4>1. MetadataIsKept'
        BY IndexPackagesMetadata DEF NamedInv
      <4> QED BY <1>2, <3>1, <4>1, MirrorsAssumption DEF MetadataIsKept, Retained, Indexed
    <3> QED BY <1>2, <1>7, <2>1, <3>1, <3>2 DEF LatestIsWhole
  <2>2. CASE ~Whole(latest)
    BY <1>2, <1>5, <1>6, <1>9, <2>2 DEF NamedInv, LatestIsWhole
  <2> QED BY <2>1, <2>2
<1>11. Fields' /\ CleanUpKeeps' /\ Making' /\ Named'
  BY <1>1, <1>2 DEF Fields, CleanUpKeeps, Making, Named, NamedInv, At
<1> QED BY <1>8, <1>10, <1>11 DEF NamedRest

LEMMA CrashNamed ==
    ASSUME NamedInv, NEW b, Builds = {b}, Crash(b)
    PROVE  NamedRest'
<1>1. build'[b] = Idle
  BY DEF Crash, End, NamedInv, IInv, Core, Shape
<1>2. UNCHANGED <<base, content, since, made, fresh, latest, pinned, rescued>>
  BY DEF Crash, clientVars
<1> QED BY <1>1, <1>2, NoCleanUp DEF Idle

LEMMA MakeSnapshotNamed ==
    ASSUME NamedInv, NEW b, Builds = {b}, MakeSnapshot(b)
    PROVE  NamedRest'
<1>1. build'[b] = [step |-> "copy", snapshot |-> made']
  BY DEF MakeSnapshot, NamedInv, IInv, Core, Shape
<1>2. /\ made' = made + 1 /\ fresh' = fresh \cup {made'} /\ rescued \subseteq rescued'
      /\ UNCHANGED <<base, latest, pinned>>
  BY DEF MakeSnapshot, clientVars
<1>3. /\ Snapshots' = Snapshots \cup {made'}
      /\ \A s \in Snapshots' : s # made' => content'[s] = content[s] /\ since'[s] = since[s]
  BY DEF MakeSnapshot, Snapshots
<1>4. /\ made \in Nat /\ latest \in NoFile..made /\ pinned \in NoFile..made
      /\ Snapshots \subseteq 1..made /\ fresh \subseteq 1..made
  BY DEF NamedInv, IInv, Core, Names, Named
<1>5. /\ latest # made' /\ latest < made' /\ pinned # made' /\ pinned < made'
      /\ \A t \in Snapshots : t # made'
  BY <1>2, <1>4 DEF NoFile
<1>6. Fields'
  BY <1>1 DEF Fields, At
<1>7. Making'
  BY <1>1, <1>2, <1>3, <1>5 DEF Making, At
<1>8. Named'
  <2>1. latest' \in NoFile..made' /\ pinned' \in NoFile..made' /\ pinned' # Blank
    BY <1>2, <1>4 DEF NamedInv, Named, NoFile
  <2>2. ASSUME NEW s \in fresh', NEW t \in 1..made', t > s PROVE t \in fresh'
    <3>1. CASE t = made'
      BY <1>2, <3>1
    <3>2. CASE t # made'
      <4>1. t \in 1..made /\ s \in fresh
        BY <1>2, <1>4, <2>2, <3>2
      <4> QED BY <1>2, <2>2, <4>1 DEF NamedInv, Named
    <3> QED BY <3>1, <3>2
  <2> QED BY <2>1, <2>2 DEF Named
<1>9. CleanUpKeeps'
  BY <1>1 DEF CleanUpKeeps, At
<1>10. \A s : s # made' /\ Indexed(s) => Same(s)
  BY <1>2, <1>3 DEF Same, Whole, Indexed, Retained
<1>11. PinnedIsWhole'
  BY <1>2, <1>5, <1>10 DEF NamedInv, PinnedIsWhole, Same
<1>12. Interrupted => Interrupted'
  <2>1. ASSUME NEW t \in Snapshots, t > latest PROVE Interrupted'
    <3>1. t \in Snapshots' /\ t > latest' /\ build'[b].snapshot # t
      BY <1>1, <1>2, <1>3, <1>5, <2>1
    <3> QED BY <3>1 DEF Interrupted
  <2> QED BY <2>1 DEF Interrupted
<1>13. LatestIsWhole'
  <2>1. CASE Indexed(latest)
    BY <1>2, <1>5, <1>10, <1>12, <2>1, LatestSame DEF NamedInv
  <2>2. CASE ~Indexed(latest)
    BY <1>2, <1>5, <1>12, <2>2 DEF NamedInv, LatestIsWhole, Whole
  <2> QED BY <2>1, <2>2
<1> QED BY <1>6, <1>7, <1>8, <1>9, <1>11, <1>13 DEF NamedRest

LEMMA CopyIndexNamed ==
    ASSUME NamedInv, NEW b, Builds = {b}, CopyIndex(b)
    PROVE  NamedRest'
<1>1. At(b, "copy") /\ UNCHANGED <<base, made, fresh, latest, pinned, rescued>>
  BY DEF CopyIndex, clientVars
<1>2. CASE ~(index # NoIndex /\ build[b].snapshot \in Snapshots)
  <2>1. build'[b] = Idle /\ UNCHANGED <<content, since>>
    BY <1>2 DEF CopyIndex, End, NamedInv, IInv, Core, Shape
  <2> QED BY <1>1, <2>1, NoCleanUp DEF Idle
<1>3. CASE index # NoIndex /\ build[b].snapshot \in Snapshots
  <2>1. /\ build[b].snapshot = made /\ latest < made /\ pinned < made
        /\ "snapshot" \in DOMAIN build[b] /\ made \in fresh
    BY <1>1 DEF NamedInv, Making, Fields, At
  <2>2. /\ build'[b].step = "truncate" /\ build'[b].snapshot = made
        /\ "snapshot" \in DOMAIN build'[b]
    BY <1>3, <2>1 DEF CopyIndex, GoTo, NamedInv, IInv, Core, Shape, AtRecord
  <2>3. /\ Snapshots' = Snapshots /\ made \in Snapshots
        /\ \A s \in Snapshots : content'[s] = IF s = made THEN index ELSE content[s]
        /\ \A s \in Snapshots : s # made => since'[s] = since[s]
    BY <1>3, <2>1 DEF CopyIndex, Snapshots, NamedInv, IInv, Core, Names
  <2>4. latest # made /\ pinned # made
    BY <2>1 DEF NamedInv, IInv, Core, Names, Named, NoFile
  <2>5. Fields'
    BY <2>2 DEF Fields, At
  <2>6. Making'
    BY <1>1, <1>3, <2>1, <2>2, <2>3 DEF Making, At
  <2>7. Named'
    BY <1>1 DEF NamedInv, Named
  <2>8. CleanUpKeeps'
    BY <2>2 DEF CleanUpKeeps, At
  <2>9. \A s : s # made => Same(s)
    BY <1>1, <2>3 DEF Same, Whole, Indexed, Retained
  <2>10. Interrupted => Interrupted'
    BY <1>1, <2>1, <2>2, <2>3 DEF Interrupted, At
  <2>11. LatestIsWhole' /\ PinnedIsWhole'
    BY <1>1, <2>4, <2>9, <2>10, LatestSame, PinnedSame DEF NamedInv
  <2> QED BY <2>5, <2>6, <2>7, <2>8, <2>11 DEF NamedRest
<1> QED BY <1>2, <1>3

LEMMA TruncateNamed ==
    ASSUME NamedInv, NEW b, Builds = {b}, Truncate(b)
    PROVE  NamedRest'
<1>1. /\ At(b, "truncate") /\ UNCHANGED <<base, content, since, made, fresh, pinned, rescued>>
      /\ latest' = Blank /\ Snapshots' = Snapshots
  BY DEF Truncate, clientVars, Snapshots
<1>2. /\ build[b].snapshot = made /\ made \in Snapshots /\ content[made] # NoIndex
      /\ "snapshot" \in DOMAIN build[b] /\ made \in fresh /\ pinned < made
  BY <1>1 DEF NamedInv, Making, Fields, At
<1>3. /\ build'[b].step = "publish" /\ build'[b].snapshot = made
      /\ "snapshot" \in DOMAIN build'[b]
  BY <1>2 DEF Truncate, GoTo, NamedInv, IInv, Core, Shape, AtRecord
<1>4. Blank < made /\ Blank \in NoFile..made
  BY <1>2 DEF NamedInv, IInv, Core, Names, Blank, NoFile
<1>5. Fields'
  BY <1>3 DEF Fields, At
<1>6. Making'
  BY <1>1, <1>2, <1>3, <1>4 DEF Making, At
<1>7. Named'
  BY <1>1, <1>4 DEF NamedInv, Named
<1>8. CleanUpKeeps'
  BY <1>3 DEF CleanUpKeeps, At, Retained
<1>9. LatestIsWhole'
  BY <1>1 DEF LatestIsWhole, Blank
<1>10. PinnedIsWhole'
  BY <1>1 DEF NamedInv, PinnedIsWhole, Whole, Indexed, Retained
<1> QED BY <1>5, <1>6, <1>7, <1>8, <1>9, <1>10 DEF NamedRest

LEMMA PublishNamed ==
    ASSUME NamedInv, NEW b, Builds = {b}, Publish(b)
    PROVE  NamedRest'
<1>1. /\ At(b, "publish") /\ UNCHANGED <<base, content, since, made, fresh, pinned, rescued>>
      /\ Snapshots' = Snapshots /\ latest' = build[b].snapshot /\ build'[b] = Idle
  BY DEF Publish, End, clientVars, Snapshots, NamedInv, IInv, Core, Shape
<1>2. /\ build[b].snapshot = made /\ made \in Snapshots /\ content[made] # NoIndex
      /\ made \in fresh
  BY <1>1 DEF NamedInv, Making, At
<1>3. Fields' /\ CleanUpKeeps' /\ Making'
  BY <1>1 DEF Fields, CleanUpKeeps, Making, At, Idle
<1>4. Named'
  BY <1>1, <1>2 DEF NamedInv, IInv, Core, Names, Named, NoFile
<1>5. LatestIsWhole'
  BY <1>1, <1>2, FreshAreWhole
     DEF NamedInv, FreshSnapshotsAreWhole, LatestIsWhole, Whole, Indexed, Retained
<1>6. PinnedIsWhole'
  BY <1>1 DEF NamedInv, PinnedIsWhole, Whole, Indexed, Retained
<1> QED BY <1>3, <1>4, <1>5, <1>6 DEF NamedRest

\* The slaves follow latest.txt only to a snapshot that is kept anyway.
LEMMA PinNamed ==
    ASSUME NamedInv, NEW b, Builds = {b}, Pin
    PROVE  NamedRest'
<1>1. /\ UNCHANGED <<base, content, since, made, fresh, latest, rescued, build>>
      /\ latest \in fresh /\ pinned' = latest /\ Snapshots' = Snapshots
  BY DEF Pin, bounds, Snapshots
<1>2. latest \in 1..made /\ made \in Nat /\ latest > Blank
  BY <1>1 DEF NamedInv, IInv, Core, Names, Blank
<1>3. Needed' \subseteq Needed
  BY <1>1 DEF Needed
<1>4. Fields' /\ Making'
  BY <1>1 DEF NamedInv, Fields, Making, At
<1>5. Named'
  BY <1>1, <1>2 DEF NamedInv, Named, NoFile, Blank
<1>6. CleanUpKeeps'
  BY <1>1, <1>3 DEF NamedInv, CleanUpKeeps, At, Retained
<1>7. LatestIsWhole' /\ PinnedIsWhole'
  BY <1>1, <1>2 DEF NamedInv, LatestIsWhole, PinnedIsWhole, Whole, Indexed, Retained,
         Interrupted
<1> QED BY <1>4, <1>5, <1>6, <1>7 DEF NamedRest

LEMMA AgeNamed ==
    ASSUME NamedInv, NEW b, Builds = {b}, Age
    PROVE  NamedRest'
<1>1. /\ UNCHANGED <<base, content, since, made, latest, pinned, rescued, build>>
      /\ fresh # {} /\ fresh' = fresh \ {Min(fresh)} /\ At(b, "idle")
      /\ Snapshots' = Snapshots
  BY DEF Age, clientVars, Snapshots
<1>2. fresh \subseteq Nat /\ fresh \subseteq 1..made /\ made \in Nat
  BY DEF NamedInv, IInv, Core, Names
<1>3. \A t \in fresh : Min(fresh) <= t
  <2>1. PICK m \in fresh : \A t \in fresh : m <= t
    BY <1>1, <1>2, LeastNat
  <2> QED BY <2>1 DEF Min
<1>4. Fields' /\ Making' /\ CleanUpKeeps'
  BY <1>1 DEF Fields, Making, CleanUpKeeps, At, Retained
<1>5. Named'
  <2>1. ASSUME NEW s \in fresh', NEW t \in 1..made, t > s PROVE t \in fresh'
    <3>1. s \in fresh /\ t \in fresh /\ Min(fresh) <= s /\ Min(fresh) # s
      BY <1>1, <1>3, <2>1 DEF NamedInv, Named
    <3>2. Min(fresh) \in fresh
      BY <1>1, <1>2, LeastNat DEF Min
    <3>3. t # Min(fresh)
      BY <1>2, <2>1, <3>1, <3>2
    <3> QED BY <1>1, <3>1, <3>3
  <2> QED BY <1>1, <2>1 DEF NamedInv, Named
<1>6. LatestIsWhole' /\ PinnedIsWhole'
  BY <1>1 DEF NamedInv, LatestIsWhole, PinnedIsWhole, Whole, Indexed, Retained,
         Interrupted
<1> QED BY <1>4, <1>5, <1>6 DEF NamedRest

LEMMA OthersNamed ==
    ASSUME NamedInv, UNCHANGED <<base, content, since, made, fresh, latest, pinned, rescued, build>>
    PROVE  NamedRest'
<1>1. Snapshots' = Snapshots /\ Needed' = Needed
  BY DEF Needed, Snapshots
<1>2. Fields' /\ Making' /\ Named' /\ CleanUpKeeps'
  BY <1>1 DEF NamedInv, Fields, Making, Named, CleanUpKeeps, At, Retained
<1>3. LatestIsWhole' /\ PinnedIsWhole'
  BY <1>1 DEF NamedInv, LatestIsWhole, PinnedIsWhole, Whole, Indexed, Retained,
         Interrupted
<1> QED BY <1>2, <1>3 DEF NamedRest

LEMMA NextNamed ==
    ASSUME NamedInv, NEW b, Builds = {b}, MaxQueryFailures = 0, [Next]_vars
    PROVE  NamedInv'
<1>1. CASE Sync(b)
  BY <1>1, StartSyncNamed, FindReferencedNamed, FindUnreferencedNamed, RemovePackageNamed,
     RemovedPackagesNamed, RemoveSnapshotNamed, RemovedSnapshotsNamed, DownloadNamed,
     IndexPackagesNamed, MakeSnapshotNamed, CopyIndexNamed, TruncateNamed, PublishNamed,
     NextIInv DEF Sync, NamedInv, NamedRest
<1>2. CASE Crash(b)
  BY <1>2, CrashNamed, NextIInv DEF NamedInv, NamedRest
<1>3. CASE Age
  BY <1>3, AgeNamed, NextIInv DEF NamedInv, NamedRest
<1>4. CASE Pin
  BY <1>4, PinNamed, NextIInv DEF NamedInv, NamedRest
<1>5. CASE ChangeUpstream \/ ReadLatest \/ WriteLists \/ UseListed \/ Finish
  <2>1. NamedRest'
    BY <1>5, OthersNamed
       DEF ChangeUpstream, ReadLatest, WriteLists, UseListed, Finish, clientVars
  <2> QED BY <2>1, NextIInv DEF NamedInv, NamedRest
<1>6. CASE UNCHANGED vars
  BY <1>6, OthersNamed, NextIInv DEF vars, NamedInv, NamedRest
<1> QED BY <1>1, <1>2, <1>3, <1>4, <1>5, <1>6 DEF Next, MirrorNext

LEMMA NamedHolds ==
    ASSUME NEW b, Builds = {b}, MaxQueryFailures = 0
    PROVE  Spec => []NamedInv
<1>1. Init => NamedInv
  BY InitIInv, InitNamed DEF NamedInv, NamedRest
<1>2. NamedInv /\ [Next]_vars => NamedInv'
  BY NextNamed
<1> QED BY <1>1, <1>2, PTL DEF Spec

(***************************************************************************)
(* Under the same conditions what latest.txt names is there and whole,     *)
(* unless it has aged and a snapshot whose making was interrupted has      *)
(* taken its place as the most recent one, or createrepo has deleted its   *)
(* metadata.                                                               *)
(***************************************************************************)
THEOREM LatestStaysWhole ==
    ASSUME NEW b, Builds = {b}, MaxQueryFailures = 0
    PROVE  Spec => []LatestIsWhole
<1>1. NamedInv => LatestIsWhole
  BY DEF NamedInv
<1> QED BY <1>1, NamedHolds, PTL

(***************************************************************************)
(* Under the same conditions the snapshot that data/slave-repos names      *)
(* stays there at any age, and keeps its packages for as long as           *)
(* createrepo retains its metadata: mirror_cleanup adds it to those kept.  *)
(***************************************************************************)
THEOREM PinnedStaysWhole ==
    ASSUME NEW b, Builds = {b}, MaxQueryFailures = 0
    PROVE  Spec => []PinnedIsWhole
<1>1. NamedInv => PinnedIsWhole
  BY DEF NamedInv
<1> QED BY <1>1, NamedHolds, PTL

=============================================================================
