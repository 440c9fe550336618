------------------------------- MODULE Mirrors -------------------------------
(***************************************************************************)
(* One mirror of scripts/mirror_mgr.sh: the command resync_yum_mirror with *)
(* its clean-up, the snapshots it publishes, and the index job that lists  *)
(* the latest ones.                                                        *)
(*                                                                         *)
(* All snapshots share the package files of the directory 'base'.  A       *)
(* snapshot is a copy of the repository index as it was, so it stays whole *)
(* only as long as the clean-up leaves the packages it names.  The script  *)
(* runs under 'bash -e': every command that fails ends it where it stands. *)
(***************************************************************************)
EXTENDS Integers, FiniteSets, Functions, FiniteSetsExt

CONSTANTS
    Pkgs,               \* package files
    Supersedes,         \* the older versions of each
    Modular,            \* whether upstream has module information
    Builds,             \* builds of the sync job that may overlap
    NoIndex,            \* in place of an index: there is no repomd.xml
    MdKept,             \* of OLD_MD_TO_KEEP: what is left when a snapshot has aged
    MaxSnapshots,       \* bound on the snapshots made
    MaxChanges,         \* bound on the changes upstream
    MaxCrashes,         \* bound on the builds that end half-way
    MaxQueryFailures    \* bound on the runs of repoquery that fail

ASSUME MirrorsAssumption ==
    /\ Supersedes \in [Pkgs -> SUBSET Pkgs]
    /\ Modular \in BOOLEAN
    /\ \A S \in SUBSET Pkgs : NoIndex # S
    /\ {MdKept, MaxSnapshots, MaxChanges, MaxCrashes, MaxQueryFailures} \subseteq Nat

VARIABLES
    offered,    \* the packages upstream has
    base,       \* the package files in base/
    index,      \* base/repodata/repomd.xml: the packages it names
    content,    \* snapshot directory -> its repomd.xml
    since,      \* snapshot directory -> the indexes made since it has aged
    made,       \* snapshots are named by the time they are made: 1, 2, ...
    fresh,      \* snapshots made in the last MAX_AGE days
    latest,     \* latest.txt
    listing,    \* what the running index job read, or NoFile
    listed,     \* the URL all_latest.* give for this mirror
    pinned,     \* the snapshot that data/slave-repos names, or NoFile
    used,       \* the snapshot a client works with, or NoFile
    build,      \* the builds of the sync job
    rescued,    \* history: snapshots made without a sync, for want of latest.txt
    changes, crashes, queryFailures

upstreamVars == <<offered, changes>>
clientVars == <<listing, listed, pinned, used>>
bounds == <<crashes, queryFailures>>
vars == <<offered, base, index, content, since, made, fresh, latest, listing, listed,
          pinned, used, build, rescued, changes, crashes, queryFailures>>

NoFile == -1
Blank == 0      \* an empty latest.txt, for which repo_url gives the URL of base
Idle == [step |-> "idle"]
Snapshots == DOMAIN content

Newest(S) == S \ UNION {Supersedes[p] : p \in S}
Wanted == IF Modular THEN offered ELSE Newest(offered)

\* A repomd.xml names files of metadata in base/repodata.  createrepo runs with
\* --retain-old-md and deletes those of all but the last 100 old indexes.  Syncs
\* are eight hours apart: 42 of them take the 14 days that a snapshot is fresh.
\* An older one keeps its metadata for MdKept more, which are 58 at least.
Indexed(s) == s \in Snapshots /\ content[s] # NoIndex
Retained(s) == since[s] <= MdKept
Whole(s) == Indexed(s) /\ Retained(s) /\ content[s] \subseteq base
-----------------------------------------------------------------------------
Init ==
    /\ offered \in SUBSET Pkgs \ {{}}
    /\ base = {} /\ index = NoIndex
    /\ content = << >> /\ since = << >> /\ made = 0 /\ fresh = {}
    /\ latest = NoFile /\ listing = NoFile /\ listed = NoFile
    /\ pinned = NoFile /\ used = NoFile
    /\ build = [b \in Builds |-> Idle]
    /\ rescued = {}
    /\ changes = 0 /\ crashes = 0 /\ queryFailures = 0

At(b, step) == build[b].step = step
GoTo(b, step) == build' = [build EXCEPT ![b].step = step]
End(b) == build' = [build EXCEPT ![b] = Idle]

\* A slip in check_yum_sync_needed: one package that is there will do.
MutSyncNeeded == offered \cap base = {}
SyncNeeded == ~(offered \subseteq base)

(* The check asks for every package, not only for those the sync fetches.   *)
(* A mirror that has them all gets a snapshot only if it has no latest.txt. *)
StartSync(b) ==
    /\ At(b, "idle") /\ made < MaxSnapshots
    /\ \/ /\ SyncNeeded
          /\ build' = [build EXCEPT ![b] = [step |-> "query", checkout |-> pinned]]
       \/ /\ ~SyncNeeded /\ latest = NoFile
          /\ build' = [build EXCEPT ![b] = [step |-> "mkdir", synced |-> FALSE]]
    /\ UNCHANGED <<upstreamVars, clientVars, bounds, base, index, content, since, made,
                   fresh, latest, rescued>>

\* A slip in find_recent_snapshots: the most recent one is enough.
MutKeepMostRecent(pin) ==
    (IF Snapshots = {} THEN {} ELSE {Max(Snapshots)}) \cup ({pin} \ {NoFile})

\* Others: the most recent is kept only while fresh; the pin is forgotten.
MutOnlyFresh(pin) == (Snapshots \cap fresh) \cup ({pin} \ {NoFile})
MutForgetPin(pin) ==
    LET recent == Snapshots \cap fresh
    IN  IF recent = {} /\ Snapshots # {} THEN {Max(Snapshots)} ELSE recent

\* The fresh snapshots, or the most recent one, and the one the slaves use.
Kept(pin) ==
    LET recent == Snapshots \cap fresh
    IN  (IF recent = {} /\ Snapshots # {} THEN {Max(Snapshots)} ELSE recent)
            \cup ({pin} \ {NoFile})

\* repoquery names the packages of each snapshot to keep; it fails for one
\* without an index or the metadata that it names, and may fail for any.
\* Failures are passed over.
FindReferenced(b) ==
    /\ At(b, "query")
    /\ LET kept == Kept(build[b].checkout)
           indexed == {s \in kept : Indexed(s) /\ Retained(s)}
       IN  \/ /\ kept = {}
              /\ GoTo(b, "sync") /\ UNCHANGED queryFailures
           \/ /\ kept # {}
              /\ \E failing \in SUBSET indexed :
                    /\ queryFailures + Cardinality(failing) <= MaxQueryFailures
                    /\ queryFailures' = queryFailures + Cardinality(failing)
                    /\ build' = [build EXCEPT ![b] =
                          [step |-> "find", kept |-> kept,
                           referenced |-> UNION {content[s] : s \in indexed \ failing}]]
    /\ UNCHANGED <<upstreamVars, clientVars, base, index, content, since, made, fresh,
                   latest, rescued, crashes>>

\* grep is given the referenced packages as patterns.  With none it is given
\* one empty line, and its version decides whether that spares everything.
Unreferenced(referenced) ==
    {base \ referenced} \cup (IF referenced = {} THEN {{}} ELSE {})

FindUnreferenced(b) ==
    /\ At(b, "find")
    /\ \E doomed \in Unreferenced(build[b].referenced) :
          build' = [build EXCEPT ![b] = [step |-> "rm", kept |-> build[b].kept,
                                         doomed |-> doomed]]
    /\ UNCHANGED <<upstreamVars, clientVars, bounds, base, index, content, since, made,
                   fresh, latest, rescued>>

RemovePackage(b) ==
    /\ At(b, "rm")
    /\ \E p \in build[b].doomed \cap base :
          /\ base' = base \ {p}
          /\ build' = [build EXCEPT ![b].doomed = @ \ {p}]
    /\ UNCHANGED <<upstreamVars, clientVars, bounds, index, content, since, made, fresh,
                   latest, rescued>>

\* rm fails for a package that is gone.
RemovedPackages(b) ==
    /\ At(b, "rm") /\ build[b].doomed \cap base = {}
    /\ IF build[b].doomed = {}
       THEN build' = [build EXCEPT ![b] = [step |-> "rmdir",
                                           old |-> Snapshots \ build[b].kept]]
       ELSE End(b)
    /\ UNCHANGED <<upstreamVars, clientVars, bounds, base, index, content, since, made,
                   fresh, latest, rescued>>

RemoveSnapshot(b) ==
    /\ At(b, "rmdir")
    /\ \E s \in build[b].old :
          /\ content' = Restrict(content, Snapshots \ {s})
          /\ since' = Restrict(since, Snapshots \ {s})
          /\ build' = [build EXCEPT ![b].old = @ \ {s}]
    /\ UNCHANGED <<upstreamVars, clientVars, bounds, base, index, made, fresh,
                   latest, rescued>>

RemovedSnapshots(b) ==
    /\ At(b, "rmdir") /\ build[b].old = {}
    /\ GoTo(b, "sync")
    /\ UNCHANGED <<upstreamVars, clientVars, bounds, base, index, content, since, made,
                   fresh, latest, rescued>>

Download(b) ==
    /\ At(b, "sync")
    /\ \E p \in Wanted \ base : base' = base \cup {p}
    /\ UNCHANGED <<upstreamVars, clientVars, bounds, index, content, since, made, fresh,
                   latest, build, rescued>>

\* createrepo.  Metadata is named by its checksum: an index of other packages has
\* files of its own, and those of the old ones move up towards their removal.
IndexPackages(b) ==
    /\ At(b, "sync") /\ Wanted \subseteq base
    /\ index' = base
    /\ since' = [s \in Snapshots |->
                    IF content[s] = base THEN 0
                    ELSE IF base # index /\ s \notin fresh /\ Indexed(s) /\ Retained(s)
                    THEN since[s] + 1
                    ELSE since[s]]
    /\ build' = [build EXCEPT ![b] = [step |-> "mkdir", synced |-> TRUE]]
    /\ UNCHANGED <<upstreamVars, clientVars, bounds, base, content, made, fresh,
                   latest, rescued>>

MakeSnapshot(b) ==
    /\ At(b, "mkdir") /\ made < MaxSnapshots
    /\ made' = made + 1
    /\ content' = [s \in Snapshots \cup {made'} |->
                      IF s = made' THEN NoIndex ELSE content[s]]
    /\ since' = [s \in Snapshots \cup {made'} |-> IF s = made' THEN 0 ELSE since[s]]
    /\ fresh' = fresh \cup {made'}
    /\ rescued' = IF build[b].synced THEN rescued ELSE rescued \cup {made'}
    /\ build' = [build EXCEPT ![b] = [step |-> "copy", snapshot |-> made']]
    /\ UNCHANGED <<upstreamVars, clientVars, bounds, base, index, latest>>

\* cp fails without an index to copy or a directory to copy it to.
CopyIndex(b) ==
    /\ At(b, "copy")
    /\ IF index # NoIndex /\ build[b].snapshot \in Snapshots
       THEN /\ content' = [content EXCEPT ![build[b].snapshot] = index]
            /\ since' = [since EXCEPT ![build[b].snapshot] = 0]
            /\ GoTo(b, "truncate")
       ELSE UNCHANGED <<content, since>> /\ End(b)
    /\ UNCHANGED <<upstreamVars, clientVars, bounds, base, index, made, fresh,
                   latest, rescued>>

\* The shell opens latest.txt, and echo writes the name.
Truncate(b) ==
    /\ At(b, "truncate")
    /\ latest' = Blank
    /\ GoTo(b, "publish")
    /\ UNCHANGED <<upstreamVars, clientVars, bounds, base, index, content, since, made,
                   fresh, rescued>>

Publish(b) ==
    /\ At(b, "publish")
    /\ latest' = build[b].snapshot
    /\ End(b)
    /\ UNCHANGED <<upstreamVars, clientVars, bounds, base, index, content, since, made,
                   fresh, rescued>>

\* A command fails or the node is lost.
Crash(b) ==
    /\ ~At(b, "idle")
    /\ crashes < MaxCrashes /\ crashes' = crashes + 1
    /\ End(b)
    /\ UNCHANGED <<upstreamVars, clientVars, base, index, content, since, made, fresh,
                   latest, rescued, queryFailures>>
-----------------------------------------------------------------------------
(* The index job: list_latest reads latest.txt, atomic_write moves the      *)
(* lists into place.  Its builds do not overlap.                            *)
ReadLatest ==
    /\ listing = NoFile /\ latest # NoFile
    /\ listing' = latest
    /\ UNCHANGED <<upstreamVars, bounds, base, index, content, since, made, fresh, latest,
                   listed, pinned, used, build, rescued>>

WriteLists ==
    /\ listing # NoFile
    /\ listed' = listing /\ listing' = NoFile
    /\ UNCHANGED <<upstreamVars, bounds, base, index, content, since, made, fresh, latest,
                   pinned, used, build, rescued>>

\* Clients start work with the snapshot listed, and finish.
UseListed ==
    /\ used = NoFile /\ listed > Blank
    /\ used' = listed
    /\ UNCHANGED <<upstreamVars, bounds, base, index, content, since, made, fresh, latest,
                   listing, listed, pinned, build, rescued>>

Finish ==
    /\ used # NoFile
    /\ used' = NoFile
    /\ UNCHANGED <<upstreamVars, bounds, base, index, content, since, made, fresh, latest,
                   listing, listed, pinned, build, rescued>>

\* Slaves are configured to use the latest snapshot, while it is fresh.
Pin ==
    /\ latest \in fresh /\ pinned # latest
    /\ pinned' = latest
    /\ UNCHANGED <<upstreamVars, bounds, base, index, content, since, made, fresh, latest,
                   listing, listed, used, build, rescued>>

\* MAX_AGE days are long against a sync: none ends while a build runs.
Age ==
    /\ \A b \in Builds : At(b, "idle")
    /\ fresh # {}
    /\ fresh' = fresh \ {Min(fresh)}
    /\ UNCHANGED <<upstreamVars, clientVars, bounds, base, index, content, since, made,
                   latest, build, rescued>>

ChangeUpstream ==
    /\ changes < MaxChanges /\ changes' = changes + 1
    /\ offered' \in SUBSET Pkgs \ {{}, offered}
    /\ UNCHANGED <<clientVars, bounds, base, index, content, since, made, fresh, latest,
                   build, rescued>>

Sync(b) ==
    \/ StartSync(b) \/ FindReferenced(b) \/ FindUnreferenced(b)
    \/ RemovePackage(b) \/ RemovedPackages(b) \/ RemoveSnapshot(b) \/ RemovedSnapshots(b)
    \/ Download(b) \/ IndexPackages(b)
    \/ MakeSnapshot(b) \/ CopyIndex(b) \/ Truncate(b) \/ Publish(b)

\* What happens to the mirror; the lists and their readers change nothing in it.
MirrorNext ==
    \/ \E b \in Builds : Sync(b) \/ Crash(b)
    \/ Pin \/ Age \/ ChangeUpstream

Next == MirrorNext \/ ReadLatest \/ WriteLists \/ UseListed \/ Finish
Spec == Init /\ [][Next]_vars

\* Jenkins starts a sync every eight hours and the index job after each; the
\* days pass.
Fairness ==
    /\ \A b \in Builds : WF_vars(Sync(b))
    /\ WF_vars(ReadLatest) /\ WF_vars(WriteLists) /\ WF_vars(Age)

FairSpec == Spec /\ Fairness
-----------------------------------------------------------------------------
(***************************************************************************)
(* A snapshot younger than MAX_AGE days, once it has its index, has its    *)
(* metadata and all its packages, whatever the clean-up of the syncs that  *)
(* followed removed and wherever one of them ended.  Snapshots made        *)
(* without a sync are left out: such a one copies an index that a clean-up *)
(* may have overtaken.                                                     *)
(***************************************************************************)
FreshSnapshotsAreWhole ==
    \A s \in (Snapshots \cap fresh) \ rescued : content[s] # NoIndex => Whole(s)

(***************************************************************************)
(* What latest.txt names is there and whole.  The exceptions: after        *)
(* MAX_AGE days without a new snapshot, one whose making was interrupted   *)
(* counts as the most recent in its place; or its metadata is gone, for    *)
(* every sync since has ended between createrepo and its own snapshot.     *)
(***************************************************************************)
Interrupted ==
    \E s \in Snapshots :
        /\ s > latest
        /\ \A b \in Builds : build[b].step \in {"copy", "truncate", "publish"} =>
                                build[b].snapshot # s

LatestIsWhole ==
    latest > Blank /\ latest \notin rescued =>
        \/ Whole(latest)
        \/ /\ latest \notin fresh
           /\ \/ Interrupted
              \/ Indexed(latest) /\ ~Retained(latest)

(***************************************************************************)
(* The snapshot the slaves are configured with stays there at any age, and *)
(* has all its packages as long as createrepo retains its metadata.        *)
(***************************************************************************)
PinnedIsWhole ==
    pinned # NoFile /\ pinned \notin rescued =>
        Indexed(pinned) /\ (Retained(pinned) => Whole(pinned))

(***************************************************************************)
(* When upstream rests, what it has is published and listed in the end, if *)
(* no build ended half-way and there is room for one more snapshot.        *)
(***************************************************************************)
Published(s) == s > Blank /\ Whole(s) /\ Wanted \subseteq content[s]
UpdatesAreListed ==
    <>(crashes > 0) \/ <>(made = MaxSnapshots) \/ <>[](latest = listed /\ Published(listed))

(***************************************************************************)
(* "Clients are supposed to always use a snapshot so they can be           *)
(* guaranteed it will not change while they are using it"                  *)
(* (mirror_mgr.sh:15-16).  This does NOT hold when repoquery fails, nor    *)
(* when two syncs of the mirror overlap.                                   *)
(***************************************************************************)
UsedSnapshotStaysWhole == used # NoFile => Whole(used)

=============================================================================
