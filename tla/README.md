# Verification of oVirt STDCI

TLA+ models, TLC runs and TLAPS proofs kept beside the STDCI code (the `jenkins`
repository of oVirt).  Paths are relative to `src/`.

## 1. The system

STDCI is a continuous-integration system that runs in Jenkins.  Its stateful
logic is spread over Python libraries, Groovy pipelines and shell scripts.

| Part | Code | State | Who calls it |
|---|---|---|---|
| Change queue | `stdci_libs/change_queue/__init__.py` | sections of the queue, test key, changes awaiting dependencies, stream map; pickled in a build artifact | the queue job |
| Changes | `stdci_libs/change_queue/changes/__init__.py` | none (immutable values that can report their status) | the queue, the tester |
| Queue and tester jobs | `pipelines/change-queue.groovy`, `pipelines/change-queue-tester.groovy`, `stdci_libs/jenkins_objects.py` | the artifact of the last successful queue build, Jenkins' build queue | `standard-enqueue`, each other |
| Enqueue, stage, gate, deploy pipelines | `pipelines/standard-enqueue.groovy`, `standard-stage.groovy`, `gate.groovy`, `deployer.groovy` | builds and their artifacts | Gerrit/GitHub events, Zuul |
| STDCI runner | `pipelines/libs/stdci_runner.groovy` and the other `pipelines/libs` | threads, pods, node locks, reported statuses | `standard-stage`, Zuul jobs |
| Mirrors | `scripts/mirror_mgr.sh` | snapshot directories, `latest` links, a lock directory | mirror jobs |
| Mirror client | `stdci_libs/mirror_client.py`, `inject_repos.py` | none; writes yum configurations | pods, `mock_runner.sh` |
| Docker clean-up | `stdci_tools/docker_cleanup.py` | images, containers and volumes of a node | `project_setup.sh` |
| Pusher | `stdci_tools/pusher.py`, `stdci_libs/git_utils.py` | a git branch, the patches of a Gerrit | poll jobs, check-patch |
| Upstream sources | `stdci_tools/usrc.py`, `usrc_updater.py`, `stdci_libs/actuators` | `upstream_sources.yaml`, work trees, caches of repositories on a node | every job |
| STDCI DSL | `stdci_libs/stdci_dsl`, `struct_normalizer.py`, `nested_config.py` | none | `standard-stage` |
| Secrets, environment | `stdci_libs/secrets_resolvers.py`, `gdbm_db_resolvers.py`, `ci_env_client.py` | files written once per job | `project_setup.sh`, `mock_runner.sh` |
| Parent images | `stdci_tools/dockerfile_utils.py` | Dockerfiles of a project | a project's poll script |
| Event and build helpers | `stdci_libs/gerrit*.py`, `zuul_helpers.py`, `ost_build_resolver.py` | little | jobs |
| Node and job scripts | `mock_configs`, `stdci_tools/decorate.py`, `jobs/confs/shell-scripts` | files of a node | the runner |

### How the parts meet

A change merged in Gerrit or GitHub makes `standard-stage` build it, and
`enqueue_change` then triggers `standard-enqueue`, which starts a build of the
queue job with the action `add`.  Queue builds run one at a time.  Each loads
the queue's state from the artifact of the last successful queue build, acts,
reports the changes concerned by e-mail, writes the state back, archives it and,
for all actions but `get_next_test`, triggers the tester job without waiting.
Tester builds also run one at a time.  A tester runs the queue job with
`get_next_test`, stops if no test key comes back, runs the tests on the list that
did, and runs the queue job with `on_test_success` or `on_test_failure`.

Before that, `standard-stage` expands the project's STDCI configuration into jobs
and runs each on a node or in a pod.  On a node a job checks out the project and
its upstream sources, whose caches outlive it; keeps the secrets meant for the
project; cleans Docker of what jobs before left; in a poll job updates the
upstream sources and fetches them again; turns yum configurations to the mirrors,
which mock does once more on its own; works out the environment variables; and
runs the script.  A poll job then pushes
its update to Gerrit, where check-patch may submit it without a review.

### Behaviours that are hard to test

* **Verdicts that are late or repeated.**  A tester may be handed a test another
  tester holds, changes are added while a test runs, and a verdict may arrive
  after the queue has moved on.  The queue has one mechanism against all of it:
  the test key.
* **Blame without a test.**  When the first half of a failed batch passes, the
  second half is bisected or blamed without being tested.
* **Dependencies under removal.**  A culprit takes its dependants with it, out
  of the queue and out of the list of changes that await a dependency, while
  that list must keep an order in which one pass resolves everything.
* **State that lives in artifacts.**  E-mails go out before the state is saved,
  and a build that fails in between is forgotten by the next.
* **Two jobs that trigger each other** keep the queue moving only as long as
  every call of the queue that leaves work behind also schedules a tester.
* **Files removed under their readers.**  The snapshots of a mirror share their
  packages; a sync removes packages and old snapshots while clients, slaves and
  other syncs use them, and it may end at any of its commands.
* **Order that hashes decide.**  The DSL multiplies, merges and unites vectors in
  passes over sorted hashes, which Python draws anew in every process.
* **Fetches that are repeated.**  A job asks for mirrors, and mock asks again each
  time it reads its configuration; one may fail and the next succeed.
* **Caches that outlive a job.**  Upstream sources are checked out of a repository
  whose index remembers other jobs, into a work tree it knows nothing of.
* **Checks and what they check, apart.**  Updates are looked for in Gerrit before
  they are pushed, and may be merged on grounds that are asked for when a check
  starts, while the branch, the upstreams and other jobs move.
* **Files that are half written.**  Dockerfiles are cut off one by one and filled
  when they are closed, after the report; a full disk or a timeout comes between.
* **Jenkins races.**  Stage builds of one patch re-use each other's artifacts,
  the gate waits for builds that may wait for it, the tester watches builds that
  move between two lists of Jenkins while it looks.

### What makes each part correct

| Part | Correct when |
|---|---|
| Change queue | no change is lost, doubled or overtaken; only what passes together passes; only culprits, and what depends on them, are turned away; requirements go first; every change is judged in the end |
| Queue and tester jobs | failing builds change nothing but what people were already told; nobody is left untold; reports agree and name the right test; the jobs do not stall |
| Mirror manager | a published snapshot keeps its packages while it is fresh, the latest or pinned; updates upstream are published and listed in the end |
| Mirror client | a repository that the mirrors name is used from there, from the first document that names it |
| STDCI DSL | the jobs are the environments the configuration describes, once each, with the options written for them; secrets stay with the container that needs them |
| Upstream sources | a script finds the files of its commit and its sources; changed files are found; updates never go backwards |
| Pusher | every update reaches Gerrit; what must be reviewed is |
| Docker clean-up | white-listed images and their ancestors stay, everything else goes |
| Secrets, environment | a script has the variables requested, from the secrets meant for it |
| Parent images | one answer of the registry for each tag accounts for all Dockerfiles; an update that ends well has written them all, as a whole |
| STDCI runner | a job that cannot be prepared fails and does not run |
| Stage, gate, deploy pipelines | artifacts are re-used only of a build of the same patch that succeeded; the gate ends |
| Other helpers, scripts, job definitions | lookups and I/O, without state of their own |

## 2. What is modelled

An arrow points from a module to those that use it.

```
ChangeGate --> ChangeQueue --> MCChangeQueue
Sections --/              \--> ChangeQueueProofs
Sections, Dependants, Picks --> QueueMethods
QueueMethods --> ChangeQueueStack --> MCChangeQueueStack
                                 \--> ChangeQueueStackProofs
QueueMethods, ChangeQueueStack (as InMemory) --> ChangeQueueJobs
ChangeQueueJobs --> MCChangeQueueJobs
               \--> ChangeQueueJobsProofs
Dependants --> FindDependants --> MCFindDependants
                             \--> ChangeQueueStackProofs
QueueMethods, Lemmas --> QueueMethodsProofs --> ChangeQueueStackProofs, ChangeQueueJobsProofs

Mirrors --> MCMirrors
       \--> MirrorsProofs
Vectors --> NestedConfig --> DslThreads --> MCDslThreads
Vectors --> DslOptions --> DslPods --> DslThreads
UpstreamSources --> Updater --> MCUpdater
                           \--> UpdaterProofs
DockerCleanup, SourceFiles, MirrorClient, ScriptEnv, ParentImages --> SlaveJob --> MCSlaveJob
                                                                          \--> SlaveJobProofs
```

`Maps` is `dict.update` and `pop` on functions.  `Lemmas` holds what the proofs keep
needing of sequences, folds, sections and picked elements, and is extended by the
proof modules.

### `Sections`, `ChangeQueue`: the bisecting queue (class `ChangeQueue`)

| Model | Code |
|---|---|
| `state` | `_state`, a deque of deques: the sections of the queue |
| `test_key`, `keys` | `_test_key`; `uuid4()` is a counter, which like it never repeats |
| `Add`, `GetNextTest`, `OnTestSuccess`, `OnTestFailure` | the methods, each whole |
| `Sections!AfterFailure`, `Culprits` | what `on_test_failure` leaves in the deque, and returns |
| `handed`, `added`, `passed`, `failed` | history: what the methods returned so far |

Every list ever handed out may be reported on at any time, any number of times
(`Next`), with any verdict; `TruthfulNext` restricts the verdicts to those that
are true.  What the tests say is a constant: `Broken`, the sets of changes that
fail.  It is only assumed that a failing set has no cut into two passing ones.
That covers tests that find a bad change wherever it is, and also tests that see
just the latest change of each stream, so that a fix hides what it fixes.

`ChangeGate` is the abstract specification: a first-come list of pending changes,
of which a run from the front passes together, or the next one is turned away.
`ImplementsGate` maps the sections of the queue, put together, to its list.

### `Dependants`, `FindDependants`: the search for dependants

`Dependants!DependantsOn` is the reference definition of `_find_dependants_on`:
the least set of ids closed under "requires one of".  `FindDependants` is its
loop, one turn at a time: `depmap` is the `defaultdict` of the code, an entry of
which is taken out (`pop`) when its id is searched; the ids of a Python set enter
the work-list in any order.  The other modules use the reference definition.

### `QueueMethods`, `ChangeQueueStack`: dependencies and streams

`QueueMethods` has the methods of `ChangeQueueWithDeps` and
`ChangeQueueWithStreams` as operators from an object to the object they leave and
the lists they return; a queue is a record of its attributes.

| Model | Code |
|---|---|
| `Added`, `Place` | `add` and one turn of its loop over the change and those that awaited it |
| `RemoveAwaiting`, `AwaitingWithIds` | `_remove_awaiting_deps_by_ids`, its effect and its result |
| `WithoutDependantsOn`, `DepsFailure` | `_remove_deps_by_ids`, `ChangeQueueWithDeps.on_test_failure` |
| `OnSuccess` | `ChangeQueueWithStreams.on_test_success`, with the method it replaces on the instance while the superclass runs |
| `BlameFirstInStream` | `_get_cause_from_stream` |

`ChangeQueueStack` calls them in any order, as `ChangeQueue` does, and keeps the
history.  With no requirements and no streams it has exactly the 326501 reachable
states of the instance of `ChangeQueue` that is checked.

The code identifies a requirement by an id; the same id may be submitted more
than once (a new patch set, a repeated event), and a change whose requirement has
been tested before it arrives waits for it to be submitted again.  Both happen
in the model.

### `ChangeQueueJobs`: the queue in Jenkins

| Model | Code |
|---|---|
| `artifact` | `JenkinsChangeQueue.dat` of the last successful queue build |
| `requests` | queued builds of the queue job; requests with equal parameters are one, as in Jenkins |
| `build` | the queue build that runs: what its action made, and the reports still to send |
| `StartBuild`, `Act` | `load_queue_state` and `act_on_job_params` with the method it calls |
| `Report` | one e-mail of `_post_test_report` or of an addition or rejection |
| `SaveAndTrigger` | the object is written; the tester is triggered without waiting |
| `EndBuild`, `FailBuild` | the build succeeds, and its artifact counts; or it fails anywhere before |
| `StartTester`, `TestEnds`, `TesterDies` | `change-queue-tester.groovy` |
| `mails`, `committed`, `stray` | history: reports sent, results of the builds that succeeded, whether a build failed since the last trigger |

A tester waits for the queue build that runs if it is the one with its
parameters (`TesterWaitsFor`).  Keys made by a build that fails are seen by
nobody, so their numbers are used again.

`ImplementsInMemory` maps `artifact` and `committed` to the variables of
`ChangeQueueStack`: builds that fail, reports repeated, requests folded into one
and keys lost amount to a queue in memory that is called in some order.

### `Mirrors`: `scripts/mirror_mgr.sh`

One mirror, its directory `base` with the packages and the index of the
repository, and its snapshots, which are copies of the index.  The actions are
the commands of `resync_yum_mirror` in their order: the check, `repoquery` over
the snapshots to keep, the list of what to remove, each `rm`, `reposync` package
by package, `createrepo`, `mkdir` and `cp` of the snapshot, and the two steps in
which the shell writes `latest.txt`.  A build may end after any of them
(`Crash`); snapshots age (`Age`), slaves are configured with one (`Pin`), and the
index job lists the latest (`ReadLatest`, `WriteLists`).  External: the packages
upstream (`ChangeUpstream`) and a client (`UseListed`, `Finish`).

Abstractions, each on the side of the code: snapshots are numbered in the order
of the time in their name, so no two are made in one minute; `MAX_AGE` days are
long against a sync, so ageing happens between syncs; `grep -v -f` with an empty
pattern removes all lines or none (both are taken).

A `repomd.xml` names files of metadata in `base/repodata`.  `createrepo` runs with
`--retain-old-md=100` and deletes those of older indexes, whatever snapshots still
name them.  Syncs are eight hours apart, so 42 of them take the 14 days that a
snapshot is fresh, and its metadata outlives these.  `since` counts the indexes that
are made after it has aged: `MdKept` of them, at least 58 in the code, leave its
metadata there (`Retained`), and `repoquery` fails for it afterwards.

### `Vectors`, `NestedConfig`, `DslOptions`, `DslPods`, `DslThreads`: the STDCI DSL

`DslThreads` is `get_threads_with_globals`: one configuration (`config`), a project
(the paths it has), the files a patch changes, and a ranking (`hash`) that stands
for the hashes of Python.

| Model | Code |
|---|---|
| `Walk`, `Dfs`, `WellFormed` | `gen_vectors` and `_dfs` of `nested_config.py` |
| `Aggregate`, `Round`, `Multiplied`, `Deduped` | one turn of the loop of `_aggregate`; `_cartesian_multiplication`; `_dedup` |
| `MergeVectors`, `MergedOptions` | `_merge_vectors`, `_merge_options_wrapper` |
| `ApplyGlobals`, `NextThread`, `Format` | the chain of generators, which pulls one thread after the other to the formatter |
| `WithDefaults`, `Resolve...`, `Requirements`, `TimeoutSeconds`, `Conditions` | `options/defaults`, `options/normalize.py` |
| `Containers`, `PodSpecs` | `options/containers.py`, `options/podspecs.py` |

A template is the name of a file and the categories its path holds; a project has
or lacks the paths.  `Described` is the reference definition of what a
configuration says: it knows no vectors, passes or hashes.

### `UpstreamSources`, `Updater`: updates of upstream sources

`UpstreamSources` has the entries of `upstream_sources.yaml` and what `usrc.py
update` makes of them, `Updater` the jobs that run it.

| Model | Code |
|---|---|
| `Updated`, `TaggedCommit`, `Greatest`, `CommitCmp` | `GitUpstreamSource.updated`, the `tagged` policy, `max` by `_commit_cmp` |
| `SetEntries`, `Modify` | `modify-entries` |
| `Clone`, `UpdateNext`, `Commit`, `Fail` | a job: checkout, one entry after the other, the commit with its headers, any failure |
| `Check`, `Push` | `push --if-not-exists --unless-hash`, in two steps: the query and the push |
| `StartCheck`, `Submit` | `can_merge` when check-patch starts, the vote when it ends |
| `Review`, `Mergeable`, `Merged`, `MergedEntry` | external: reviewers, and Gerrit, which merges line by line; each field of an entry is a line |

A patch that changes an entry's commit therefore merges over a branch where the
entry was marked `never` meanwhile; Gerrit may also refuse what changed nearby.
The checksum of a configuration is the configuration.  A group of Gerrit that is
unknown has no members.

### `SlaveJob` and the modules it is made of: a job on a node

`SlaveJob` runs the jobs of a node one after the other, in the order of
`run_std_ci_on_node` (a pod: of `decorate.py`).

| Model | Code |
|---|---|
| `Start`, `GetSource`, `GetFails`, `Reset` | checkout, `usrc.py get` source by source, `git reset --hard` |
| `Setup`, `Clean`, `Cleaned` | `project_setup.sh`: `DockerCleanup`'s actions, the secrets, and for a poll job the update and the second `get` of all sources; an update or a `get` that fails marks the job and lets it go on |
| `Inject`, `NoInjection` | `inject_ci_mirrors`, whose failure `mock_runner.sh` does not look at; `decorate.py inject_mirrors`, whose failure ends a pod |
| `InitChroot`, `Shell`, `ReadByMock` | `mock --init` and `mock --shell`, each of which reads the configuration with the lines of `gen_mirrors_conf`: it asks for mirrors again and ends without them |
| `Environ` | `gen_environ_conf` |
| `Run`, `RunUpdate`, `UpdateImages`, `UpdateEnds` | the script, which in a poll job may be `parent-image-update` |
| `End` | the next job finds the caches, images, containers and volumes this one left |

* `SourceFiles`: `git checkout` out of a cache repository into a project's work
  tree.  What git removes is what the index of the cache has and the commit has
  not (`FilesHandler`); the index outlives the job.  `ModifiedFiles` is
  `changed-files --resolve-links`, which ends in a `RecursionError` when links lead
  to a changed path endlessly.
* `DockerCleanup`: containers, then images by rounds, then volumes.  Docker is
  external: it refuses to remove an image with children or perhaps one in use,
  and removes untagged ancestors nothing else needs along with an image.
* `MirrorClient`: a document of mirrors is a record of its repositories,
  `before:` keys and includes.  A server may answer each attempt differently;
  Python's stack is the depth of includes.  A job holds what it made of the
  configuration beside its script (`config`) and of mock's (`mock`), each with the
  answers it got (`web`, `mockWeb`).
* `ScriptEnv`: which secrets a project keeps, and what each request is served.  The
  four variables about the job itself that `gen_ci_env_info_conf` always adds
  (`mock_runner.sh:547-562`) are left out.
* `ParentImages`: `update` holds the state of one `parent-image-update`.  The
  registry may move before each look and each write.  A file is cut off when it is
  written, its new text waits in a buffer (`unsaved`) and reaches the disk when it
  is closed, after the report; each write and each closing may fail with `Cuts` of
  the instructions written, and the script may be killed (`Killed`).

## 3. Runs

Each property of a passing run was seen to fail under a plausible slip in the
code it is about; the slips are the definitions `Mut...` next to what they change.

| Run | Shows | Instance |
|---|---|---|
| `queue_any_verdict` | a key always stands for the section under test; no change is lost, doubled, overtaken; sections in use are never empty; every change is judged | 5 changes, verdicts of any kind; 326501 states |
| `queue_truthful` | batches that pass are sound, blamed changes fail alone, also those blamed without a test; the queue implements `ChangeGate` | 5 changes, two bad, one of which a third one fixes |
| `find_dependants` | the work-list ends and finds the least closed set | all 512 graphs on three ids, all parts of each, each starting id |
| `stack_any_verdict` | requirements first; who waits has a reason; culprits take their dependants; only loops are rejected; the first culprit of a stream is blamed | 6 changes of 4 ids, a chain of three, two loops, two ids submitted twice, two streams; 12160 states |
| `jobs_any_verdict` | the saved queue is a queue in memory; nobody untold; testers test the first section; the jobs stall only after a failure, and else every change is reported | 3 changes, 2 failures; 196104 states |
| `jobs_truthful` | bisection stays sound when dependants are taken out; reports of one change agree and name a test with that outcome | 4 changes, a chain of three, 2 failures; 164205 states |
| `mirrors` | fresh snapshots keep their metadata and packages, the latest and the pinned one too, and when the old ones of these lose them; updates are published and listed | 3 packages, one the next version of another, 3 snapshots, 2 changes upstream, 1 crash; 2326959 states |
| `mirrors_failed_query` | violation, see below | one failed `repoquery` |
| `dsl_threads` | threads are the environments described, with their options; jobs do not share an environment and agree on global options; secrets stay with the checkout | 19 configurations, 6 rankings of hashes, 2 projects, 3 changes |
| `dsl_options` | violation, see below | the same |
| `updater` | what must be reviewed is; tags are followed forward; every update reaches Gerrit | 2 jobs, 2 upstreams, 4 commits on two lines that part and meet, 2 events; 174077 states |
| `slave` | Docker is cleaned of exactly what need not stay; scripts see the files of their commit; changed files are found; mirrored repositories use mirrors; variables come from the right secrets; one answer for each tag accounts for all Dockerfiles, wherever an update stops | 19 pairs of commits, 3 kinds of jobs, one after the other without end; 1103504 states |

Why these bounds.  Five changes split unevenly (2 and 3, then 1 and 2), so both
halves of both parities occur, with a section waiting behind.  In the stack four
ids give a chain with a middle, loops that close early and late, and an id
submitted again when its first change waits, is queued, was rejected or was
judged.  Two failures let a build that repeats a failed one fail as well, or a
tester die while its report is lost.  Three snapshots are one that is latest, one
that is pinned and one being made.  With `MdKept` 0 an aged
snapshot loses its metadata to the next index, so that a clean-up meets it without
(in `mirrors_failed_query` it is 58, and no metadata is lost).
The configurations of the DSL have options at
two depths and in up to three sections that apply to one environment, sections
that contradict each other and ones that do not; the rankings put each category
first, with an unset one least and greatest.  In the updater `MaxEvents` bounds
what comes from outside (commits, tags, failures, modified entries, the overlap of
two jobs), the marking of an entry as `never` while its patch is under way among
it; `MaxPatches` never binds: with 5 the states are the same.  `slave` has
no bound: a node's state repeats.  Its Docker has a kept image on an untagged one
that another needs, its sources a link, a filter that matches nothing and two
entries of one URL, its files links that lead to each other, changed by one patch
and left alone by another, its mirrors includes of both kinds and a server that
answers garbage once, twice or always, mock's configuration a proxy, its Dockerfiles
one tag followed in two files, cut off before or after the fourth instruction.

`CHECK_DEADLOCK FALSE` is set where the system may stop: the jobs when no one
submits, the mirror when its bounds are used up, the DSL when all is formatted.

### Fairness

* `ChangeQueue!FairSpec`: `GetNextTest` and some verdict on the current key are
  weakly fair.  Every call of the queue job that leaves work triggers a tester,
  a tester asks and, through `try`/`catch` in the pipeline, always reports one of
  the two verdicts.  Nothing is assumed of what the verdict is.  `jobs_any_verdict`
  checks the same from the jobs themselves, where it is not assumed.
* `ChangeQueueJobs!Fairness`: Jenkins starts queued builds (some request is taken
  out while no build runs); builds and tests end.  Failures are not fair and
  bounded by `MaxFailures`.
* `Mirrors!Fairness`: the timer of the sync job and the trigger of the index job
  (`sync_mirrors.yaml`), and scripts that go on.  `UpdatesAreListed` excepts
  behaviours in which a build ended half-way (see below) or the bound on snapshots
  is reached.
* `Updater!Spec`: each job's own steps.  Jenkins starts poll jobs by a timer, and
  a job that runs goes on.  Gerrit and its reviewers are not fair.

### Where the code does something else than is said

* `mirrors_failed_query`: a `repoquery` that fails is passed over, and the packages
  only that snapshot names are removed (`mirror_mgr.sh:545`).
* `dsl_options`: options merge by the depth and categories of the vectors that
  carry them, which are not those of the section an option was written in, and
  with three sections that apply the order of hashes decides
  (`nested_config.py:183-230`).

### What else modelling showed

Behaviours that no doc speaks against, noted for who maintains the code.

* Queue: patch sets of one change share its Gerrit number, which is their id.
  When two of them are in the queue and builds fail, one change may be reported
  both failed and passed: failed as a dependant of what the other waits for, by
  a build that then fails, and passed after the other was rejected for a loop.
  `ReportsAgree` therefore speaks of changes with ids of their own
  (`DistinctIds`); the other properties hold of any ids.
* Queue: "added" is reported before the queue is saved; if the build fails in
  between the change is not in the queue (`change_queue/__init__.py:507`).
* Mirrors: a sync that ends between download and snapshot leaves a mirror that
  later syncs find up to date, so nothing is published until upstream changes
  again (`mirror_mgr.sh:90`).  The metadata of a snapshot that slaves are pinned to is
  deleted when `createrepo` has made 100 newer indexes (39, 282); its `repoquery`
  then fails and is passed over, so the clean-up, whose comment has it keep what
  the hardcoded snapshots reference (433-437), removes its packages.  `PinnedIsWhole`
  therefore ends with the metadata.  With two overlapping syncs of one mirror, which
  `concurrent: true` permits, one can remove what the other has just published
  (`Builds` with two members violates `UsedSnapshotStaysWhole`).  An index job that
  reads `latest.txt` between its truncation and its write lists the URL of `base`
  until the next index job.
* Updates: an entry that a review marks `never` while an update of it is on the way
  is updated all the same, since Gerrit merges both; `NeverSourcesWaitForReview`
  speaks of entries that were marked when the update was made.
* Updates: any patch with the checksum keeps an update from being pushed, also one
  that was abandoned or conflicts, hence the weak form of `UpdatesReachGerrit`.
  Two jobs may both find none and push twice.  Between tags on different lines of
  history `_commit_cmp` is no order, so which one is taken depends on the order
  tags are listed in.
* Sources: two sources of one URL share a cache index, so fetching one may remove
  files of the other from the work tree; a filter that matches no file takes all.
  `ScriptSeesItsCommit` speaks of other commits (`Plain`) where the files of
  sources are concerned; that the project's own files are right holds of all.
* Sources: `get_links_to_file` does not know where it has been, so a patch that
  changes a link on a circle of links ends in a `RecursionError` and `changed-files`
  lists nothing (`usrc.py:1233`); `ChangedFilesAreFound` states just when.
* Jobs: if a poll job updates its sources but cannot fetch them, its script runs
  all the same and the update is pushed (`stdci_project.groovy:260-266`).
* Jobs: when the first fetch of mirrors fails, the yum configuration beside the
  script stays as the project has it, and the job goes on (`mock_runner.sh:646`,
  793); mock's own configuration has mirrors or ends the job, and they may be others
  than the script's.
* Mirrors of a job: `gen_mirrors_conf` passes the value for "no proxy" where
  `inject_yum_mirrors_str` takes `allow_proxy` (`mock_runner.sh:486`), so that mock,
  configured with a proxy, asks mirrors through it (`ReadByMock`); no property speaks
  of proxies.
* Mirrors of a job: a repository that is inserted before another and that the
  configuration has too gets its old places back when its turn comes
  (`mirror_client.py:82`); `MirroredReposUseMirrors` leaves these out.
* Secrets: the first secret that matches is taken, and one that lacks the key
  fails the job although the request has a default (`ci_env_client.py:100-105`).
* Parent images: an update that fails while writing or closing leaves some
  Dockerfiles new, some old and some cut off, and those not yet closed may be empty
  although the report was printed (`dockerfile_utils.py:500-507`).
* Parent images: of a registry with a port only its name is left
  (`dockerfile_utils.py:426`); `WithPort` names such registries, and images are
  compared as they are written.

`FreshSnapshotsAreWhole` and `LatestIsWhole` have exceptions, each of them needed:
snapshots made without a sync for want of a `latest.txt` (`rescued`) copy an index
that an earlier, interrupted clean-up may have overtaken; and after `MAX_AGE` days
without a new snapshot, a directory whose making was interrupted counts as the
most recent snapshot in place of the one `latest.txt` names, or the syncs since have
all ended between `createrepo` and their snapshot and used up its metadata.

## 4. Proofs

TLAPS checks the theorems below.  They hold for every value of the constants
that the named assumptions allow, so for any number of changes, ids, streams,
failures, tags, packages and snapshots.

| Module | Theorems | Say |
|---|---|---|
| `ChangeQueueProofs` | `TypeCorrect`, `SectionsAreInUse`, `KeysNameFirstSection` | type correctness; no empty section in use; a key stands for what it was handed out with |
| | `ChangesAreJudgedInOrder` | nothing is lost, doubled or overtaken, whatever the verdicts |
| | `SuspectsReallyFail`, `PassedBatchesAreSound`, `BlamedChangesAreCulprits` | with truthful tests, bisection is sound |
| | `QueueIsGate` | with truthful tests, the queue implements `ChangeGate` |
| `ChangeQueueStackProofs` | `SearchFindsDependants` | the work-list finds the least closed set, in any finite graph |
| `ChangeQueueStackProofs` | `RequirementsComeFirst`, `WaitingHasReason`, `DependantsGoAlong`, `LoopsAreRejected`, `FirstInStreamIsBlamed` | the five properties of the queue with dependencies and streams |
| `ChangeQueueJobsProofs` | `JobsRestOnlyWhenDone` | the jobs come to rest with work left only after a failure |
| | `NoChangeIsLost`, `TestedIsFirstSection` | nobody leaves the saved queue untold; a tester with the saved key tests the saved first section |
| | `JobsImplementMemory` | the jobs implement `ChangeQueueStack` |
| | `ReportsTellTheTruth` | with truthful tests, so are the reports |
| | `ReportsAgreeAlways` | with truthful tests and an id for each change, a verdict reported twice is reported alike |
| `MirrorsProofs` | `CleanUpSparesFreshSnapshots`, `LatestStaysWhole`, `PinnedStaysWhole` | fresh snapshots stay whole, the latest with the exceptions stated, a pinned one at any age as long as its metadata is retained; if syncs do not overlap and `repoquery` works |
| `UpdaterProofs` | `TagsGoForward`, `NeverSourcesAreSeen` | tags are followed forward only; no vote of a job merges an update of a source that was marked `never` when it was made |
| `SlaveJobProofs` | `CleanupIsExactAlways` | Docker is cleaned of exactly what need not stay |
| | `ScriptSeesItsCommitAlways` | a script finds the files of its commit and of its sources |
| | `ChangedFilesAreFoundAlways` | `changed-files` fails exactly if a changed link is on a circle, and else finds every path under which something else is read |
| | `ScriptHasItsVariablesAlways` | of the variables requested a script has those that can be had, from the secrets meant for it |
| | `ParentImagesAgreeAlways` | one answer for each tag accounts for all Dockerfiles, wherever an update stops |

**The queue** (`ChangeQueueProofs`).  `Inv` joins the type invariant,
`SectionsInUse` and `KeyNamesFirstSection`.  The three need each other: a section
under test keeps its place because additions go to another one, which is so
because there are two sections while there is a key; and a new key is new because
no test has a larger one.

Order is a second invariant (`InOrder`): `added` is some list of what was
returned, followed by the sections.  The two histories do not say in which order
batches passed and changes failed, so the part of `added` that is judged is a
variable of its own in the invariant (quantified), to which each call appends the
changes it takes from the front.

Soundness is a third (`Sound`) over `TruthfulSpec`.  Its heart is `SuspectsFail`:
when a failed section is split, the halves make up the section, so they fail
together; when the first half passes, subadditivity of `Broken` puts the failure
in the second, which is split in turn or blamed.

The refinement of `ChangeGate` goes action by action: additions append to the
flattened sections, splits leave them alone, a success takes the first section off
the front, and one that blames the next section without a test takes one change
more, which `ChangeGate!Judge` allows in one step.

**Sequences** (`Lemmas`).  `AfterFailure` flattens sections with a fold of the
community modules, and dependants are picked out of lists.  What is needed of
folds (type, single section, append, concatenation) is proved by taking the least
counterexample in the well-founded order of `Nat`, for the induction theorems of
the library cannot be instantiated with an operator.  Of a list of picked elements
it is shown that there is an increasing map from its places to the places picked
(`PickedPlaces`), which is all that later proofs use.

**The search for dependants.**  `IInv` says that what was found is in every closed
set, that an entry of `depmap` is taken out only when all it leads to is found,
and that an id found and not yet expanded is on the work-list.  With an empty
work-list what was found is closed, hence least.  That it ends is checked by TLC.

**The methods** (`QueueMethodsProofs`).  What each method does to a well-formed
queue (`IsQueue`, `Shaped`), whoever calls it: the members of the queue before and
after, who was added and who waits, that the loop of `add` is a function with one
value per turn (`PlacesExist`), that `on_test_failure` leaves no dependant behind,
that a change stays in the queue once (`Once`) and what exactly a verdict takes out.
Both the queue in memory and the one in artifacts are proved from these.

**The queue in memory** (`ChangeQueueStackProofs`).  The five properties are proved
together, as one inductive invariant, because the loop of `add` needs them of the
queue it starts from: that requirements come first among those that wait is why
one pass places all that can be placed, and that a change waits only for ids that
are not in the queue is why a culprit's dependants are found among those that
wait.  `Sound` also
says that what a waiting change no longer misses is in the queue or has passed,
and that the requirements of what is queued are in front of it or have passed.
The blame is an invariant over the verdicts so far; a
verdict appends to them the passed, then a culprit, then its dependants, and
`FirstCulprit` of the longer list is worked out from that of the shorter.

**The jobs** (`ChangeQueueJobsProofs`).  `IInv` ties a running build to the object
it loaded (`BuildActs`), a tester to its request (`TesterAsks`), a build that is
about to end to the trigger it has made (`Triggered`), and says what keeps a queue
with work awake (`KeptAwake`): a tester queued or at work, a request that will
trigger one, or a build that is still to do so.

`SavedInv` follows an action from the artifact it loaded to the artifact it leaves:
whatever its action has to tell is still to be told by the build or was told
(`BuildTells`), so its object can be saved.  Every request, and every test a
tester holds, is one that a build that succeeded handed out (`IsRequest`,
`TesterHasTest`), and the test with the saved key has the list that is first in
the saved queue (`TestsAreCurrent`).  A key of a build that failed is made again,
which is harmless just because of that.

For the refinement each build that succeeds is one call of a method on the
artifact it loaded, which no other build has changed since, and every other step
leaves artifact and history alone (`NextInMemory`).  With it the five properties of
the queue in memory hold of the saved queue.  This last step is the usual
inference from a refinement and is not itself a theorem: the prover cannot cite
theorems of a module that is instantiated.

`TruthInv` says that while a failed section is searched its two first parts fail
together and `last_failed` names a list that fails (`Narrows`), that a request to
report tells the truth of the list it names, and that reports sent and still to be
sent are true.  It takes `SavedInv` to know that a verdict whose key matches is
about the first section of the artifact.

A verdict is reported twice if the build that reported it fails before it saves.
`AgreeInv` says that nothing else can come of it: every report on a change that is
still in the saved queue is the one the test of the first section is due to bring
(`Due`), which the saved queue and `Broken` determine, and a verdict that is saved
takes exactly the changes out of which something was due (`ExactlyJudges`).  What is
due of a change must outlive additions, which may reject some that wait while a
verdict is reported and lost: those that go are required by none that stays
(`StaysFree`), so the dependants found later are the same.  That takes that the id
of no change in the queue is that of one that has left it (`Gone`), and two patch
sets of one change are where it fails.

**The mirror.**  `IInv` carries what the clean-up worked out to the moment it acts
on it: what it will remove is named by no fresh snapshot (`CleanUpSpares`), and the
index that a sync is about to copy names only packages that are there
(`IndexIsTrue`).  `NamedInv` does the same for the snapshots that are kept at any
age: it adds which snapshots these are while the list of old ones is worked off
(`CleanUpKeeps`) and what a snapshot that is being made already has (`Making`).
`MetadataIsKept` says that no index has used up metadata of a fresh snapshot, since
only what is left over when a snapshot has aged can be used up.
The two premises of the theorems, one build and no failed `repoquery`, are the two
ways in which runs show the properties to fail.

**The updates.**  For each job the invariant says that what it has changed since it
cloned was told to the push (`Tells`), and that an entry of a tagged source is as
it was cloned or at an eligible tag not before that (`Follows`).  For the second,
that upstreams only grow (`Grows`) is needed: what was eligible when it was read
is so ever after.  For each patch it says that one which asks to be merged without
a review updates no entry to one that is marked `never` (`Asks`).  Gerrit merges a patch line by line (`MergedIs`), so an entry that
comes out marked has its mark from the branch, and differs from the branch only if
the patch was made before the mark.

**The jobs of a node** (`SlaveJobProofs`).  All five theorems are of
`SlaveJob!Spec`, so of jobs of any kind in any number, one after the other, each on
what those before left.  `JobTyped` and a lemma per action (`...Goes`) say which
fields a job has and keeps.

* *Docker.*  The loop of `_exclude_whitelisted_parents` is a recursive function; that
  its last turn finds nothing (`ExcludedIs`) needs that each turn before took
  something out of a finite map, and then what it took is the least set that has
  the white-listed images and is closed under parents.  The map that the rounds
  work off is then the complement of `Kept` (`MapIs`).  `Removing` says that
  every image there that is not kept is in the map, under which all images built on
  it are noted, and that one in the current round has no child left; so Docker can
  refuse only because of a container.
* *Parent images.*  `UpdateInv` says that each file is as it was given, or cut off
  and in a buffer, or the beginning of what it is to be (`FilesAre`, `Cut`); that
  buffers hold such beginnings, whole ones unless something failed (`BufferIs`); that
  an image found for a tag is one that some registry seen since the start gave
  (`Known`, `Learnt`), one for all files; that what is reported is what is new
  (`ReportIs`), and that an update that has not failed has written, or still
  holds, all it reported (`Complete`).
* *Work trees.*  What git removes from a tree is what the cache's index has beyond
  the commit, so the index must be known to cover what earlier jobs, or the first
  `get` of a poll job, brought into the tree.  `Traced` says that every file in
  the tree that is not the project's is one that some source has at the commit it
  was got at, and that the index of that source has this commit; `Amid` says what
  holds while some formats of a source are handled.  From the old commit
  of a source to its new one in a poll job the index is what links the two.  The
  theorem takes `Plain` sources, as the property does.
* *Changed files.*  Reading a path follows links forward, `get_links_to_file`
  follows them back; both are walks (`WalkOf`).  A link leads to one place, so links
  that lead to a path in more steps than there are links come from a circle that the
  path itself is on, and on a circle there is always one step more: the search is
  endless exactly then.  If it ends, the shortest walk to a place has been
  nowhere twice (`Straight`), so it is no longer than there are places to go on
  from (`WalkIsShort`), and the bounds of the model cut nothing off.  So
  what leads to a changed file is found (`LinksToHas`), and a path that is not found
  is walked from in the same way in both trees (`WalksAgree`).
* *Variables.*  `EnvInv` says that the secrets a job carries are those of its
  project and branch, also after its commit was updated, and that its variables
  are what `Environment` made of them.  `EnvironmentIs` then works out, request by
  request, what the choice of the first secret, the later request and the default
  amount to.

Assumptions: images are finitely many (`DockerAssumption`) and Docker keeps
what they rest on (`LeavingsAssumption`); a tree has finitely many files
(`FilesAssumption`); sources name one of the URLs, and formats are the keys of a
dict (`SourcesAssumption`); an update changes the commits of sources and the file
that lists them (`UpdatedAssumption`); sequences are sequences
(`RequestsAssumption`, `SecretsAssumption`, `DockerfilesAssumption`), and files are
cut off after a number of instructions (`CutsAssumption`).

Only model-checked:

* liveness (`EveryChangeIsJudged`, `EveryChangeIsReported`, `Terminates`,
  `UpdatesAreListed`, `UpdatesReachGerrit`) and `ENABLED`, which are out of the
  prover's reach;
* `ThreadsAreMaximal`, `OptionsApply`, `OneJobPerEnvironment`, `JobsAgreeOnGlobals`
  and `SecretsStayWithCheckout` of the DSL, whose modules declare or reach
  `RECURSIVE` operators, for which the prover has no SMT backend;
* `MirroredReposUseMirrors`, which says what folds over includes and sections compute
  for every input: an induction over data.

## 5. What is not modelled

Left out for good:

* the text of reports and status pages, SMTP, git, docker and skopeo commands, YAML,
  the rendering of templates, single lookups on other servers, and the
  configuration of Jenkins other than which jobs may overlap;
* the stage pipeline's re-use of older builds' artifacts, the gate's and the
  deployer's waiting, and the tester's wait for artifacts: what they see is the
  state of Jenkins' and Zuul's lists of builds, whose rules are not in this code;
* the watch of the tester on the builds it waits for, which may miss one that moves
  from Jenkins' queue to its list of builds meanwhile
  (`change-queue-tester.groovy:224`): how long Jenkins remembers is not in this code;
* the parallel threads of the runner, which share nothing but a map of reports,
  and the statuses they report;
* mock, and the shell scripts that set up a node: what they do is done to its
  operating system.
