------------------------------ MODULE SlaveJob ------------------------------
(***************************************************************************)
(* The jobs of a node, one after the other (run_std_ci_on_node in           *)
(* pipelines/libs/stdci_runner.groovy): the project and its upstream        *)
(* sources, the clean-up of what jobs before left, the update of the        *)
(* sources in a poll job, mirrors, environment variables, the script, which *)
(* may update the parent images of the project's Dockerfiles.  A workload   *)
(* in a pod is prepared by stdci_tools/decorate.py, with no cache, nothing  *)
(* to clean and no secrets.                                                 *)
(***************************************************************************)
EXTENDS DockerCleanup, SourceFiles, MirrorClient, ScriptEnv, ParentImages

CONSTANTS Urls,       \* of upstreams
          Patches,    \* a set of <<commit before, commit>>; a commit has sources, files,
                      \* project, branch, requests, dockerfiles, order (of those it
                      \* updates) and uris (where its jobs look for mirrors)
          Updated,    \* from commits to what a poll job makes of them
          Webs,       \* what the mirror servers and files may answer
          Runtimes,   \* environments of jobs
          Config,     \* the yum configuration beside a project's script
          MockConfig, \* that of mock, which installs the packages a script needs
          Leavings    \* a set of [images, tags, containers]

\* Docker keeps what an image rests on as long as the image is there.
ASSUME LeavingsAssumption ==
  \A l \in Leavings : l.images \subseteq Images /\ WithAncestors(l.images)

Commits == {patch[2] : patch \in Patches} \cup {Updated[c] : c \in DOMAIN Updated}

\* Formats are the keys of a dict (dest_formats), and known.
ASSUME SourcesAssumption ==
  \A c \in Commits :
    /\ c.sources \in Seq(ToSet(c.sources))
    /\ \A s \in ToSet(c.sources) :
         /\ s.url \in Urls /\ s.formats \in Seq(ToSet(s.formats))
         /\ \A f \in ToSet(s.formats) : f.name \in {"files", "branch", "source_repos"}
         /\ \A i, k \in DOMAIN s.formats : s.formats[i].name = s.formats[k].name => i = k

\* An update gives the sources of a project other commits, and changes no
\* file but the one that says so.
ASSUME UpdatedAssumption ==
  \A c \in DOMAIN Updated :
    /\ Updated[c].project = c.project /\ Updated[c].branch = c.branch
    /\ DOMAIN Updated[c].files = DOMAIN c.files
    /\ DOMAIN Updated[c].sources = DOMAIN c.sources
    /\ \A i \in DOMAIN c.sources :
         LET old == c.sources[i]  new == Updated[c].sources[i]
         IN new.url = old.url /\ new.dir = old.dir /\ new.formats = old.formats

ASSUME RequestsAssumption == \A c \in Commits : c.requests \in Seq(ToSet(c.requests))

\* A tree has finitely many files.
ASSUME FilesAssumption ==
  \A patch \in Patches : \A i \in {1, 2} : IsFiniteSet(DOMAIN AllFiles(patch[i]))

\* A FROM has an image; a script names a Dockerfile once.
ASSUME DockerfilesAssumption ==
  \A c \in Commits :
    /\ c.order \in Seq(ToSet(c.order))
    /\ \A i, k \in DOMAIN c.order : c.order[i] = c.order[k] => i = k
    /\ \A f \in DOMAIN c.dockerfiles :
         /\ c.dockerfiles[f] \in Seq(ToSet(c.dockerfiles[f]))
         /\ \A i \in DOMAIN c.dockerfiles[f] :
              c.dockerfiles[f][i].kind = "FROM" => "image" \in DOMAIN c.dockerfiles[f][i]

VARIABLES job,        \* [step, kind, commit, old, todo, failed, changed, secrets, uri,
                      \* web, config, mockWeb, mock, runtime, env]
          at,         \* [tree, indexes, pushed]
          cache       \* the indexes of the node's cache repositories
vars == <<dockerVars, imageVars, job, at, cache>>

NoIndexes == [u \in Urls |-> NoFiles]
NoWork == [tree |-> NoFiles, indexes |-> NoIndexes, pushed |-> {}]
NoJob == [step |-> "idle"]

Init == DockerInit /\ ImagesInit /\ job = NoJob /\ at = NoWork /\ cache = NoIndexes
-----------------------------------------------------------------------------
Ended(failed) == [step |-> "end", kind |-> job.kind, failed |-> failed]
Becomes(j) == job' = j /\ UNCHANGED <<dockerVars, imageVars, at, cache>>

\* checkout_project, clone_source_code in a pod: the work tree is the
\* project's alone.
Start(kind) ==
  /\ job.step = "idle"
  /\ \E patch \in Patches :
       LET commit == patch[2]
       IN /\ job' = [step |-> "get", kind |-> kind, commit |-> commit, todo |-> commit.sources,
                     failed |-> FALSE, changed |-> ModifiedFiles(commit, patch[1]),
                     old |-> patch[1]]
          /\ at' = [NoWork EXCEPT !.tree = commit.files,
                                  !.indexes = IF kind = "pod" THEN @ ELSE cache]
  /\ UNCHANGED <<dockerVars, imageVars, cache>>

\* One source of get_upstream_sources.
GetSource ==
  /\ job.step \in {"get", "get again"} /\ job.todo # <<>>
  /\ at' = Formatted(at, Head(job.todo))
  /\ job' = [job EXCEPT !.todo = Tail(@)]
  /\ UNCHANGED <<dockerVars, imageVars, cache>>

\* An upstream cannot be reached.  That ends the job, but for a poll job that
\* has updated its sources: it is marked as failed and goes on.
GetFails ==
  /\ job.step \in {"get", "get again"} /\ job.todo # <<>>
  /\ Becomes(IF job.step = "get" THEN Ended(TRUE)
             ELSE Without([job EXCEPT !.step = "mirrors", !.failed = TRUE], {"todo"}))

Reset ==
  /\ job.step \in {"get", "get again"} /\ job.todo = <<>>
  /\ at' = ResetHard(at, job.commit)
  /\ job' = Without([job EXCEPT !.step = IF @ = "get again" \/ job.kind = "pod" THEN "mirrors" ELSE "setup"],
                    {"old", "changed", "todo"})
  /\ UNCHANGED <<dockerVars, imageVars, cache>>

\* project_setup.sh
Setup ==
  /\ job.step = "setup" /\ StartCleanup
  /\ job' = [job EXCEPT !.step = "clean"]
  /\ UNCHANGED <<imageVars, at, cache>>
Clean == job.step = "clean" /\ CleanupNext /\ UNCHANGED <<imageVars, job, at, cache>>

\* What usrc.py update makes of a commit.
Update(commit) == IF commit \in DOMAIN Updated THEN Updated[commit] ELSE commit

\* The rest of project_setup.sh.  However it ends the job goes on.  A poll job
\* updates its sources and gets them again, all of them; if the update fails it
\* is marked as failed and goes on with what it has.
Cleaned ==
  /\ job.step = "clean" /\ cleanup.step \in {"done", "failed", "corrupted"}
  /\ LET secrets == FilteredSecrets(SecretsFile, job.commit.project, job.commit.branch)
         ready == Over([secrets |-> secrets], [job EXCEPT !.step = "mirrors"])
     IN IF job.kind = "poll"
        THEN \/ job' = Over([todo |-> Update(job.commit).sources],
                            [ready EXCEPT !.step = "get again", !.commit = Update(@)])
             \/ job' = [ready EXCEPT !.failed = TRUE]
        ELSE job' = ready
  /\ cleanup' = NoCleanup
  /\ UNCHANGED <<images, containers, volumes, imageVars, at, cache>>

\* What follows the mirrors.
Prepared == IF job.kind = "pod" THEN "run" ELSE "chroot"
MirrorsAt(uri, web) == FromUri(uri, web, Cardinality(DOMAIN web))

\* inject_ci_mirrors, inject_mirrors in a pod: the configuration beside the
\* script.  A pod fails without mirrors; mock_runner.sh does not look at what
\* mirror_client.py returns, and goes on with the configuration as it is.
Inject ==
  /\ job.step = "mirrors"
  /\ \E web \in Webs, uri \in job.commit.uris :
       LET mirrors == MirrorsAt(uri, web)
           known == Over([uri |-> uri], [job EXCEPT !.step = Prepared])
       IN Becomes(IF ~Failed(mirrors)
                  THEN Over([web |-> web, config |-> InjectedConfig(mirrors, Config, FALSE)], known)
                  ELSE IF job.kind = "pod" THEN Ended(TRUE) ELSE Over([config |-> Config], known))

\* The job is told of no mirrors, or the project has no such configuration; a
\* pod then does not ask for mirrors at all.
NoInjection ==
  /\ job.step = "mirrors"
  /\ \/ Becomes([job EXCEPT !.step = Prepared])
     \/ job.kind # "pod" /\ \E uri \in job.commit.uris :
                               Becomes(Over([uri |-> uri], [job EXCEPT !.step = Prepared]))

\* gen_mirrors_conf: each time mock reads its configuration it asks for mirrors
\* on its own, and ends without them.  The value for no proxy is passed in the
\* place of allow_proxy.
ReadByMock(next) ==
  IF "uri" \notin DOMAIN job THEN Becomes([job EXCEPT !.step = next])
  ELSE \E web \in Webs :
         LET mirrors == MirrorsAt(job.uri, web)
         IN Becomes(IF Failed(mirrors) THEN Ended(TRUE)
                    ELSE Over([mockWeb |-> web, mock |-> InjectedConfig(mirrors, MockConfig, TRUE)],
                              [job EXCEPT !.step = next]))

\* init_chroot, where packages are installed; then mock --shell
InitChroot == job.step = "chroot" /\ ReadByMock("shell")
Shell == job.step = "shell" /\ ReadByMock("environ")

\* gen_environ_conf.  What the project requests must be there.
Environ ==
  /\ job.step = "environ"
  /\ \E runtime \in Runtimes :
       LET env == Environment(job.commit.requests, job.secrets, runtime)
       IN Becomes(IF env = Invalid THEN Ended(TRUE)
                  ELSE Over([runtime |-> runtime, env |-> env], [job EXCEPT !.step = "run"]))

LeaveAll ==
  IF job.kind = "pod" THEN UNCHANGED dockerVars
  ELSE \E l \in Leavings : Leftovers(l.images, l.tags, l.containers)

\* The script.  That of a poll job may update the Dockerfiles of the project.
UpdatesImages == job.kind = "poll" /\ job.commit.order # <<>>
Run ==
  /\ job.step = "run" /\ ~UpdatesImages
  /\ job' = Ended(job.failed)
  /\ LeaveAll
  /\ UNCHANGED <<imageVars, at, cache>>
RunUpdate ==
  /\ job.step = "run" /\ UpdatesImages
  /\ StartUpdate(job.commit.dockerfiles, job.commit.order)
  /\ job' = [step |-> "script", kind |-> job.kind, failed |-> job.failed]
  /\ UNCHANGED <<dockerVars, at, cache>>
UpdateImages == job.step = "script" /\ UpdateNext /\ UNCHANGED <<dockerVars, job, at, cache>>
UpdateEnds ==
  /\ job.step = "script" /\ EndUpdate
  /\ job' = Ended(job.failed \/ update.step = "failed")
  /\ LeaveAll
  /\ UNCHANGED <<at, cache>>

End ==
  /\ job.step = "end"
  /\ job' = NoJob /\ at' = NoWork
  /\ cache' = IF job.kind = "pod" THEN cache ELSE at.indexes
  /\ UNCHANGED <<dockerVars, imageVars>>

Next ==
  \/ \E kind \in {"pod", "patch", "poll"} : Start(kind)
  \/ GetSource \/ GetFails \/ Reset \/ Setup \/ Clean \/ Cleaned
  \/ Inject \/ NoInjection \/ InitChroot \/ Shell \/ Environ
  \/ Run \/ RunUpdate \/ UpdateImages \/ UpdateEnds \/ End

Spec == Init /\ [][Next]_vars
-----------------------------------------------------------------------------
\* Each source brings all its files, from a URL of its own.
Plain(sources) ==
  /\ \A i, k \in DOMAIN sources : sources[i].url = sources[k].url => i = k
  /\ \A s \in ToSet(sources) : \A f \in ToSet(s.formats) : f.filter = {}

\* Whatever the jobs before left in the caches, and although a poll job gets
\* its sources twice, a script finds the files of its project as they are in
\* its commit, and else only what a source has at the commit it is at now.
ScriptSeesItsCommit ==
  job.step = "run" /\ ~job.failed =>
    \A p \in DOMAIN at.tree :
      IF p \in DOMAIN job.commit.files THEN at.tree[p] = job.commit.files[p]
      ELSE Plain(job.commit.sources) =>
             \/ p[2] = "source-repos"
             \/ \E s \in ToSet(job.commit.sources) : \E f \in ToSet(s.formats) :
                  \E q \in DOMAIN UpstreamFiles[s.commit] :
                    /\ p = <<DestDir(s, f) \o q[1], q[2]>>
                    /\ at.tree[p] = UpstreamFiles[s.commit][q]

\* What one reads in a file, links followed: no link is followed twice.
Read(files, p) ==
  LET links == {q \in DOMAIN files : files[q].kind = "link"}
      reached[n \in 0..Cardinality(links)] ==
        IF n = 0 THEN {p} ELSE {files[q].data : q \in reached[n - 1] \cap links}
  IN {files[q] : q \in ((UNION Range(reached)) \cap DOMAIN files) \ links}

\* Following links from p one comes back to p.
OnCircle(files, p) ==
  \E circle \in SUBSET {q \in DOMAIN files : files[q].kind = "link"} :
    p \in circle /\ {files[q].data : q \in circle} = circle

\* The search for changed files fails exactly if a patch changes a link on a
\* circle.  Else a path under which something else is read than before the
\* patch is among them, whether the project or a source has it, however many
\* links lead to it and whatever circles the patch leaves alone.
ChangedFilesAreFound ==
  job.step = "get" =>
    LET old == AllFiles(job.old)  new == AllFiles(job.commit)
    IN IF \E p \in FilesDiff(old, new) : OnCircle(new, p) THEN job.changed = RecursionError
       ELSE /\ job.changed # RecursionError
            /\ \A p \in DOMAIN new : Read(old, p) # Read(new, p) => p \in job.changed.files

\* The documents about mirrors, in the order one reads them.
Reading(uri, web) ==
  LET depth == Cardinality(DOMAIN web)
      of[d \in 0..depth] ==
        [u \in DOMAIN web |->
           LET m == Fetched(u, web)
           IN IF d = 0 THEN <<>>
              ELSE <<m.repos>> \o FlattenSeq([i \in DOMAIN m.include |-> of[d - 1][m.include[i]]])]
  IN of[depth][uri]

\* A repository that the mirrors name has the URL of the first document that
\* names it, or one that is put before another repository, and no other places.
Mirrored(config, uri, web) ==
  LET documents == Reading(uri, web)
      mirrors == MirrorsAt(uri, web)
      naming(r) == SelectSeq(documents, LAMBDA d : r \in DOMAIN d)
      inserted(r) == {e.url : e \in {e \in UNION {ToSet(mirrors.before[s]) : s \in DOMAIN mirrors.before} :
                                       e.name = r}}
  IN \A i \in DOMAIN config :
       LET r == config[i].name  options == config[i].options
       IN naming(r) # <<>> =>
            /\ options.baseurl \in {Head(naming(r))[r]} \cup inserted(r)
            /\ DOMAIN options \cap {"mirrorlist", "metalink"} = {}

\* A job that is told of mirrors does not install packages, nor run its script,
\* in a chroot that has the places a repository had before: mock either has
\* mirrors or ends the job.  The configuration beside the script is for mirrors
\* too, always in a pod; if mirrors could not be had when it was looked at, it
\* is as the project has it and nothing else.
MirroredReposUseMirrors ==
  /\ job.step \in {"shell", "run"} /\ job.kind # "pod" /\ "uri" \in DOMAIN job =>
       Mirrored(job.mock, job.uri, job.mockWeb)
  /\ job.step = "run" /\ "config" \in DOMAIN job =>
       IF "web" \in DOMAIN job THEN Mirrored(job.config, job.uri, job.web)
       ELSE job.kind # "pod" /\ job.config = Config

\* What secrets there are for a project and its branch depends on these
\* alone.  Of the variables that the project or the system requests (the script
\* has four more, about itself) it has those that can be had, from the first
\* secret that is meant for the project, its branch and that name, or as the
\* last request says.
ScriptHasItsVariables ==
  job.step = "run" /\ job.kind # "pod" =>
    LET requests == job.commit.requests
        data(r) == {SecretsFile[i].data : i \in {i \in DOMAIN SecretsFile :
                      LET meant(s) == job.commit.project \in s.projects /\ job.commit.branch \in s.branches
                                        /\ r.secret \in s.names
                      IN meant(SecretsFile[i]) /\ \A k \in 1..(i - 1) : ~meant(SecretsFile[k])}}
        known(v) == v \in DOMAIN job.runtime /\ job.runtime[v].safe
        value(r) ==
          IF "value" \in DOMAIN r THEN {r.value}
          ELSE LET found == IF r.provider = "runtimeEnv"
                            THEN {job.runtime[v].value : v \in {v \in {r.variable} : known(v)}}
                            ELSE {d[r.key] : d \in data(r)}
               IN IF found # {} THEN found
                  ELSE {r[x] : x \in DOMAIN r \cap {"default"}}
        of(v) == {i \in DOMAIN requests : requests[i].name = v /\ value(requests[i]) # {}}
    IN /\ DOMAIN job.env = {v \in {r.name : r \in ToSet(requests)} : of(v) # {}}
                              \cup {v \in ToSet(HwVars) : known(v)}
       /\ \A v \in DOMAIN job.env :
            job.env[v] \in IF v \in ToSet(HwVars) /\ known(v) THEN {job.runtime[v].value}
                           ELSE value(requests[Max(of(v))])
=============================================================================
