------------------------------ MODULE Updater ------------------------------
(***************************************************************************)
(* Jobs that update the upstream sources of a project (usrc.py update       *)
(* --commit, run by the poll stage of the pipeline or by usrc_updater.py),  *)
(* push the result to Gerrit (pusher.py push --if-not-exists --unless-hash) *)
(* and the patches' way into the branch: check-patch asks pusher.py         *)
(* can_merge when it starts, and its vote submits the patch when it ends.   *)
(***************************************************************************)
EXTENDS UpstreamSources, FiniteSets

CONSTANTS Jobs,
          Sources,     \* the keys of entries
          Moving, Tagging, \* of them, those whose upstreams move or make tags
          FirstHeads,  \* the commits upstreams start with
          Configs,     \* what the project's configuration may be at first
          Given,       \* entries that modify-entries may be given
          TagKinds,    \* the [name, annotated] of the tags an upstream may make
          PushMap,     \* a sequence of [matches, details], or of anything else
          NotMapping,  \* an entry of the push map that is not understood
          Remote,      \* the URL the project was cloned from
          Owner,       \* the user that pushes
          GroupMembers, \* of the groups Gerrit knows
          MaxPatches, MaxEvents   \* bounds

\* What an entry is made of.
Entries ==
  [key : Sources, commit : Commits, automerge : {"yes", "no", "never"}, policy : SUBSET STRING,
   filter : SUBSET STRING, annotatedOnly : BOOLEAN]

ASSUME UpdaterAssumption ==
  /\ Moving \cup Tagging \subseteq Sources
  /\ FirstHeads \in [Sources -> Commits]
  /\ Configs \cup Given \subseteq Seq(Entries)
  /\ TagKinds \subseteq [name : STRING, annotated : BOOLEAN]

VARIABLES upstream, branch, jobs, patches, events
vars == <<upstream, branch, jobs, patches, events>>

Idle == [step |-> "idle", base |-> <<>>, config |-> <<>>, told |-> {}]

Init ==
  /\ branch \in Configs
  /\ upstream = [s \in Sources |-> [head |-> FirstHeads[s], tags |-> <<>>]]
  /\ jobs = [j \in Jobs |-> Idle]
  /\ patches = <<>> /\ events = 0
-----------------------------------------------------------------------------
\* What happens to the jobs from outside happens MaxEvents times.
Event == events < MaxEvents /\ events' = events + 1

\* Upstream moves on; nothing is taken from its branches.
Advance(s) ==
  /\ \E c \in Commits \ {upstream[s].head} :
       /\ upstream[s].head \in Before[c]
       /\ upstream' = [upstream EXCEPT ![s].head = c]
  /\ Event /\ UNCHANGED <<branch, jobs, patches>>

MakeTag(s) ==
  /\ \E c \in Before[upstream[s].head], kind \in TagKinds, at \in 0..Len(upstream[s].tags) :
       upstream' = [upstream EXCEPT ![s].tags = InsertAt(@, at + 1, [name |-> kind.name, annotated |-> kind.annotated, commit |-> c])]
  /\ Event /\ UNCHANGED <<branch, jobs, patches>>

Moves(j, job) ==
  /\ jobs' = [jobs EXCEPT ![j] = job]
  /\ UNCHANGED <<upstream, branch, patches, events>>

\* The checkout, prep_git_repo for usrc_updater.py.  That jobs overlap is one
\* of the events.
Clone(j) ==
  /\ jobs[j].step = "idle"
  /\ jobs' = [jobs EXCEPT ![j] = [Idle EXCEPT !.step = "update", !.base = branch]]
  /\ IF \A i \in Jobs : jobs[i].step = "idle" THEN UNCHANGED events ELSE Event
  /\ UNCHANGED <<upstream, branch, patches>>

\* update_upstream_sources updates one entry after the other, each from what
\* its upstream has at that moment.
UpdateNext(j) ==
  LET n == Len(jobs[j].config) + 1
  IN /\ jobs[j].step = "update" /\ n \in DOMAIN jobs[j].base
     /\ LET e == jobs[j].base[n]
        IN Moves(j, [jobs[j] EXCEPT !.config = Append(@, Updated(e, upstream[e.key]))])

\* modify_entries_main: its commit tells of every entry.
Modify(j) ==
  /\ jobs[j].step = "update" /\ jobs[j].config = <<>>
  /\ \E given \in Given :
       LET config == SetEntries(jobs[j].base, given)
       IN jobs' = [jobs EXCEPT ![j].step = "modified", ![j].config = config, ![j].told = ToSet(config)]
  /\ Event /\ UNCHANGED <<upstream, branch, patches>>

\* The hook runs once the configuration is saved; commit_upstream_sources_update
\* makes a commit unless nothing changed.  With no commit HEAD is what it was
\* and push_to_scm returns at once.
Commit(j) ==
  LET updates == Updates(jobs[j].base, jobs[j].config)
  IN /\ \/ jobs[j].step = "update" /\ Len(jobs[j].config) = Len(jobs[j].base)
        \/ jobs[j].step = "modified"
     /\ Moves(j, IF updates = {} THEN Idle
                 ELSE [jobs[j] EXCEPT !.step = "push", !.told = @ \cup updates])

\* The hook or the project's script fails, or the job is aborted.
Fail(j) ==
  /\ jobs[j].step # "idle"
  /\ jobs' = [jobs EXCEPT ![j] = Idle]
  /\ Event /\ UNCHANGED <<upstream, branch, patches>>

\* parse_push_details_struct: what a section of the push map says.
Details(struct) ==
  IF struct = NotMapping \/ "push_url" \notin DOMAIN struct
  THEN [error |-> "PushMapSyntaxError"]
  ELSE struct @@ [maintainers |-> {}, groups |-> {}]

\* get_push_details: the first section whose pattern matches, unless one before
\* it is not understood.
PushDetails ==
  LET usable == SelectSeq(PushMap, LAMBDA e : IF e = NotMapping THEN TRUE ELSE Remote \in e.matches)
  IN IF usable = <<>> THEN [error |-> "PushMapMatchError"]
     ELSE IF usable[1] = NotMapping THEN [error |-> "PushMapSyntaxError"]
     ELSE Details(usable[1].details)

\* get_patch_header
PatchHeader(p, header, default) ==
  IF header \in DOMAIN p.headers THEN p.headers[header] ELSE default

\* patch_header_is_true
HeaderIsTrue(p, header) == PatchHeader(p, header, "no") \in {"true", "yes"}

\* A slip: one patch at a time.
MutSimilar(config) == \E k \in DOMAIN patches : patches[k].state = "open"

\* check_if_similar_patch_pushed: by the checksum of the configuration, in any
\* state of a patch.
Similar(config) == \E k \in DOMAIN patches : patches[k].headers.md5 = config

Check(j) ==
  /\ jobs[j].step = "push"
  /\ Moves(j, IF "error" \in DOMAIN PushDetails \/ Similar(jobs[j].config) THEN Idle
              ELSE [jobs[j] EXCEPT !.step = "pushing"])

\* The headers of a commit: "automerge" only if the updates allow it, and the
\* checksum of the configuration.
Headers(job) ==
  IF Automerge(job.told) THEN [automerge |-> "yes", md5 |-> job.config] ELSE [md5 |-> job.config]

Push(j) ==
  /\ jobs[j].step = "pushing" /\ Len(patches) < MaxPatches
  /\ patches' = Append(patches, [base |-> jobs[j].base, config |-> jobs[j].config,
                                 headers |-> Headers(jobs[j]), state |-> "open", vote |-> "none"])
  /\ jobs' = [jobs EXCEPT ![j] = Idle]
  /\ UNCHANGED <<upstream, branch, events>>
-----------------------------------------------------------------------------
\* gerrit_user_in_group: a group that is empty or unknown has no members.
InGroup(g) == g \in DOMAIN GroupMembers /\ Owner \in GroupMembers[g]

\* can_merge_to_scm
CanMerge(p) ==
  /\ HeaderIsTrue(p, "automerge")
  /\ "error" \notin DOMAIN PushDetails
  /\ Owner \in PushDetails.maintainers \/ \E g \in PushDetails.groups : InGroup(g)

\* Gerrit merges by lines, and each field of an entry has its own.  Only one
\* side may append entries; none is ever taken out.
Mergeable(p) ==
  /\ DOMAIN p.base \subseteq DOMAIN branch \cap DOMAIN p.config
  /\ DOMAIN p.base \in {DOMAIN branch, DOMAIN p.config}
  /\ \A i \in DOMAIN p.base : \A f \in DOMAIN p.base[i] :
       p.config[i][f] # p.base[i][f] => branch[i][f] \in {p.base[i][f], p.config[i][f]}

MergedEntry(p, i) ==
  LET line(f) == IF p.config[i][f] # p.base[i][f] THEN p.config[i][f] ELSE branch[i][f]
  IN [key |-> line("key"), commit |-> line("commit"), automerge |-> line("automerge"),
      policy |-> line("policy"), filter |-> line("filter"), annotatedOnly |-> line("annotatedOnly")]

Merged(p) ==
  [i \in DOMAIN branch \cup DOMAIN p.config |->
     IF i \in DOMAIN p.base THEN MergedEntry(p, i)
     ELSE IF i \in DOMAIN branch THEN branch[i] ELSE p.config[i]]

\* check-patch starts: set_gerrit_automerge.  Another vote moves nothing.
StartCheck(k) ==
  /\ patches[k].state = "open" /\ patches[k].vote = "none" /\ CanMerge(patches[k])
  /\ patches' = [patches EXCEPT ![k].vote = "submit"]
  /\ UNCHANGED <<upstream, branch, jobs, events>>

\* check-patch ends well: its vote submits the patch if it says so.  If it
\* ends badly nothing moves.  Gerrit may also find that lines next to those a
\* patch changes have changed, once the branch is not what it was.
Submit(k) ==
  /\ patches[k].state = "open" /\ patches[k].vote = "submit"
  /\ \/ /\ Mergeable(patches[k]) /\ branch' = Merged(patches[k])
        /\ patches' = [patches EXCEPT ![k].state = "merged", ![k].vote = "done"]
     \/ /\ patches[k].base # branch /\ UNCHANGED branch
        /\ patches' = [patches EXCEPT ![k].vote = "done"]
  /\ UNCHANGED <<upstream, jobs, events>>

\* Someone merges or abandons a patch.
Review(k) ==
  /\ patches[k].state = "open"
  /\ \/ /\ Mergeable(patches[k]) /\ branch' = Merged(patches[k])
        /\ patches' = [patches EXCEPT ![k].state = "merged"]
     \/ /\ patches' = [patches EXCEPT ![k].state = "abandoned"] /\ UNCHANGED branch
  /\ UNCHANGED <<upstream, jobs, events>>

Work(j) == Clone(j) \/ UpdateNext(j) \/ Commit(j) \/ Check(j) \/ Push(j)
Gerrit(k) == StartCheck(k) \/ Submit(k)

Next ==
  \/ \E s \in Moving : Advance(s)
  \/ \E s \in Tagging : MakeTag(s)
  \/ \E j \in Jobs : Work(j) \/ Modify(j) \/ Fail(j)
  \/ \E k \in DOMAIN patches : Gerrit(k) \/ Review(k)

Spec == Init /\ [][Next]_vars /\ \A j \in Jobs : WF_vars(Work(j))
-----------------------------------------------------------------------------
Target(config) == [i \in DOMAIN config |-> Updated(config[i], upstream[config[i].key])]

\* However updates, reviews and checks of several patches interleave, no vote
\* of check-patch puts an update of a source into the branch that was marked
\* "never" when the update was made, nor sets the mark.  One marked by a review
\* while its update was on the way is updated all the same: Gerrit merges both.
NeverSourcesWaitForReview ==
  [][\A k \in DOMAIN patches : Submit(k) =>
       \A i \in DOMAIN branch' :
         branch'[i].automerge = "never" /\ (i \notin DOMAIN branch \/ branch'[i] # branch[i]) =>
           /\ i \in DOMAIN branch \cap DOMAIN patches[k].base
           /\ branch[i].automerge = "never" /\ patches[k].base[i].automerge # "never"]_vars

\* What a job writes for a source that follows tags alone is a tag it may
\* take, and never an older commit than it had.
TagsAreFollowedForward ==
  \A j \in Jobs : jobs[j].step = "update" => \A i \in DOMAIN jobs[j].config :
    LET e == jobs[j].config[i]  old == jobs[j].base[i]
    IN e # old /\ old.policy = {"tagged"} =>
         /\ e.commit \notin Before[old.commit]
         /\ \E t \in ToSet(Eligible(old, upstream[old.key])) : t.commit = e.commit

\* What upstream has arrives: always again the branch is up to date or Gerrit
\* has seen a patch that would bring it there.
UpdatesReachGerrit ==
  []<>(Target(branch) = branch \/ \E k \in DOMAIN patches : patches[k].config = Target(branch))

=============================================================================
