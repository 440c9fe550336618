-------------------------- MODULE UpstreamSources --------------------------
(***************************************************************************)
(* The entries of upstream_sources.yaml (stdci_tools/usrc.py): each follows *)
(* a branch of an upstream repository under its update policies.  An entry  *)
(* is [key, commit, automerge, policy, filter, annotatedOnly], key its URL  *)
(* and branch, filter the names of tags it takes; what an upstream has is   *)
(* [head, tags], the tags in the order of their names.                      *)
(***************************************************************************)
EXTENDS Integers, SequencesExt, Picks

CONSTANTS Commits,
          Before     \* a commit's ancestors, itself among them

ASSUME BeforeAssumption ==
  /\ Before \in [Commits -> SUBSET Commits]
  /\ \A c \in Commits : c \in Before[c] /\ \A b \in Before[c] : Before[b] \subseteq Before[c]
  /\ \A b, c \in Commits : b \in Before[c] /\ c \in Before[b] => b = c

\* A slip: the commits are taken the other way round.
MutCommitCmp(a, b) == IF a = b THEN 0 ELSE IF b \in Before[a] THEN -1 ELSE 1

\* _commit_cmp: the merge base of two commits is the first one if it comes
\* before the second.  Commits neither of which comes before the other are
\* each greater than the other.
CommitCmp(a, b) == IF a = b THEN 0 ELSE IF a \in Before[b] THEN -1 ELSE 1

\* max() by _commit_cmp.
Greatest(tags) ==
  LET best[n \in 1..Len(tags)] ==
        IF n = 1 THEN tags[1]
        ELSE IF CommitCmp(tags[n].commit, best[n - 1].commit) > 0 THEN tags[n] ELSE best[n - 1]
  IN best[Len(tags)]

\* The tags the filters of _update_policy_tagged let pass.
IsEligible(t, e, u) ==
  /\ t.name \in e.filter
  /\ e.annotatedOnly => t.annotated
  /\ t.commit \in Before[u.head]

\* _get_tags
Eligible(e, u) == Picked(u.tags, {i \in DOMAIN u.tags : IsEligible(u.tags[i], e, u)})

TaggedCommit(e, u) ==
  IF Eligible(e, u) = <<>> THEN e.commit
  ELSE LET newest == Greatest(Eligible(e, u)).commit
       IN IF CommitCmp(newest, e.commit) <= 0 THEN e.commit ELSE newest

\* What each policy makes of the entry's commit, in the order they are tried.
Targets(e, u) == << e.commit, TaggedCommit(e, u), u.head >>
Policies == << "static", "tagged", "latest" >>

\* updated: the first of its policies that has another commit decides.
Updated(e, u) ==
  LET changing == {i \in 1..3 : Policies[i] \in e.policy /\ Targets(e, u)[i] # e.commit}
  IN IF changing = {} THEN e ELSE [e EXCEPT !.commit = Targets(e, u)[Min(changing)]]

\* The entries of an updated configuration that are not those of the old one.
Updates(old, new) == {new[i] : i \in {i \in DOMAIN new : i \notin DOMAIN old \/ new[i] # old[i]}}

\* A slip: whoever does not say yes does not count.
MutAutomerge(updates) == \E e \in updates : e.automerge = "yes"

\* generate_update_commit_message: does the message have "automerge: yes".
Automerge(updates) ==
  /\ \E e \in updates : e.automerge = "yes"
  /\ \A e \in updates : e.automerge # "never"

\* set_upstream_source_entries: an entry is replaced in place by the last one
\* given with its key, the others are appended.
SetEntries(old, given) ==
  LET first(es, i) == \A k \in 1..(i - 1) : es[k].key # es[i].key
      givenAs(key) == {k \in DOMAIN given : given[k].key = key}
      last(key) == given[Max(givenAs(key))]
      new == Picked(given, {k \in DOMAIN given :
                              first(given, k) /\ \A i \in DOMAIN old : old[i].key # given[k].key})
  IN [i \in DOMAIN old |-> IF first(old, i) /\ givenAs(old[i].key) # {}
                           THEN last(old[i].key) ELSE old[i]]
     \o [k \in DOMAIN new |-> last(new[k].key)]
=============================================================================
