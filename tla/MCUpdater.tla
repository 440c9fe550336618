----------------------------- MODULE MCUpdater -----------------------------
EXTENDS Updater

\* Two lines of history that part and meet.
MCHistory == 1 :> {1} @@ 2 :> {1, 2} @@ 3 :> {1, 3} @@ 4 :> {1, 2, 3, 4}

Entry(key, commit, automerge, policy, annotated) ==
  [key |-> key, commit |-> commit, automerge |-> automerge, policy |-> policy,
   filter |-> {"v"}, annotatedOnly |-> annotated]

MCConfigs == {
  <<Entry("lib", 1, "yes", {"latest"}, FALSE), Entry("app", 2, "never", {"tagged"}, TRUE)>>,
  <<Entry("lib", 1, "no", {"static", "tagged", "latest"}, FALSE), Entry("app", 2, "yes", {"tagged"}, FALSE)>> }

MCGiven == {
  <<Entry("app", 2, "no", {"latest"}, FALSE), Entry("new", 1, "yes", {"static"}, FALSE)>>,
  <<Entry("lib", 1, "never", {"latest"}, FALSE)>> }
MCTagKinds == {[name |-> "v", annotated |-> TRUE], [name |-> "v", annotated |-> FALSE]}
MCFirst == [lib |-> 1, app |-> 4, new |-> 1]
MCPushMap == <<[matches |-> {"other"}, details |-> NotMapping],
               [matches |-> {"here"}, details |-> [push_url |-> "scm", groups |-> {"none", "bots"}]],
               NotMapping>>
MCGroups == [bots |-> {"ci"}]
=============================================================================
