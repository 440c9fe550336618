-------------------------- MODULE ChangeQueueJobs ---------------------------
(***************************************************************************)
(* The change queue as it runs in Jenkins: pipelines/change-queue.groovy,  *)
(* pipelines/change-queue-tester.groovy, the class JenkinsChangeQueue and  *)
(* the way stdci_libs/jenkins_objects.py keeps it in build artifacts.      *)
(*                                                                         *)
(* Builds of one job run one at a time (jobs/confs/projects/defaults.yaml) *)
(* and requests with equal parameters that wait for a build are one        *)
(* request; both are what Jenkins does.  A queue build may fail at any     *)
(* point and a tester may die at any point.                                *)
(***************************************************************************)
EXTENDS QueueMethods, FiniteSets

CONSTANTS
    Broken,         \* the sets of changes on which the tests really fail
    MaxFailures     \* bound on the builds that fail or die

ASSUME JobsAssumption ==
    /\ Broken \in SUBSET SUBSET Changes
    /\ {} \notin Broken
    /\ \A S, T \in SUBSET Changes :
          S \cup T \in Broken => S \in Broken \/ T \in Broken
    /\ MaxFailures \in Nat

VARIABLES
    artifact,       \* JenkinsChangeQueue.dat of the last successful queue build
    requests,       \* queue builds asked for and not started
    build,          \* the queue build that runs, or NoBuild
    tester_queued,  \* a tester build is asked for and not started
    tester,         \* the tester build that runs
    mails,          \* history: the reports sent
    committed,      \* history: what the successful queue builds returned
    stray,          \* history: a build failed since the last tester was triggered
    failures        \* the builds that failed or died, for the bound

vars == <<artifact, requests, build, tester_queued, tester,
          mails, committed, stray, failures>>

NoTest == << >>     \* the test_url None; a test is named by the list it tested
NoBuild == [phase |-> "none"]
Idle == [phase |-> "idle"]

(* The object is the queue and what act_on_job_params adds to it.  A key   *)
(* made by a build that fails is seen by nobody; its number is used again. *)
NewObject ==
    [queue |-> NewQueue, keys |-> 0, last_successful |-> NoTest, last_failed |-> NoTest]

Request(action, arg, tested) == [action |-> action, arg |-> arg, tested |-> tested]
AskNextTest == Request("get_next_test", NoKey, NoTest)

Mail(changes, status, cause, test) ==
    [i \in DOMAIN changes |->
        [change |-> changes[i], status |-> status, cause |-> cause, test |-> test]]
-----------------------------------------------------------------------------
(* act_on_job_params: what each action makes of the object o, the reports  *)
(* it sends in order, and what it returns, for the history.                *)

\* A slip in test_key_match: any key will do.
MutAnyKey(q, key) == key # NoKey
TestKeyMatch(q, key) == key # NoKey /\ key = q.test_key

Nothing == [tests |-> {}, submitted |-> {}, rejected |-> << >>, judged |-> << >>]

ActAdd(o, c) ==
    LET r == Added(o.queue, c)
    IN  [ object |-> [o EXCEPT !.queue = r.queue],
          mails  |-> Mail(r.added, "added", NoChange, NoTest)
                        \o Mail(r.rejected, "rejected", NoChange, NoTest),
          done   |-> [Nothing EXCEPT !.submitted = {c}, !.rejected = r.rejected] ]

ActNextTest(o) ==
    LET q == NextTest(o.queue, o.keys + 1)
    IN  [ object |-> [o EXCEPT !.queue = q,
                               !.keys = IF q.test_key > @ THEN @ + 1 ELSE @],
          mails  |-> << >>,
          done   |-> IF q.test_key = NoKey THEN Nothing
                     ELSE [Nothing EXCEPT !.tests =
                              {[key |-> q.test_key, list |-> Head(q.state)]}] ]

\* A slip in act_on_job_params: every report of a verdict names the test that
\* just ended.
MutNameThisTest(o, action, key, tested) ==
    IF ~TestKeyMatch(o.queue, key)
    THEN [object |-> o, mails |-> << >>, done |-> Nothing]
    ELSE LET r == IF action = "on_test_success" THEN OnSuccess(o.queue)
                                                ELSE OnFailure(o.queue)
         IN  [ object |-> [o EXCEPT !.queue = r.queue],
               mails  |-> Mail(r.successful, "successful", r.cause, tested)
                             \o Mail(r.failed, "failed", r.cause, tested),
               done   |-> [Nothing EXCEPT !.judged = Verdicts(r)] ]

ActVerdict(o, action, key, tested) ==
    IF ~TestKeyMatch(o.queue, key)
    THEN [object |-> o, mails |-> << >>, done |-> Nothing]
    ELSE LET named == IF action = "on_test_success"
                      THEN [o EXCEPT !.last_successful = tested]
                      ELSE [o EXCEPT !.last_failed = tested]
             r == IF action = "on_test_success" THEN OnSuccess(o.queue)
                                                ELSE OnFailure(o.queue)
         IN  [ object |-> [named EXCEPT !.queue = r.queue],
               mails  |-> Mail(r.successful, "successful", r.cause, named.last_successful)
                             \o Mail(r.failed, "failed", r.cause, named.last_failed),
               done   |-> [Nothing EXCEPT !.judged = Verdicts(r)] ]

Act(o, r) ==
    CASE r.action = "add"           -> ActAdd(o, r.arg)
      [] r.action = "get_next_test" -> ActNextTest(o)
      [] OTHER                      -> ActVerdict(o, r.action, r.arg, r.tested)
-----------------------------------------------------------------------------
Init ==
    /\ artifact = NewObject
    /\ requests = {}
    /\ build = NoBuild
    /\ tester_queued = FALSE
    /\ tester = Idle
    /\ mails = {}
    /\ committed = Nothing
    /\ stray = FALSE
    /\ failures = 0

(* standard-stage or standard-enqueue builds the queue job with add; an     *)
(* add whose build failed may be made again.                                *)
Submit(c) ==
    /\ c \notin committed.submitted
    /\ build # NoBuild => build.request # Request("add", c, NoTest)
    /\ Request("add", c, NoTest) \notin requests
    /\ requests' = requests \cup {Request("add", c, NoTest)}
    /\ UNCHANGED <<artifact, build, tester_queued, tester, mails, committed, stray, failures>>

(***************************************************************************)
(* The queue job.  A build loads the artifact and acts on the object it    *)
(* holds; the reports go out one by one; then the tester is triggered; the *)
(* object is the artifact of the last successful build when all is done.   *)
(***************************************************************************)
StartBuild(r) ==
    /\ build = NoBuild
    /\ r \in requests
    /\ requests' = requests \ {r}
    /\ LET act == Act(artifact, r)
       IN  build' = [phase |-> "report", request |-> r, object |-> act.object,
                     mails |-> act.mails, done |-> act.done]
    /\ UNCHANGED <<artifact, tester_queued, tester, mails, committed, stray, failures>>

Report ==
    /\ build.phase = "report" /\ build.mails # << >>
    /\ mails' = mails \cup {Head(build.mails)}
    /\ build' = [build EXCEPT !.mails = Tail(@)]
    /\ UNCHANGED <<artifact, requests, tester_queued, tester, committed, stray, failures>>

\* A slip in act_on_job_params: the tester is scheduled only for an addition.
MutTriggerForAdd ==
    /\ build.phase = "report" /\ build.mails = << >>
    /\ build' = [build EXCEPT !.phase = "end"]
    /\ IF build.request.action = "add"
       THEN tester_queued' = TRUE /\ stray' = FALSE
       ELSE UNCHANGED <<tester_queued, stray>>
    /\ UNCHANGED <<artifact, requests, tester, mails, committed, failures>>

\* The object is saved and archived; every action but get_next_test has
\* written build_args.json, so the tester is triggered.
SaveAndTrigger ==
    /\ build.phase = "report" /\ build.mails = << >>
    /\ build' = [build EXCEPT !.phase = "end"]
    /\ IF build.request.action # "get_next_test"
       THEN tester_queued' = TRUE /\ stray' = FALSE
       ELSE UNCHANGED <<tester_queued, stray>>
    /\ UNCHANGED <<artifact, requests, tester, mails, committed, failures>>

\* The tester waits for the build that runs, not for one that is still to run.
TesterWaitsFor(r) ==
    /\ tester.phase \in {"asking", "reporting"}
    /\ tester.request = r
    /\ r \notin requests

\* A slip in get_next_test: the whole queue is handed out to be tested.
MutTestAll(o) ==
    IF tester.phase = "asking" /\ o.queue.test_key # NoKey
    THEN [phase |-> "testing", key |-> o.queue.test_key, list |-> Queued(o.queue)]
    ELSE Idle

\* What a tester does when the queue build it waits for succeeded.
AfterReply(o) ==
    IF tester.phase = "asking" /\ o.queue.test_key # NoKey
    THEN [phase |-> "testing", key |-> o.queue.test_key, list |-> Head(o.queue.state)]
    ELSE Idle

EndBuild ==
    /\ build.phase = "end"
    /\ artifact' = build.object
    /\ committed' = [ tests     |-> committed.tests \cup build.done.tests,
                      submitted |-> committed.submitted \cup build.done.submitted,
                      rejected  |-> committed.rejected \o build.done.rejected,
                      judged    |-> committed.judged \o build.done.judged ]
    /\ tester' = IF TesterWaitsFor(build.request) THEN AfterReply(build.object) ELSE tester
    /\ build' = NoBuild
    /\ UNCHANGED <<requests, tester_queued, mails, stray, failures>>

\* A slip in persist_in_artifacts: the object is saved whatever happened (a
\* 'finally' around the yield, and the state of the last build taken).
MutSaveAnyway ==
    /\ build # NoBuild
    /\ failures < MaxFailures
    /\ failures' = failures + 1
    /\ stray' = TRUE
    /\ tester' = IF TesterWaitsFor(build.request) THEN Idle ELSE tester
    /\ artifact' = build.object
    /\ build' = NoBuild
    /\ UNCHANGED <<requests, tester_queued, mails, committed>>

\* A queue build that fails leaves the artifact as it was; the build step of
\* the tester that waits for it throws, and that ends the tester.
FailBuild ==
    /\ build # NoBuild
    /\ failures < MaxFailures
    /\ failures' = failures + 1
    /\ stray' = TRUE
    /\ tester' = IF TesterWaitsFor(build.request) THEN Idle ELSE tester
    /\ build' = NoBuild
    /\ UNCHANGED <<artifact, requests, tester_queued, mails, committed>>

(***************************************************************************)
(* The tester job.                                                         *)
(***************************************************************************)
StartTester ==
    /\ tester_queued /\ tester = Idle
    /\ tester_queued' = FALSE
    /\ tester' = [phase |-> "asking", request |-> AskNextTest]
    /\ requests' = requests \cup {AskNextTest}
    /\ UNCHANGED <<artifact, build, mails, committed, stray, failures>>

\* The tests end, or waiting for the artifacts or a test throws.
TestEnds(action) ==
    /\ tester.phase = "testing"
    /\ LET r == Request(action, tester.key, tester.list)
       IN  tester' = [phase |-> "reporting", request |-> r] /\ requests' = requests \cup {r}
    /\ UNCHANGED <<artifact, build, tester_queued, mails, committed, stray, failures>>

\* Loading the change data throws, or Jenkins loses the build.
TesterDies ==
    /\ tester # Idle
    /\ failures < MaxFailures
    /\ failures' = failures + 1
    /\ stray' = TRUE
    /\ tester' = Idle
    /\ UNCHANGED <<artifact, requests, build, tester_queued, mails, committed>>

AnyTestEnds == TestEnds("on_test_success") \/ TestEnds("on_test_failure")

TrueTestEnds ==
    /\ tester.phase = "testing"
    /\ IF ToSet(tester.list) \in Broken THEN TestEnds("on_test_failure")
                                       ELSE TestEnds("on_test_success")

Steps ==
    \/ \E c \in Changes : Submit(c)
    \/ \E r \in requests : StartBuild(r)
    \/ Report
    \/ SaveAndTrigger
    \/ EndBuild
    \/ FailBuild
    \/ StartTester
    \/ TesterDies

Next == Steps \/ AnyTestEnds
Spec == Init /\ [][Next]_vars

\* Tests whose verdict is true of the list they are given.
TruthfulNext == Steps \/ TrueTestEnds
TruthfulSpec == Init /\ [][TruthfulNext]_vars

(***************************************************************************)
(* Jenkins starts what is asked for, and builds and tests end.             *)
(***************************************************************************)
Fairness ==
    /\ WF_requests(build = NoBuild /\ requests' \in {requests \ {r} : r \in requests})
    /\ WF_vars(Report \/ SaveAndTrigger \/ EndBuild)
    /\ WF_vars(StartTester)
    /\ WF_vars(AnyTestEnds)

FairSpec == Spec /\ Fairness
-----------------------------------------------------------------------------
Verdictual == {"successful", "failed"}

(***************************************************************************)
(* The reports go out before the state is saved, so no change leaves the   *)
(* saved queue untold: each change whose addition succeeded is in the      *)
(* artifact, was rejected, or has been reported as passed or failed.       *)
(***************************************************************************)
NoChangeLeavesUntold ==
    \A c \in committed.submitted :
        \/ c \in ToSet(Queued(artifact.queue)) \cup ToSet(Awaiting(artifact.queue))
        \/ \E m \in mails : m.change = c /\ m.status \in Verdictual \cup {"rejected"}

(***************************************************************************)
(* A build that fails after it reported is forgotten and its verdict is    *)
(* found again.  With tests that tell the truth the second report is the   *)
(* first: same verdict, same change to blame, same test.  The patch sets   *)
(* of one Gerrit change share its number as id; where two such are         *)
(* submitted a change can be reported failed as the dependant of the other *)
(* by a build that fails, and pass once the other is rejected.             *)
(***************************************************************************)
ReportsAgree ==
    DistinctIds =>
        \A m, n \in mails :
            m.change = n.change /\ {m.status, n.status} \subseteq Verdictual => m = n

(***************************************************************************)
(* With truthful tests the test a report names had the outcome reported,   *)
(* and only a change that fails alone, or one that requires such a one, is *)
(* reported as failed: dependants taken out of the sections and builds     *)
(* that fail leave bisection sound.                                        *)
(***************************************************************************)
ReportedTestsAreTrue ==
    \A m \in mails :
        /\ m.status = "failed" =>
              /\ ToSet(m.test) \in Broken
              /\ \E c \in Changes :
                    /\ {c} \in Broken
                    /\ m.change = c \/ Id[m.change] \in DependantsOn(Id[c], Changes)
        /\ m.status = "successful" => ToSet(m.test) \notin Broken

(***************************************************************************)
(* Whatever was lost in between, a tester whose key is the saved one tests *)
(* what the saved queue has in its first section.                          *)
(***************************************************************************)
TesterTestsFirstSection ==
    tester.phase = "testing" /\ tester.key = artifact.queue.test_key =>
        tester.list = Head(artifact.queue.state)

(***************************************************************************)
(* The two jobs keep each other going: the queue comes to rest with        *)
(* changes to test only if a build failed or died after the last time the  *)
(* tester was triggered.  One more successful addition or verdict then     *)
(* sets it going again.                                                    *)
(***************************************************************************)
AtRest == build = NoBuild /\ requests = {} /\ ~tester_queued /\ tester = Idle

RestsOnlyWhenDone == AtRest /\ Head(artifact.queue.state) # << >> => stray

(***************************************************************************)
(* Every change in the saved queue is reported with a verdict in the end,  *)
(* unless the queue comes to rest because a build failed.                  *)
(***************************************************************************)
EveryChangeIsReported ==
    \A c \in Changes :
        c \in ToSet(Queued(artifact.queue)) ~>
            \/ \E m \in mails : m.change = c /\ m.status \in Verdictual
            \/ AtRest /\ stray

(***************************************************************************)
(* The saved queue behaves as a queue in memory that never fails: a build  *)
(* that succeeds is one call of a method of it, a verdict with an old key  *)
(* is no call, and a build or a tester that fails leaves it alone.         *)
(***************************************************************************)
InMemory ==
    INSTANCE ChangeQueueStack WITH
        queue <- artifact.queue, keys <- artifact.keys, tests <- committed.tests,
        submitted <- committed.submitted, rejected <- committed.rejected,
        judged <- committed.judged

ImplementsInMemory == InMemory!Spec
=============================================================================
