----------------------- MODULE ChangeQueueJobsProofs ------------------------
(***************************************************************************)
(* The queue job and the tester job, whatever the changes, their           *)
(* requirements and the verdicts are, and however often builds fail: they  *)
(* keep each other going, no change is lost between a report and a save, a *)
(* tester tests the section its key was made for, and the saved queue      *)
(* behaves as a queue in memory that never fails.  With tests that tell    *)
(* the truth, so do the reports, and a verdict told twice is told alike.   *)
(***************************************************************************)
EXTENDS ChangeQueueJobs, QueueMethodsProofs

IsObject(o) ==
    /\ o = [queue |-> o.queue, keys |-> o.keys,
            last_successful |-> o.last_successful, last_failed |-> o.last_failed]
    /\ o.keys \in Nat

\* A running build holds what its action made of the saved object.
BuildActs ==
    build # NoBuild =>
        /\ build = [phase |-> build.phase, request |-> build.request, object |-> build.object,
                    mails |-> build.mails, done |-> build.done]
        /\ build.object = Act(artifact, build.request).object

\* A tester asks for the next test or reports a verdict, and nothing else.
TesterAsks ==
    /\ tester.phase = "asking" => tester.request = AskNextTest
    /\ tester.phase = "reporting" => tester.request.action # "get_next_test"

\* A call that changes the queue sets a tester going before its build ends, ...
Triggered ==
    build.phase = "end" /\ build.request.action # "get_next_test" /\ ~stray =>
        tester_queued \/ tester.phase = "asking"

\* ... and while the saved queue has a test, something is at work or asked for
\* that will lead to a tester.
Awake ==
    \/ tester_queued
    \/ tester # Idle
    \/ \E r \in requests : r.action # "get_next_test"
    \/ build.phase = "report" /\ build.request.action # "get_next_test"

KeptAwake == Head(artifact.queue.state) # << >> /\ ~stray => Awake

IInv ==
    /\ IsObject(artifact)
    /\ BuildActs
    /\ TesterAsks
    /\ Triggered
    /\ KeptAwake
-----------------------------------------------------------------------------
LEMMA NextTestHasKey ==
    ASSUME NEW q, NEW k, k # NoKey
    PROVE  /\ NextTest(q, k).test_key = NoKey => Head(NextTest(q, k).state) = << >>
           /\ Head(NextTest(q, k).state) # << >> => Head(q.state) # << >>
BY DEF NextTest

LEMMA ActIsObject ==
    ASSUME NEW o, IsObject(o), NEW r
    PROVE  IsObject(Act(o, r).object)
<1>1. CASE r.action = "add"
  BY <1>1 DEF Act, ActAdd, IsObject
<1>2. CASE r.action = "get_next_test"
  <2>1. Act(o, r) = ActNextTest(o)
    BY <1>2 DEF Act
  <2>2. PICK q : q = NextTest(o.queue, o.keys + 1)
    OBVIOUS
  <2>3. PICK k \in Nat : k = IF q.test_key > o.keys THEN o.keys + 1 ELSE o.keys
    BY DEF IsObject
  <2>4. ActNextTest(o).object = [o EXCEPT !.queue = q, !.keys = k]
    BY <2>2, <2>3 DEF ActNextTest
  <2>5. ActNextTest(o).object =
           [queue |-> q, keys |-> k,
            last_successful |-> o.last_successful, last_failed |-> o.last_failed]
    BY <2>4 DEF IsObject
  <2> QED BY <2>1, <2>5 DEF IsObject
<1>3. CASE r.action # "add" /\ r.action # "get_next_test"
  <2>1. Act(o, r) = ActVerdict(o, r.action, r.arg, r.tested)
    BY <1>3 DEF Act
  <2> QED BY <2>1 DEF ActVerdict, IsObject
<1> QED BY <1>1, <1>2, <1>3

\* What get_next_test makes of an object.
LEMMA ActNextTestHasKey ==
    ASSUME NEW o, IsObject(o), NEW r, r.action = "get_next_test"
    PROVE  LET q == Act(o, r).object.queue
           IN  /\ q.test_key = NoKey => Head(q.state) = << >>
               /\ Head(q.state) # << >> => Head(o.queue.state) # << >>
<1>1. Act(o, r).object.queue = NextTest(o.queue, o.keys + 1)
  <2>1. Act(o, r) = ActNextTest(o)
    BY DEF Act
  <2>2. PICK q : q = NextTest(o.queue, o.keys + 1)
    OBVIOUS
  <2>3. ActNextTest(o).object.queue = q
    BY <2>2 DEF ActNextTest, IsObject
  <2> QED BY <2>1, <2>2, <2>3
<1>2. o.keys + 1 # NoKey
  BY DEF IsObject, NoKey
<1> QED BY <1>1, <1>2, NextTestHasKey
-----------------------------------------------------------------------------
LEMMA InitIInv == Init => IInv
BY DEF Init, IInv, IsObject, BuildActs, TesterAsks, Triggered, KeptAwake,
       NewObject, NewQueue, NoBuild, Idle

LEMMA SubmitIInv ==
    ASSUME IInv, NEW c \in Changes, Submit(c)
    PROVE  IInv'
BY DEF Submit, IInv, BuildActs, TesterAsks, Triggered, KeptAwake, Awake

LEMMA StartBuildIInv ==
    ASSUME IInv, NEW r \in requests, StartBuild(r)
    PROVE  IInv'
<1> USE DEF StartBuild
<1>1. /\ build'.phase = "report" /\ build'.request = r
      /\ build'.object = Act(artifact, r).object
      /\ build' = [phase |-> build'.phase, request |-> build'.request,
                   object |-> build'.object, mails |-> build'.mails, done |-> build'.done]
  OBVIOUS
<1>2. IsObject(artifact)' /\ TesterAsks'
  BY DEF IInv, TesterAsks
<1>3. BuildActs'
  BY <1>1 DEF BuildActs
<1>4. Triggered'
  BY <1>1 DEF Triggered
<1>5. KeptAwake'
  BY <1>1 DEF IInv, KeptAwake, Awake, NoBuild
<1> QED BY <1>2, <1>3, <1>4, <1>5 DEF IInv

LEMMA ReportIInv ==
    ASSUME IInv, Report
    PROVE  IInv'
<1>1. build # NoBuild
  BY DEF Report, NoBuild
<1>2. /\ build'.phase = "report" /\ build'.request = build.request
      /\ build'.object = build.object
      /\ build' = [phase |-> build'.phase, request |-> build'.request,
                   object |-> build'.object, mails |-> build'.mails, done |-> build'.done]
  BY <1>1 DEF Report, IInv, BuildActs
<1> QED
  BY <1>1, <1>2 DEF Report, IInv, BuildActs, TesterAsks, Triggered, KeptAwake, Awake

LEMMA SaveAndTriggerIInv ==
    ASSUME IInv, SaveAndTrigger
    PROVE  IInv'
<1>1. build # NoBuild
  BY DEF SaveAndTrigger, NoBuild
<1>2. /\ build'.phase = "end" /\ build'.request = build.request
      /\ build'.object = build.object
      /\ build' = [phase |-> build'.phase, request |-> build'.request,
                   object |-> build'.object, mails |-> build'.mails, done |-> build'.done]
  BY <1>1 DEF SaveAndTrigger, IInv, BuildActs
<1>3. CASE build.request.action # "get_next_test"
  BY <1>1, <1>2, <1>3
     DEF SaveAndTrigger, IInv, BuildActs, TesterAsks, Triggered, KeptAwake, Awake
<1>4. CASE build.request.action = "get_next_test"
  BY <1>1, <1>2, <1>4
     DEF SaveAndTrigger, IInv, BuildActs, TesterAsks, Triggered, KeptAwake, Awake
<1> QED BY <1>3, <1>4

LEMMA EndBuildIInv ==
    ASSUME IInv, EndBuild
    PROVE  IInv'
<1>1. build # NoBuild /\ build' = NoBuild /\ build'.phase = "none"
  BY DEF EndBuild, NoBuild
<1>2. /\ artifact' = build.object /\ artifact' = Act(artifact, build.request).object
      /\ UNCHANGED <<requests, tester_queued, stray>>
  BY <1>1 DEF EndBuild, IInv, BuildActs
<1>3. IsObject(artifact')
  BY <1>2, ActIsObject DEF IInv
<1>4. \/ tester' = tester
      \/ TesterWaitsFor(build.request) /\ tester' = AfterReply(build.object)
  BY DEF EndBuild
<1>5. tester' = tester \/ tester'.phase \in {"idle", "testing"}
  BY <1>4 DEF AfterReply, Idle
<1>6. TesterAsks'
  BY <1>5 DEF IInv, TesterAsks
<1>7. KeptAwake'
  <2> SUFFICES ASSUME Head(artifact'.queue.state) # << >>, ~stray PROVE Awake'
    BY <1>2 DEF KeptAwake
  <2>1. CASE build.request.action # "get_next_test"
    <3>1. tester_queued \/ tester.phase = "asking"
      BY <2>1 DEF EndBuild, IInv, Triggered
    <3>2. tester.phase = "asking" => ~TesterWaitsFor(build.request)
      BY <2>1 DEF IInv, TesterAsks, TesterWaitsFor, AskNextTest, Request
    <3>3. tester.phase = "asking" => tester' # Idle
      BY <1>4, <3>2 DEF Idle
    <3> QED BY <1>2, <3>1, <3>3 DEF Awake
  <2>2. CASE build.request.action = "get_next_test"
    <3>1. /\ Head(artifact.queue.state) # << >>
          /\ build.object.queue.test_key # NoKey
      BY <1>2, <2>2, ActNextTestHasKey DEF IInv
    <3>2. tester_queued \/ tester # Idle \/ \E r \in requests : r.action # "get_next_test"
      BY <2>2, <3>1 DEF IInv, KeptAwake, Awake
    <3>3. ASSUME TesterWaitsFor(build.request), tester' = AfterReply(build.object)
          PROVE  tester' # Idle
      <4>1. tester.phase = "asking"
        BY <2>2, <3>3 DEF IInv, TesterAsks, TesterWaitsFor
      <4> QED BY <3>1, <3>3, <4>1 DEF AfterReply, Idle
    <3> QED BY <1>2, <1>4, <3>2, <3>3 DEF Awake
  <2> QED BY <2>1, <2>2
<1> QED BY <1>1, <1>3, <1>6, <1>7 DEF IInv, BuildActs, Triggered

LEMMA FailBuildIInv ==
    ASSUME IInv, FailBuild
    PROVE  IInv'
<1>1. stray' /\ build' = NoBuild /\ artifact' = artifact
  BY DEF FailBuild
<1>2. tester' = tester \/ tester' = Idle
  BY DEF FailBuild
<1> QED
  BY <1>1, <1>2 DEF IInv, BuildActs, TesterAsks, Triggered, KeptAwake, NoBuild, Idle

LEMMA StartTesterIInv ==
    ASSUME IInv, StartTester
    PROVE  IInv'
<1>1. tester'.phase = "asking" /\ tester'.request = AskNextTest /\ tester' # Idle
  BY DEF StartTester, Idle
<1> QED
  BY <1>1 DEF StartTester, IInv, BuildActs, TesterAsks, Triggered, KeptAwake, Awake

LEMMA TestEndsIInv ==
    ASSUME IInv, NEW a \in {"on_test_success", "on_test_failure"}, TestEnds(a)
    PROVE  IInv'
<1>1. /\ tester'.phase = "reporting" /\ tester'.request.action = a /\ tester' # Idle
      /\ tester.phase = "testing"
  BY DEF TestEnds, Request, Idle
<1> QED
  BY <1>1 DEF TestEnds, IInv, BuildActs, TesterAsks, Triggered, KeptAwake, Awake

LEMMA TesterDiesIInv ==
    ASSUME IInv, TesterDies
    PROVE  IInv'
BY DEF TesterDies, IInv, BuildActs, TesterAsks, Triggered, KeptAwake, Idle

LEMMA NextIInv == ASSUME IInv, [Next]_vars PROVE IInv'
<1>1. ASSUME NEW c \in Changes, Submit(c) PROVE IInv'
  BY <1>1, SubmitIInv
<1>2. ASSUME NEW r \in requests, StartBuild(r) PROVE IInv'
  BY <1>2, StartBuildIInv
<1>3. CASE UNCHANGED vars
  BY <1>3 DEF vars, IInv, BuildActs, TesterAsks, Triggered, KeptAwake, Awake
<1>4. CASE AnyTestEnds
  BY <1>4, TestEndsIInv DEF AnyTestEnds
<1> QED
  BY <1>1, <1>2, <1>3, <1>4, ReportIInv, SaveAndTriggerIInv, EndBuildIInv, FailBuildIInv,
     StartTesterIInv, TesterDiesIInv DEF Next, Steps

LEMMA IInvRests == ASSUME IInv PROVE RestsOnlyWhenDone
BY DEF IInv, KeptAwake, Awake, RestsOnlyWhenDone, AtRest, NoBuild

(***************************************************************************)
(* The queue comes to rest with changes to test only if a build failed or  *)
(* died after the tester was last triggered, for any changes, requirements *)
(* and streams, any verdicts and any number of failures.                   *)
(***************************************************************************)
THEOREM JobsRestOnlyWhenDone == Spec => []RestsOnlyWhenDone
<1>1. IInv /\ [Next]_vars => IInv'
  BY NextIInv
<1> QED BY InitIInv, <1>1, IInvRests, PTL DEF Spec

-----------------------------------------------------------------------------
(* What an action makes of a saved object, and tells.                       *)

IsSeq(s) == \E S : s \in Seq(S)

IsMapping(f) == \E M : f \in [Streams -> M]
IsMap(q) == IsMapping(q.stream_map)

\* An object whose queue is well-formed and sound, with a key it made.
SafeObject(o) ==
    /\ IsObject(o) /\ Fit(o.queue) /\ IsMap(o.queue) /\ \E P : Sound(o.queue, P)
    /\ o.queue.test_key \in 0..o.keys

\* The changes the reports ms tell the end of.
Told(ms) ==
    {ms[i].change : i \in {j \in DOMAIN ms : ms[j].status \in Verdictual \cup {"rejected"}}}

CatOf(s, l, t, m, u) ==
    /\ l \in Nat /\ m \in Nat
    /\ DOMAIN s = 1..l /\ DOMAIN t = 1..m /\ DOMAIN u = 1..(l + m)
    /\ \A i \in 1..l : u[i] = s[i]
    /\ \A i \in 1..m : u[l + i] = t[i]

LEMMA CatIsSeq ==
    ASSUME NEW s, NEW t, IsSeq(s), IsSeq(t)
    PROVE  IsSeq(s \o t) /\ s \o << >> = s /\ CatOf(s, Len(s), t, Len(t), s \o t)
<1>1. PICK S, T : s \in Seq(S) /\ t \in Seq(T)
  BY DEF IsSeq
<1>2. PICK U : U = S \cup T
  OBVIOUS
<1>3. s \in Seq(U) /\ t \in Seq(U)
  BY <1>1, <1>2
<1>4. s \o t \in Seq(U)
  BY <1>3
<1>5. IsSeq(s \o t)
  BY <1>4 DEF IsSeq
<1>6. /\ s \o << >> = s
      /\ Len(s) \in Nat /\ DOMAIN s = 1..Len(s)
      /\ Len(t) \in Nat /\ DOMAIN t = 1..Len(t)
      /\ DOMAIN (s \o t) = 1..(Len(s) + Len(t))
      /\ \A i \in 1..Len(s) : (s \o t)[i] = s[i]
      /\ \A i \in 1..Len(t) : (s \o t)[Len(s) + i] = t[i]
  BY <1>3
<1>7. CatOf(s, Len(s), t, Len(t), s \o t)
  BY <1>6 DEF CatOf
<1> QED BY <1>5, <1>6, <1>7

LEMMA ToldCat ==
    ASSUME NEW s, NEW t, IsSeq(s), IsSeq(t)
    PROVE  Told(s) \cup Told(t) \subseteq Told(s \o t)
<1>1. PICK u : u = s \o t
  OBVIOUS
<1>2. PICK l, m : l = Len(s) /\ m = Len(t)
  OBVIOUS
<1>3. /\ l \in Nat /\ m \in Nat /\ DOMAIN s = 1..l /\ DOMAIN t = 1..m /\ DOMAIN u = 1..(l + m)
      /\ \A i \in 1..l : u[i] = s[i]
      /\ \A i \in 1..m : u[l + i] = t[i]
  <2>1. CatOf(s, Len(s), t, Len(t), s \o t)
    BY CatIsSeq
  <2>2. CatOf(s, l, t, m, u)
    BY <1>1, <1>2, <2>1, Zenon
  <2> QED BY <2>2, Zenon DEF CatOf
<1>4. \A i \in 1..l : i \in 1..(l + m)
  BY <1>3
<1>5. \A i \in 1..m : l + i \in 1..(l + m)
  BY <1>3
<1>6. ASSUME NEW i \in 1..l, s[i].status \in Verdictual \cup {"rejected"}
      PROVE  s[i].change \in Told(u)
  <2>1. u[i] = s[i] /\ i \in DOMAIN u
    BY <1>3, <1>4
  <2> QED BY <1>6, <2>1 DEF Told
<1>7. ASSUME NEW i \in 1..m, t[i].status \in Verdictual \cup {"rejected"}
      PROVE  t[i].change \in Told(u)
  <2>1. u[l + i] = t[i] /\ l + i \in DOMAIN u
    BY <1>3, <1>5
  <2> QED BY <1>7, <2>1 DEF Told
<1>8. Told(s) \subseteq Told(u)
  BY <1>3, <1>6 DEF Told
<1>9. Told(t) \subseteq Told(u)
  BY <1>3, <1>7 DEF Told
<1> QED BY <1>1, <1>8, <1>9

LEMMA MailIs ==
    ASSUME NEW cs \in Seq(Changes), NEW status, NEW cause, NEW test
    PROVE  /\ IsSeq(Mail(cs, status, cause, test))
           /\ status \in Verdictual \cup {"rejected"} =>
                ToSet(cs) \subseteq Told(Mail(cs, status, cause, test))
<1>1. PICK ms : ms = Mail(cs, status, cause, test)
  OBVIOUS
<1>2. PICK l \in Nat : l = Len(cs)
  OBVIOUS
<1>3. DOMAIN cs = 1..l
  BY <1>2
<1>4. ms = [i \in 1..l |->
              [change |-> cs[i], status |-> status, cause |-> cause, test |-> test]]
  BY <1>1, <1>3 DEF Mail
<1>5. IsSeq(ms)
  <2>1. PICK S : S = {ms[i] : i \in 1..l}
    OBVIOUS
  <2>2. ms \in [1..l -> S]
    BY <1>4, <2>1
  <2>3. ms \in Seq(S)
    BY <2>2
  <2> QED BY <2>3 DEF IsSeq
<1>6. ASSUME status \in Verdictual \cup {"rejected"} PROVE ToSet(cs) \subseteq Told(ms)
  <2>1. \A i \in 1..l : ms[i].change = cs[i] /\ ms[i].status = status /\ i \in DOMAIN ms
    BY <1>4
  <2> QED BY <1>3, <1>6, <2>1 DEF ToSet, Told
<1> QED BY <1>1, <1>5, <1>6

\* The reports of two lists.
LEMMA TwoMails ==
    ASSUME NEW cs \in Seq(Changes), NEW ds \in Seq(Changes), NEW s1, NEW s2,
           NEW cause, NEW e, NEW t1, NEW t2, s2 \in Verdictual \cup {"rejected"}
    PROVE  LET ms == Mail(cs, s1, cause, t1) \o Mail(ds, s2, e, t2)
           IN  /\ IsSeq(ms) /\ ToSet(ds) \subseteq Told(ms)
               /\ s1 \in Verdictual \cup {"rejected"} => ToSet(cs) \subseteq Told(ms)
<1>1. PICK a, b : a = Mail(cs, s1, cause, t1) /\ b = Mail(ds, s2, e, t2)
  OBVIOUS
<1>2. IsSeq(a) /\ IsSeq(b) /\ ToSet(ds) \subseteq Told(b)
      /\ (s1 \in Verdictual \cup {"rejected"} => ToSet(cs) \subseteq Told(a))
  BY <1>1, MailIs
<1>3. IsSeq(a \o b) /\ Told(a) \cup Told(b) \subseteq Told(a \o b)
  BY <1>2, CatIsSeq, ToldCat
<1> QED BY <1>1, <1>2, <1>3

LEMMA VerdictsIsSeq ==
    ASSUME NEW r, r.successful \in Seq(Changes), r.failed \in Seq(Changes)
    PROVE  IsSeq(Verdicts(r))
<1>1. ASSUME NEW cs \in Seq(Changes), NEW part, NEW cause PROVE IsSeq(Verdict(cs, part, cause))
  <2>1. PICK v : v = Verdict(cs, part, cause)
    OBVIOUS
  <2>2. PICK l \in Nat : l = Len(cs) /\ DOMAIN cs = 1..l
    OBVIOUS
  <2>3. v = [i \in 1..l |-> [change |-> cs[i], part |-> part, cause |-> cause]]
    BY <2>1, <2>2 DEF Verdict
  <2>4. PICK S : S = {v[i] : i \in 1..l}
    OBVIOUS
  <2>5. v \in [1..l -> S]
    BY <2>3, <2>4
  <2>6. v \in Seq(S)
    BY <2>5
  <2> QED BY <2>1, <2>6 DEF IsSeq
<1>2. IsSeq(Verdict(r.successful, "passed", r.cause))
  BY <1>1
<1>3. CASE r.failed = << >>
  <2>1. << >> \in Seq({})
    OBVIOUS
  <2>2. IsSeq(<< >>)
    BY <2>1 DEF IsSeq
  <2> QED BY <1>2, <1>3, <2>2, CatIsSeq DEF Verdicts
<1>4. CASE r.failed # << >>
  <2>1. << Head(r.failed) >> \in Seq(Changes) /\ Tail(r.failed) \in Seq(Changes)
    BY <1>4
  <2>2. /\ IsSeq(Verdict(<< Head(r.failed) >>, "culprit", r.cause))
        /\ IsSeq(Verdict(Tail(r.failed), "dependant", r.cause))
    BY <1>1, <2>1
  <2>3. IsSeq(Verdict(<< Head(r.failed) >>, "culprit", r.cause)
                \o Verdict(Tail(r.failed), "dependant", r.cause))
    BY <2>2, CatIsSeq, Zenon
  <2>4. IsSeq(Verdict(r.successful, "passed", r.cause)
                \o (Verdict(<< Head(r.failed) >>, "culprit", r.cause)
                    \o Verdict(Tail(r.failed), "dependant", r.cause)))
    BY <1>2, <2>3, CatIsSeq, Zenon
  <2> QED BY <1>4, <2>4, Zenon DEF Verdicts
<1> QED BY <1>3, <1>4

-----------------------------------------------------------------------------
LEMMA MapStays ==
    ASSUME NEW q, IsMap(q), NEW t, t.stream_map = q.stream_map
    PROVE  IsMap(t)
BY Zenon DEF IsMap

\* a is what adding c to the object o yields.
AddsTo(o, c, a) ==
    /\ SafeObject(a.object) /\ a.object.keys = o.keys
    /\ a.object.queue = Added(o.queue, c).queue /\ SameUnderTest(o.queue, a.object.queue)
    /\ a.done.tests = {} /\ a.done.submitted = {c} /\ a.done.judged = << >>
    /\ a.done.rejected = Added(o.queue, c).rejected /\ IsSeq(a.done.rejected)
    /\ IsSeq(a.mails) /\ Members(o.queue) \cup {c} \subseteq Members(a.object.queue) \cup Told(a.mails)

LEMMA ActAddEffect ==
    ASSUME NEW o, SafeObject(o), NEW c \in Changes
    PROVE  AddsTo(o, c, ActAdd(o, c))
<1>1. PICK r : r = Added(o.queue, c)
  OBVIOUS
<1>2. PICK a : a = ActAdd(o, c)
  OBVIOUS
<1>3. PICK q : q = r.queue
  OBVIOUS
<1>4. PICK ms : ms = Mail(r.added, "added", NoChange, NoTest)
                        \o Mail(r.rejected, "rejected", NoChange, NoTest)
  OBVIOUS
<1>5. a = [object |-> [o EXCEPT !.queue = q], mails |-> ms,
           done |-> [Nothing EXCEPT !.submitted = {c}, !.rejected = r.rejected]]
  BY <1>1, <1>2, <1>3, <1>4, Zenon DEF ActAdd
<1>6. a.mails = ms /\ a.object = [o EXCEPT !.queue = q]
  BY <1>5
<1>7. /\ a.done.tests = {} /\ a.done.submitted = {c} /\ a.done.judged = << >>
      /\ a.done.rejected = r.rejected
  BY <1>5 DEF Nothing
<1>8. IsObject(o) /\ Fit(o.queue) /\ IsMap(o.queue) /\ o.queue.test_key \in 0..o.keys
  BY Zenon DEF SafeObject
<1>9. PICK P : Sound(o.queue, P)
  BY Zenon DEF SafeObject
<1>10. Adds(o.queue, P, c, r)
  <2>1. IsQueue(o.queue)
    BY <1>8, Zenon DEF Fit
  <2> QED BY <1>1, <1>9, <2>1, AddedEffect, Zenon
<1>11. /\ IsQueue(q) /\ Sound(q, P) /\ SameUnderTest(o.queue, q)
       /\ r.added \in Seq(Changes) /\ r.rejected \in Seq(Changes)
       /\ Members(q) \cup ToSet(r.rejected) = Members(o.queue) \cup {c}
  BY <1>3, <1>10, Zenon DEF Adds
<1>12. /\ a.object = [queue |-> q, keys |-> o.keys, last_successful |-> o.last_successful,
                      last_failed |-> o.last_failed]
       /\ o.keys \in Nat
  BY <1>6, <1>8 DEF IsObject
<1>13. IsObject(a.object) /\ a.object.queue = q /\ a.object.keys = o.keys
  BY <1>12 DEF IsObject
<1>14. Fit(q)
  BY <1>8, <1>11, AddKeepsFit, Zenon
<1>15. q.test_key = o.queue.test_key /\ q.stream_map = o.queue.stream_map
  BY <1>11, Zenon DEF SameUnderTest
<1>16. IsMap(q) /\ q.test_key \in 0..o.keys
  BY <1>8, <1>15, MapStays, Zenon
<1>17. SafeObject(a.object)
  BY <1>11, <1>13, <1>14, <1>16, Zenon DEF SafeObject
<1>18. IsSeq(ms) /\ ToSet(r.rejected) \subseteq Told(ms)
  BY <1>4, <1>11, TwoMails
<1>19. IsSeq(r.rejected)
  BY <1>11, Zenon DEF IsSeq
<1>20. Members(o.queue) \cup {c} \subseteq Members(q) \cup Told(ms)
  BY <1>11, <1>18
<1>21. AddsTo(o, c, a)
  BY <1>1, <1>3, <1>6, <1>7, <1>11, <1>13, <1>17, <1>18, <1>19, <1>20, Zenon DEF AddsTo
<1> QED BY <1>2, <1>21

\* a is what asking the object o for the next test yields.
NextOf(o, a) ==
    /\ SafeObject(a.object) /\ a.object.queue = NextTest(o.queue, o.keys + 1)
    /\ Tests(o.queue, o.keys + 1, a.object.queue)
    /\ a.object.keys = IF a.object.queue.test_key > o.keys THEN o.keys + 1 ELSE o.keys
    /\ a.object.queue.test_key = NoKey => Head(o.queue.state) = << >>
    /\ a.done.tests = IF Head(o.queue.state) = << >> THEN {}
                      ELSE {[key |-> a.object.queue.test_key, list |-> Head(o.queue.state)]}
    /\ a.done.submitted = {} /\ a.done.rejected = << >> /\ a.done.judged = << >>
    /\ IsSeq(a.mails) /\ Members(o.queue) \subseteq Members(a.object.queue)

LEMMA EmptyHeadHasNoKey ==
    ASSUME NEW q, Fit(q), Head(q.state) = << >>
    PROVE  q.test_key = NoKey
<1>1. IsQueue(q) /\ Shaped(q) /\ KeyFits(q)
  BY Zenon DEF Fit
<1>2. ~(Len(q.state) >= 2)
  BY <1>1, HeadNotEmpty
<1> QED BY <1>1, <1>2, Zenon DEF KeyFits

LEMMA EmptyIsSeq == IsSeq(<< >>)
<1>1. << >> \in Seq({})
  OBVIOUS
<1> QED BY <1>1 DEF IsSeq

LEMMA ActNextTestEffect ==
    ASSUME NEW o, SafeObject(o)
    PROVE  NextOf(o, ActNextTest(o))
<1>1. PICK q : q = NextTest(o.queue, o.keys + 1)
  OBVIOUS
<1>2. PICK a : a = ActNextTest(o)
  OBVIOUS
<1>3. /\ IsObject(o) /\ Fit(o.queue) /\ IsMap(o.queue) /\ o.queue.test_key \in 0..o.keys
      /\ o.keys \in Nat
  BY Zenon DEF SafeObject, IsObject
<1>4. PICK k : k = IF q.test_key > o.keys THEN o.keys + 1 ELSE o.keys
  OBVIOUS
<1>5. PICK d : d = IF q.test_key = NoKey THEN Nothing
                   ELSE [Nothing EXCEPT !.tests = {[key |-> q.test_key, list |-> Head(q.state)]}]
  OBVIOUS
<1>6. a = [object |-> [o EXCEPT !.queue = q, !.keys = k], mails |-> << >>, done |-> d]
  <2>1. [o EXCEPT !.queue = q, !.keys = IF q.test_key > @ THEN @ + 1 ELSE @]
          = [o EXCEPT !.queue = q, !.keys = k]
    BY <1>4
  <2> QED BY <1>1, <1>2, <1>5, <2>1 DEF ActNextTest
<1>7. a.mails = << >> /\ a.object = [o EXCEPT !.queue = q, !.keys = k] /\ a.done = d
  BY <1>6
<1>8. Tests(o.queue, o.keys + 1, q)
  BY <1>1, <1>3, NextTestEffect, Zenon
<1>9. /\ Fit(q) /\ Queued(q) = Queued(o.queue) /\ q.awaiting = o.queue.awaiting
      /\ q.stream_map = o.queue.stream_map /\ Head(q.state) = Head(o.queue.state)
      /\ IF Head(o.queue.state) = << >> THEN q = o.queue
         ELSE q.test_key = IF o.queue.test_key = NoKey THEN o.keys + 1 ELSE o.queue.test_key
  BY <1>8, Zenon DEF Tests
<1>10. Head(o.queue.state) = << >> => q.test_key = NoKey
  <2>1. Head(o.queue.state) = << >> => q = o.queue
    BY <1>9
  <2> QED BY <1>3, <2>1, EmptyHeadHasNoKey, Zenon
<1>11. /\ k \in Nat /\ q.test_key \in 0..k
       /\ Head(o.queue.state) # << >> => q.test_key # NoKey
  <2>1. CASE Head(o.queue.state) = << >>
    <3>1. q.test_key = 0
      BY <1>10, <2>1 DEF NoKey
    <3> QED BY <1>3, <1>4, <2>1, <3>1
  <2>2. CASE Head(o.queue.state) # << >>
    <3>1. q.test_key = IF o.queue.test_key = 0 THEN o.keys + 1 ELSE o.queue.test_key
      BY <1>9, <2>2, Zenon DEF NoKey
    <3> QED BY <1>3, <1>4, <3>1 DEF NoKey
  <2> QED BY <2>1, <2>2
<1>12. a.object = [queue |-> q, keys |-> k, last_successful |-> o.last_successful,
                   last_failed |-> o.last_failed]
  BY <1>3, <1>7 DEF IsObject
<1>13. IsObject(a.object) /\ a.object.queue = q /\ a.object.keys = k
  BY <1>11, <1>12 DEF IsObject
<1>14. IsMap(q)
  BY <1>3, <1>9, MapStays, Zenon
<1>15. \E P : Sound(q, P)
  <2>1. PICK P : Sound(o.queue, P)
    BY Zenon DEF SafeObject
  <2>2. Sound(q, P)
    BY <1>9, <2>1, Zenon DEF Sound
  <2> QED BY <2>2
<1>16. SafeObject(a.object)
  BY <1>9, <1>11, <1>13, <1>14, <1>15, Zenon DEF SafeObject
<1>17. /\ d.tests = IF Head(o.queue.state) = << >> THEN {}
                    ELSE {[key |-> q.test_key, list |-> Head(o.queue.state)]}
       /\ d.submitted = {} /\ d.rejected = << >> /\ d.judged = << >>
  <2>1. CASE q.test_key = NoKey
    BY <1>5, <1>11, <2>1 DEF Nothing
  <2>2. CASE q.test_key # NoKey
    <3>1. Head(o.queue.state) # << >> /\ Head(q.state) = Head(o.queue.state)
      BY <1>9, <1>10, <2>2, Zenon
    <3>2. d = [Nothing EXCEPT !.tests = {[key |-> q.test_key, list |-> Head(o.queue.state)]}]
      BY <1>5, <2>2, <3>1, Zenon
    <3> QED BY <3>1, <3>2 DEF Nothing
  <2> QED BY <2>1, <2>2
<1>18. Members(q) = Members(o.queue)
  BY <1>9, Zenon DEF Members
<1>19. q.test_key = NoKey => Head(o.queue.state) = << >>
  BY <1>11
<1>20. NextOf(o, a)
  BY <1>1, <1>4, <1>7, <1>8, <1>13, <1>16, <1>17, <1>18, <1>19, EmptyIsSeq, Zenon DEF NextOf
<1> QED BY <1>2, <1>20

\* a is what a verdict with the key yields.
Outcome(o, action) == IF action = "on_test_success" THEN OnSuccess(o.queue)
                                                    ELSE OnFailure(o.queue)

JudgesIn(o, action, key, a) ==
    IF TestKeyMatch(o.queue, key)
    THEN /\ SafeObject(a.object) /\ a.object.keys = o.keys
         /\ a.object.queue = Outcome(o, action).queue /\ a.object.queue.test_key = NoKey
         /\ a.done.judged = Verdicts(Outcome(o, action)) /\ IsSeq(a.done.judged)
         /\ a.done.tests = {} /\ a.done.submitted = {} /\ a.done.rejected = << >>
         /\ IsSeq(a.mails)
         /\ Members(o.queue) \subseteq Members(a.object.queue) \cup Told(a.mails)
    ELSE a.object = o /\ a.done = Nothing /\ IsSeq(a.mails)

LEMMA BlamedMapIsMap ==
    ASSUME NEW map, NEW cs, NEW x
    PROVE  IsMapping(BlamedMap(Forgiven(map, cs), x))
<1>1. PICK f : f = Forgiven(map, cs)
  OBVIOUS
<1>2. PICK g : g = BlamedMap(f, x)
  OBVIOUS
<1>3. f = [s \in Streams |-> f[s]]
  BY <1>1 DEF Forgiven
<1>4. g = f \/ g = [f EXCEPT ![Stream[x]] = Blamed(f, x)]
  BY <1>2, Zenon DEF BlamedMap
<1>5. g = [s \in Streams |-> g[s]]
  <2>1. PICK b : b = Blamed(f, x)
    OBVIOUS
  <2>2. CASE g = f
    BY <1>3, <2>2, Zenon
  <2>3. CASE g = [f EXCEPT ![Stream[x]] = b]
    BY <1>3, <2>3
  <2> QED BY <1>4, <2>1, <2>2, <2>3, Zenon
<1>6. g \in [Streams -> {g[s] : s \in Streams}]
  BY <1>5
<1> QED BY <1>1, <1>2, <1>6, Zenon DEF IsMapping

LEMMA ForgivenIsMap ==
    ASSUME NEW map, NEW cs
    PROVE  IsMapping(Forgiven(map, cs))
<1>1. PICK f : f = Forgiven(map, cs)
  OBVIOUS
<1>2. f = [s \in Streams |-> f[s]]
  BY <1>1 DEF Forgiven
<1>3. f \in [Streams -> {f[s] : s \in Streams}]
  BY <1>2
<1> QED BY <1>1, <1>3, Zenon DEF IsMapping

LEMMA OutcomeJudges ==
    ASSUME NEW o, SafeObject(o), NEW action, NEW key, TestKeyMatch(o.queue, key)
    PROVE  \E P : \E ok \in Seq(Changes) : Judges(o.queue, P, ok, Outcome(o, action))
<1>1. IsQueue(o.queue) /\ Shaped(o.queue) /\ KeyFits(o.queue) /\ IsMap(o.queue)
  BY Zenon DEF SafeObject, Fit
<1>2. PICK P : Sound(o.queue, P)
  BY Zenon DEF SafeObject
<1>3. Len(o.queue.state) >= 2
  BY <1>1, Zenon DEF TestKeyMatch, KeyFits
<1>4. CASE action = "on_test_success"
  <2>1. Judges(o.queue, P, Head(o.queue.state), OnSuccess(o.queue))
    BY <1>1, <1>2, <1>3, SuccessEffect, Zenon
  <2>2. Head(o.queue.state) \in Seq(Changes)
    BY <1>1, <1>3, HeadNotEmpty, Zenon
  <2> QED BY <1>4, <2>1, <2>2, Zenon DEF Outcome
<1>5. CASE action # "on_test_success"
  <2>1. PICK M : o.queue.stream_map \in [Streams -> M]
    BY <1>1, Zenon DEF IsMap, IsMapping
  <2>2. Judges(o.queue, P, << >>, OnFailure(o.queue))
    BY <1>1, <1>2, <1>3, <2>1, FailureEffect, Zenon
  <2>3. << >> \in Seq(Changes)
    OBVIOUS
  <2> QED BY <1>5, <2>2, <2>3, Zenon DEF Outcome
<1> QED BY <1>4, <1>5

LEMMA ActVerdictEffect ==
    ASSUME NEW o, SafeObject(o), NEW action, NEW key, NEW tested
    PROVE  JudgesIn(o, action, key, ActVerdict(o, action, key, tested))
<1>1. PICK a : a = ActVerdict(o, action, key, tested)
  OBVIOUS
<1>2. CASE ~TestKeyMatch(o.queue, key)
  <2>1. a = [object |-> o, mails |-> << >>, done |-> Nothing]
    BY <1>1, <1>2, Zenon DEF ActVerdict
  <2>2. a.object = o /\ a.mails = << >> /\ a.done = Nothing
    BY <2>1
  <2> QED BY <1>1, <1>2, <2>2, EmptyIsSeq, Zenon DEF JudgesIn
<1>3. CASE TestKeyMatch(o.queue, key)
  <2>1. PICK r : r = Outcome(o, action)
    OBVIOUS
  <2>2. PICK named : named = IF action = "on_test_success"
                             THEN [o EXCEPT !.last_successful = tested]
                             ELSE [o EXCEPT !.last_failed = tested]
    OBVIOUS
  <2>3. PICK ms : ms = Mail(r.successful, "successful", r.cause, named.last_successful)
                          \o Mail(r.failed, "failed", r.cause, named.last_failed)
    OBVIOUS
  <2>4. a = [object |-> [named EXCEPT !.queue = r.queue], mails |-> ms,
             done |-> [Nothing EXCEPT !.judged = Verdicts(r)]]
    BY <1>1, <1>3, <2>1, <2>2, <2>3, Zenon DEF ActVerdict, Outcome
  <2>5. a.mails = ms /\ a.object = [named EXCEPT !.queue = r.queue]
    BY <2>4
  <2>6. /\ a.done.tests = {} /\ a.done.submitted = {} /\ a.done.rejected = << >>
        /\ a.done.judged = Verdicts(r)
    <3>1. PICK v : v = Verdicts(r)
      OBVIOUS
    <3>2. a.done = [Nothing EXCEPT !.judged = v]
      BY <2>4, <3>1
    <3> QED BY <3>1, <3>2 DEF Nothing
  <2>7. IsObject(o)
    BY Zenon DEF SafeObject
  <2>8. IsObject(a.object) /\ a.object.queue = r.queue /\ a.object.keys = o.keys
    <3>1. PICK x, y : named = [queue |-> o.queue, keys |-> o.keys,
                               last_successful |-> x, last_failed |-> y]
      BY <2>2, <2>7 DEF IsObject
    <3>2. a.object = [queue |-> r.queue, keys |-> o.keys,
                      last_successful |-> x, last_failed |-> y] /\ o.keys \in Nat
      BY <2>5, <2>7, <3>1 DEF IsObject
    <3> QED BY <3>2 DEF IsObject
  <2>9. PICK P, ok : ok \in Seq(Changes) /\ Judges(o.queue, P, ok, r)
    BY <1>3, <2>1, OutcomeJudges, Zenon
  <2>10. /\ IsQueue(r.queue) /\ Sound(r.queue, P \cup IdsOf(ok)) /\ Shaped(r.queue)
         /\ r.queue.test_key = NoKey /\ r.successful = ok /\ r.failed \in Seq(Changes)
         /\ Members(o.queue) = Members(r.queue) \cup ToSet(ok) \cup ToSet(r.failed)
         /\ \/ r.queue.stream_map = Forgiven(o.queue.stream_map, ok)
            \/ r.queue.stream_map = BlamedMap(Forgiven(o.queue.stream_map, ok), Head(r.failed))
    BY <2>9, Zenon DEF Judges
  <2>11. Fit(r.queue)
    BY <2>10, Zenon DEF Fit, KeyFits
  <2>12. IsMap(r.queue)
    <3>1. CASE r.queue.stream_map = Forgiven(o.queue.stream_map, ok)
      BY <3>1, ForgivenIsMap, Zenon DEF IsMap
    <3>2. CASE r.queue.stream_map = BlamedMap(Forgiven(o.queue.stream_map, ok), Head(r.failed))
      BY <3>2, BlamedMapIsMap, Zenon DEF IsMap
    <3> QED BY <2>10, <3>1, <3>2, Zenon
  <2>13. r.queue.test_key \in 0..o.keys
    <3>1. r.queue.test_key = 0 /\ o.keys \in Nat
      BY <2>7, <2>10, Zenon DEF NoKey, IsObject
    <3> QED BY <3>1
  <2>14. SafeObject(a.object)
    BY <2>8, <2>10, <2>11, <2>12, <2>13, Zenon DEF SafeObject
  <2>15. /\ IsSeq(ms) /\ ToSet(r.failed) \subseteq Told(ms) /\ ToSet(ok) \subseteq Told(ms)
    <3>1. "failed" \in Verdictual \cup {"rejected"} /\ "successful" \in Verdictual \cup {"rejected"}
      BY DEF Verdictual
    <3>2. ms = Mail(ok, "successful", r.cause, named.last_successful)
                 \o Mail(r.failed, "failed", r.cause, named.last_failed)
      BY <2>3, <2>10, Zenon
    <3> QED BY <2>9, <2>10, <3>1, <3>2, TwoMails
  <2>16. Members(o.queue) \subseteq Members(r.queue) \cup Told(ms)
    BY <2>10, <2>15
  <2>17. IsSeq(Verdicts(r))
    <3>1. r.successful \in Seq(Changes) /\ r.failed \in Seq(Changes)
      BY <2>9, <2>10, Zenon
    <3> QED BY <3>1, VerdictsIsSeq, Zenon
  <2>18. JudgesIn(o, action, key, a)
    BY <1>3, <2>1, <2>5, <2>6, <2>8, <2>10, <2>14, <2>15, <2>16, <2>17, Zenon DEF JudgesIn
  <2> QED BY <1>1, <2>18
<1> QED BY <1>2, <1>3

-----------------------------------------------------------------------------
(* What is saved, asked for, tested and told.                               *)

\* A change may be added that was not, the verdict told of a test handed out.
IsRequest(r) ==
    \/ r = AskNextTest
    \/ \E c \in Changes : r = Request("add", c, NoTest) /\ c \notin committed.submitted
    \/ \E t \in committed.tests, action \in {"on_test_success", "on_test_failure"} :
          r = Request(action, t.key, t.list)

Reported(c) == \E m \in mails : m.change = c /\ m.status \in Verdictual \cup {"rejected"}

\* A build reports what its action tells before it ends, and is not asked for
\* again meanwhile, if it is an addition.
BuildTells ==
    build # NoBuild =>
        /\ IsRequest(build.request)
        /\ build.done = Act(artifact, build.request).done
        /\ IsSeq(build.mails) /\ (build.phase = "end" => build.mails = << >>)
        /\ \A c \in Told(Act(artifact, build.request).mails) :
              c \in Told(build.mails) \/ Reported(c)
        /\ build.request.action = "add" => build.request \notin requests

TesterHasTest ==
    tester.phase = "testing" => [key |-> tester.key, list |-> tester.list] \in committed.tests

\* The tests handed out have keys that were made, and the current key stands
\* for what is in the first section now.
TestsAreCurrent ==
    \A t \in committed.tests :
        /\ t.key \in 1..artifact.keys
        /\ t.key = artifact.queue.test_key => t.list = Head(artifact.queue.state)

(***************************************************************************)
(* The inductive invariant of what is saved.                               *)
(***************************************************************************)
SavedInv ==
    /\ SafeObject(artifact)
    /\ \A r \in requests : IsRequest(r)
    /\ BuildTells
    /\ TesterHasTest
    /\ TestsAreCurrent
    /\ IsSeq(committed.rejected) /\ IsSeq(committed.judged)
    /\ NoChangeLeavesUntold

\* The end of a build commits what its action a made and returned.
Commits(a) ==
    /\ artifact' = a.object
    /\ committed'.tests = committed.tests \cup a.done.tests
    /\ committed'.submitted = committed.submitted \cup a.done.submitted
    /\ committed'.rejected = committed.rejected \o a.done.rejected
    /\ committed'.judged = committed.judged \o a.done.judged

\* One of the three kinds of calls yields a.
CallAdd(c, a) ==
    /\ build.request = Request("add", c, NoTest) /\ c \notin committed.submitted
    /\ AddsTo(artifact, c, a)
CallNextTest(a) == build.request = AskNextTest /\ NextOf(artifact, a)
CallVerdict(t, action, a) ==
    /\ build.request = Request(action, t.key, t.list)
    /\ JudgesIn(artifact, action, t.key, a)

Called(a) ==
    \/ \E c \in Changes : CallAdd(c, a)
    \/ CallNextTest(a)
    \/ \E t \in committed.tests, action \in {"on_test_success", "on_test_failure"} :
          CallVerdict(t, action, a)

LEMMA EndCommits ==
    ASSUME IInv, SavedInv, EndBuild, NEW a, a = Act(artifact, build.request)
    PROVE  Commits(a) /\ Called(a)
<1>1. build # NoBuild
  BY DEF EndBuild, NoBuild
<1>2. SafeObject(artifact) /\ IsRequest(build.request) /\ build.done = a.done
      /\ build.object = a.object
  BY <1>1, Zenon DEF SavedInv, BuildTells, IInv, BuildActs
<1>3. Commits(a)
  <2>1. PICK d : d = a.done
    OBVIOUS
  <2>2. /\ artifact' = a.object
        /\ committed' = [ tests     |-> committed.tests \cup d.tests,
                          submitted |-> committed.submitted \cup d.submitted,
                          rejected  |-> committed.rejected \o d.rejected,
                          judged    |-> committed.judged \o d.judged ]
    BY <1>2, <2>1, Zenon DEF EndBuild
  <2>3. /\ committed'.tests = committed.tests \cup d.tests
        /\ committed'.submitted = committed.submitted \cup d.submitted
        /\ committed'.rejected = committed.rejected \o d.rejected
        /\ committed'.judged = committed.judged \o d.judged
    BY <2>2
  <2> QED BY <2>1, <2>2, <2>3, Zenon DEF Commits
<1>4. CASE build.request = AskNextTest
  <2>1. build.request.action = "get_next_test"
    BY <1>4 DEF AskNextTest, Request
  <2>2. a = ActNextTest(artifact)
    BY <2>1 DEF Act
  <2>3. CallNextTest(a)
    BY <1>2, <1>4, <2>2, ActNextTestEffect, Zenon DEF CallNextTest
  <2> QED BY <1>3, <2>3, Zenon DEF Called
<1>5. ASSUME NEW c \in Changes, build.request = Request("add", c, NoTest),
             c \notin committed.submitted
      PROVE  Called(a)
  <2>1. build.request.action = "add" /\ build.request.arg = c
    BY <1>5 DEF Request
  <2>2. a = ActAdd(artifact, c)
    BY <2>1 DEF Act
  <2>3. CallAdd(c, a)
    BY <1>2, <1>5, <2>2, ActAddEffect, Zenon DEF CallAdd
  <2> QED BY <2>3, Zenon DEF Called
<1>6. ASSUME NEW t \in committed.tests, NEW action \in {"on_test_success", "on_test_failure"},
             build.request = Request(action, t.key, t.list)
      PROVE  Called(a)
  <2>1. /\ build.request.action = action /\ build.request.arg = t.key
        /\ build.request.tested = t.list
    BY <1>6 DEF Request
  <2>2. a = ActVerdict(artifact, action, t.key, t.list)
    BY <1>6, <2>1 DEF Act
  <2>3. CallVerdict(t, action, a)
    BY <1>2, <1>6, <2>2, ActVerdictEffect, Zenon DEF CallVerdict
  <2> QED BY <2>3, Zenon DEF Called
<1> QED BY <1>2, <1>3, <1>4, <1>5, <1>6, Zenon DEF IsRequest

\* What every call leaves is safe, and tells what it takes out of the queue.
LEMMA CalledIsSafe ==
    ASSUME SavedInv, NEW a, Called(a)
    PROVE  /\ SafeObject(a.object) /\ IsSeq(a.mails)
           /\ IsSeq(a.done.rejected) /\ IsSeq(a.done.judged)
           /\ Members(artifact.queue) \cup a.done.submitted
                 \subseteq Members(a.object.queue) \cup Told(a.mails)
<1>1. ASSUME NEW c \in Changes, CallAdd(c, a)
      PROVE  /\ SafeObject(a.object) /\ IsSeq(a.mails)
             /\ IsSeq(a.done.rejected) /\ IsSeq(a.done.judged)
             /\ Members(artifact.queue) \cup a.done.submitted
                   \subseteq Members(a.object.queue) \cup Told(a.mails)
  BY <1>1, EmptyIsSeq, Zenon DEF CallAdd, AddsTo
<1>2. ASSUME CallNextTest(a)
      PROVE  /\ SafeObject(a.object) /\ IsSeq(a.mails)
             /\ IsSeq(a.done.rejected) /\ IsSeq(a.done.judged)
             /\ Members(artifact.queue) \cup a.done.submitted
                   \subseteq Members(a.object.queue) \cup Told(a.mails)
  <2>1. /\ SafeObject(a.object) /\ IsSeq(a.mails) /\ a.done.submitted = {}
        /\ a.done.rejected = << >> /\ a.done.judged = << >>
        /\ Members(artifact.queue) \subseteq Members(a.object.queue)
    BY <1>2, Zenon DEF CallNextTest, NextOf
  <2>2. IsSeq(a.done.rejected) /\ IsSeq(a.done.judged)
    BY <2>1, EmptyIsSeq, Zenon
  <2>3. Members(artifact.queue) \cup a.done.submitted
           \subseteq Members(a.object.queue) \cup Told(a.mails)
    BY <2>1
  <2> QED BY <2>1, <2>2, <2>3
<1>3. ASSUME NEW t \in committed.tests, NEW action, CallVerdict(t, action, a)
      PROVE  /\ SafeObject(a.object) /\ IsSeq(a.mails)
             /\ IsSeq(a.done.rejected) /\ IsSeq(a.done.judged)
             /\ Members(artifact.queue) \cup a.done.submitted
                   \subseteq Members(a.object.queue) \cup Told(a.mails)
  <2>1. JudgesIn(artifact, action, t.key, a) /\ SafeObject(artifact)
    BY <1>3, Zenon DEF CallVerdict, SavedInv
  <2>2. CASE TestKeyMatch(artifact.queue, t.key)
    <3>1. /\ SafeObject(a.object) /\ IsSeq(a.mails) /\ a.done.submitted = {}
          /\ a.done.rejected = << >> /\ IsSeq(a.done.judged)
          /\ Members(artifact.queue) \subseteq Members(a.object.queue) \cup Told(a.mails)
      BY <2>1, <2>2, Zenon DEF JudgesIn
    <3>2. IsSeq(a.done.rejected)
      BY <3>1, EmptyIsSeq, Zenon
    <3>3. Members(artifact.queue) \cup a.done.submitted
             \subseteq Members(a.object.queue) \cup Told(a.mails)
      BY <3>1
    <3> QED BY <3>1, <3>2, <3>3
  <2>3. CASE ~TestKeyMatch(artifact.queue, t.key)
    <3>1. a.object = artifact /\ a.done = Nothing /\ IsSeq(a.mails)
      BY <2>1, <2>3, Zenon DEF JudgesIn
    <3>2. a.done.submitted = {} /\ a.done.rejected = << >> /\ a.done.judged = << >>
      BY <3>1 DEF Nothing
    <3>3. IsSeq(a.done.rejected) /\ IsSeq(a.done.judged)
      BY <3>2, EmptyIsSeq, Zenon
    <3>4. SafeObject(a.object)
      BY <2>1, <3>1, Zenon
    <3>5. Members(artifact.queue) \cup a.done.submitted
             \subseteq Members(a.object.queue) \cup Told(a.mails)
      BY <3>1, <3>2
    <3> QED BY <3>1, <3>3, <3>4, <3>5
  <2> QED BY <2>2, <2>3
<1> QED BY <1>1, <1>2, <1>3, Zenon DEF Called

LEMMA EndTests ==
    ASSUME SavedInv, NEW a, Commits(a), Called(a)
    PROVE  TestsAreCurrent'
<1>1. /\ SafeObject(artifact) /\ Fit(artifact.queue) /\ artifact.keys \in Nat
      /\ artifact.queue.test_key \in 0..artifact.keys /\ TestsAreCurrent
  BY Zenon DEF SavedInv, SafeObject, IsObject
<1>2. artifact' = a.object /\ committed'.tests = committed.tests \cup a.done.tests
  BY Zenon DEF Commits
<1>3. ASSUME NEW c \in Changes, CallAdd(c, a) PROVE TestsAreCurrent'
  <2>1. /\ artifact'.keys = artifact.keys /\ SameUnderTest(artifact.queue, artifact'.queue)
        /\ a.done.tests = {} /\ SafeObject(artifact')
    BY <1>2, <1>3, Zenon DEF CallAdd, AddsTo
  <2>2. IsQueue(artifact'.queue)
    BY <2>1, Zenon DEF SafeObject, Fit
  <2>3. Len(artifact.queue.state) >= 2 => Head(artifact'.queue.state) = Head(artifact.queue.state)
    BY <1>1, <2>1, <2>2, AddKeepsFit, Zenon
  <2>4. artifact'.queue.test_key = artifact.queue.test_key
    BY <2>1, Zenon DEF SameUnderTest
  <2>5. artifact.queue.test_key # NoKey => Len(artifact.queue.state) >= 2
    BY <1>1, Zenon DEF Fit, KeyFits
  <2>6. \A k \in 1..artifact.keys : k # NoKey
    BY <1>1 DEF NoKey
  <2>7. ASSUME NEW t \in committed'.tests
        PROVE  /\ t.key \in 1..artifact'.keys
               /\ t.key = artifact'.queue.test_key => t.list = Head(artifact'.queue.state)
    <3>1. t \in committed.tests
      BY <1>2, <2>1
    <3>2. /\ t.key \in 1..artifact.keys
          /\ t.key = artifact.queue.test_key => t.list = Head(artifact.queue.state)
      BY <1>1, <3>1, Zenon DEF TestsAreCurrent
    <3> QED BY <2>1, <2>3, <2>4, <2>5, <2>6, <3>2, Zenon
  <2> QED BY <2>7, Zenon DEF TestsAreCurrent
<1>4. ASSUME CallNextTest(a) PROVE TestsAreCurrent'
  <2>1. PICK q : q = artifact'.queue
    OBVIOUS
  <2>2. /\ Tests(artifact.queue, artifact.keys + 1, q)
        /\ artifact'.keys = IF q.test_key > artifact.keys THEN artifact.keys + 1 ELSE artifact.keys
        /\ a.done.tests = IF Head(artifact.queue.state) = << >> THEN {}
                          ELSE {[key |-> q.test_key, list |-> Head(artifact.queue.state)]}
    BY <1>2, <1>4, <2>1, Zenon DEF CallNextTest, NextOf
  <2>3. /\ Head(q.state) = Head(artifact.queue.state)
        /\ IF Head(artifact.queue.state) = << >> THEN q = artifact.queue
           ELSE q.test_key = IF artifact.queue.test_key = NoKey THEN artifact.keys + 1
                             ELSE artifact.queue.test_key
    BY <2>2, Zenon DEF Tests
  <2>4. CASE Head(artifact.queue.state) = << >>
    <3>1. q = artifact.queue /\ committed'.tests = committed.tests
      BY <1>2, <2>2, <2>3, <2>4
    <3>2. artifact'.keys = artifact.keys
      BY <1>1, <2>2, <3>1
    <3> QED BY <1>1, <2>1, <3>1, <3>2, Zenon DEF TestsAreCurrent
  <2>5. CASE Head(artifact.queue.state) # << >> /\ artifact.queue.test_key = NoKey
    <3>1. q.test_key = artifact.keys + 1
      BY <2>3, <2>5
    <3>2. artifact'.keys = artifact.keys + 1
      BY <1>1, <2>2, <3>1
    <3>3. \A k \in 1..artifact.keys : k \in 1..(artifact.keys + 1) /\ k # artifact.keys + 1
      BY <1>1
    <3>4. artifact.keys + 1 \in 1..(artifact.keys + 1)
      BY <1>1
    <3>5. ASSUME NEW t \in committed'.tests
          PROVE  /\ t.key \in 1..artifact'.keys
                 /\ t.key = q.test_key => t.list = Head(q.state)
      <4>1. CASE t \in committed.tests
        <5>1. t.key \in 1..artifact.keys
          BY <1>1, <4>1, Zenon DEF TestsAreCurrent
        <5> QED BY <3>1, <3>2, <3>3, <5>1, Zenon
      <4>2. CASE t = [key |-> q.test_key, list |-> Head(artifact.queue.state)]
        <5>1. t.key = q.test_key /\ t.list = Head(artifact.queue.state)
          BY <4>2
        <5> QED BY <2>3, <3>1, <3>2, <3>4, <5>1, Zenon
      <4> QED BY <1>2, <2>2, <2>5, <3>5, <4>1, <4>2
    <3> QED BY <2>1, <3>5, Zenon DEF TestsAreCurrent
  <2>6. CASE Head(artifact.queue.state) # << >> /\ artifact.queue.test_key # NoKey
    <3>1. q.test_key = artifact.queue.test_key
      BY <2>3, <2>6
    <3>2. artifact'.keys = artifact.keys /\ q.test_key \in 1..artifact.keys
      <4>1. q.test_key \in 0..artifact.keys /\ q.test_key # 0
        BY <1>1, <2>6, <3>1 DEF NoKey
      <4> QED BY <1>1, <2>2, <4>1
    <3>3. ASSUME NEW t \in committed'.tests
          PROVE  /\ t.key \in 1..artifact'.keys
                 /\ t.key = q.test_key => t.list = Head(q.state)
      <4>1. CASE t \in committed.tests
        <5>1. /\ t.key \in 1..artifact.keys
              /\ t.key = artifact.queue.test_key => t.list = Head(artifact.queue.state)
          BY <1>1, <4>1, Zenon DEF TestsAreCurrent
        <5> QED BY <2>3, <3>1, <3>2, <5>1, Zenon
      <4>2. CASE t = [key |-> q.test_key, list |-> Head(artifact.queue.state)]
        <5>1. t.key = q.test_key /\ t.list = Head(artifact.queue.state)
          BY <4>2
        <5> QED BY <2>3, <3>2, <5>1, Zenon
      <4> QED BY <1>2, <2>2, <2>6, <3>3, <4>1, <4>2
    <3> QED BY <2>1, <3>3, Zenon DEF TestsAreCurrent
  <2> QED BY <2>4, <2>5, <2>6
<1>5. ASSUME NEW t \in committed.tests, NEW action, CallVerdict(t, action, a)
      PROVE  TestsAreCurrent'
  <2>1. JudgesIn(artifact, action, t.key, a)
    BY <1>5, Zenon DEF CallVerdict
  <2>2. CASE TestKeyMatch(artifact.queue, t.key)
    <3>1. /\ artifact'.keys = artifact.keys /\ artifact'.queue.test_key = NoKey
          /\ a.done.tests = {}
      BY <1>2, <2>1, <2>2, Zenon DEF JudgesIn
    <3>2. \A k \in 1..artifact.keys : k # NoKey
      BY <1>1 DEF NoKey
    <3>3. committed'.tests = committed.tests
      BY <1>2, <3>1
    <3> QED BY <1>1, <3>1, <3>2, <3>3, Zenon DEF TestsAreCurrent
  <2>3. CASE ~TestKeyMatch(artifact.queue, t.key)
    <3>1. artifact' = artifact /\ a.done = Nothing
      BY <1>2, <2>1, <2>3, Zenon DEF JudgesIn
    <3>2. committed'.tests = committed.tests
      BY <1>2, <3>1 DEF Nothing
    <3> QED BY <1>1, <3>1, <3>2, Zenon DEF TestsAreCurrent
  <2> QED BY <2>2, <2>3
<1> QED BY <1>3, <1>4, <1>5, Zenon DEF Called

\* What is committed was told, as all reports are out when a build ends.
LEMMA EndUntold ==
    ASSUME SavedInv, EndBuild, NEW a, a = Act(artifact, build.request), Commits(a), Called(a)
    PROVE  NoChangeLeavesUntold'
<1>1. /\ artifact' = a.object /\ mails' = mails
      /\ committed'.submitted = committed.submitted \cup a.done.submitted
  BY Zenon DEF Commits, EndBuild
<1>2. \A c \in Told(a.mails) : Reported(c)
  <2>1. build # NoBuild /\ build.phase = "end"
    BY DEF EndBuild, NoBuild
  <2>2. build.mails = << >> /\ \A c \in Told(a.mails) : c \in Told(build.mails) \/ Reported(c)
    BY <2>1, Zenon DEF SavedInv, BuildTells
  <2>3. Told(<< >>) = {}
    BY DEF Told
  <2> QED BY <2>2, <2>3
<1>3. Members(artifact.queue) \cup a.done.submitted \subseteq Members(artifact'.queue) \cup Told(a.mails)
  BY <1>1, CalledIsSafe, Zenon
<1>4. \A q : IsQueue(q) => ToSet(Queued(q)) \cup ToSet(Awaiting(q)) = Members(q)
  BY QueueType DEF Members
<1>5. IsQueue(artifact.queue) /\ IsQueue(artifact'.queue)
  <2>1. SafeObject(artifact')
    BY <1>1, CalledIsSafe, Zenon
  <2> QED BY <2>1, Zenon DEF SavedInv, SafeObject, Fit
<1>6. ASSUME NEW c \in committed.submitted PROVE c \in Members(artifact.queue) \/ Reported(c)
  BY <1>4, <1>5, <1>6, Zenon DEF SavedInv, NoChangeLeavesUntold, Reported
<1>7. ASSUME NEW c \in committed'.submitted PROVE c \in Members(artifact'.queue) \/ Reported(c)
  <2>1. c \in committed.submitted \/ c \in a.done.submitted
    BY <1>1
  <2> QED BY <1>2, <1>3, <1>6, <2>1
<1>8. \A c : Reported(c) = (\E m \in mails' : m.change = c /\ m.status \in Verdictual \cup {"rejected"})
  BY <1>1, Zenon DEF Reported
<1>9. ToSet(Queued(artifact'.queue)) \cup ToSet(Awaiting(artifact'.queue)) = Members(artifact'.queue)
  BY <1>4, <1>5, Zenon
<1> QED BY <1>7, <1>8, <1>9, Zenon DEF NoChangeLeavesUntold

LEMMA EndBuildSaves ==
    ASSUME IInv, SavedInv, EndBuild
    PROVE  SavedInv'
<1>1. PICK a : a = Act(artifact, build.request)
  OBVIOUS
<1>2. Commits(a) /\ Called(a)
  BY <1>1, EndCommits
<1>3. /\ SafeObject(a.object) /\ IsSeq(a.done.rejected) /\ IsSeq(a.done.judged)
  BY <1>2, CalledIsSafe, Zenon
<1>4. /\ artifact' = a.object /\ committed'.tests = committed.tests \cup a.done.tests
      /\ committed'.submitted = committed.submitted \cup a.done.submitted
      /\ committed'.rejected = committed.rejected \o a.done.rejected
      /\ committed'.judged = committed.judged \o a.done.judged
  BY <1>2, Zenon DEF Commits
<1>5. build # NoBuild /\ build' = NoBuild /\ requests' = requests
  BY DEF EndBuild, NoBuild
<1>6. IsSeq(committed'.rejected) /\ IsSeq(committed'.judged)
  <2>1. IsSeq(committed.rejected) /\ IsSeq(committed.judged)
    BY Zenon DEF SavedInv
  <2>2. IsSeq(committed.rejected \o a.done.rejected) /\ IsSeq(committed.judged \o a.done.judged)
    BY <1>3, <2>1, CatIsSeq, Zenon
  <2> QED BY <1>4, <2>2, Zenon
<1>7. ASSUME NEW r \in requests PROVE IsRequest(r)'
  <2>1. IsRequest(r)
    BY Zenon DEF SavedInv
  <2>2. ASSUME NEW c \in Changes, r = Request("add", c, NoTest), c \notin committed.submitted
        PROVE  c \notin committed'.submitted
    <3>1. r # build.request
      <4>1. r.action = "add"
        BY <2>2 DEF Request
      <4> QED BY <1>5, <4>1, Zenon DEF SavedInv, BuildTells
    <3>2. a.done.submitted = {} \/ \E d \in Changes : CallAdd(d, a)
      <4>1. CallNextTest(a) => a.done.submitted = {}
        BY Zenon DEF CallNextTest, NextOf
      <4>2. ASSUME NEW t, NEW action, CallVerdict(t, action, a) PROVE a.done.submitted = {}
        <5>1. JudgesIn(artifact, action, t.key, a)
          BY <4>2, Zenon DEF CallVerdict
        <5>2. a.done.submitted = {} \/ a.done = Nothing
          BY <5>1, Zenon DEF JudgesIn
        <5> QED BY <5>2 DEF Nothing
      <4> QED BY <1>2, <4>1, <4>2, Zenon DEF Called
    <3>3. ASSUME NEW d \in Changes, CallAdd(d, a) PROVE a.done.submitted = {d} /\ d # c
      <4>1. a.done.submitted = {d} /\ build.request = Request("add", d, NoTest)
        BY <3>3, Zenon DEF CallAdd, AddsTo
      <4> QED BY <2>2, <3>1, <4>1, Zenon
    <3> QED BY <1>4, <2>2, <3>2, <3>3
  <2>3. committed.tests \subseteq committed'.tests
    BY <1>4
  <2> QED BY <2>1, <2>2, <2>3, Zenon DEF IsRequest
<1>8. TesterHasTest'
  <2>1. CASE tester' = tester
    <3>1. committed.tests \subseteq committed'.tests
      BY <1>4
    <3> QED BY <2>1, <3>1, Zenon DEF SavedInv, TesterHasTest
  <2>2. CASE TesterWaitsFor(build.request) /\ tester' = AfterReply(build.object)
    <3>1. build.object = a.object
      BY <1>1, <1>5, Zenon DEF IInv, BuildActs
    <3>2. CASE tester.phase = "asking" /\ a.object.queue.test_key # NoKey
      <4>1. build.request = AskNextTest
        BY <2>2, <3>2, Zenon DEF TesterWaitsFor, IInv, TesterAsks
      <4>2. NextOf(artifact, a)
        <5>1. build.request.action = "get_next_test"
          BY <4>1 DEF AskNextTest, Request
        <5>2. a = ActNextTest(artifact)
          BY <1>1, <5>1 DEF Act
        <5> QED BY <5>2, ActNextTestEffect, Zenon DEF SavedInv
      <4>3. /\ Tests(artifact.queue, artifact.keys + 1, a.object.queue)
            /\ Head(artifact.queue.state) # << >>
        <5>1. ASSUME Head(artifact.queue.state) = << >> PROVE FALSE
          <6>1. a.object.queue = artifact.queue
            BY <4>2, <5>1, Zenon DEF NextOf, Tests
          <6>2. Fit(artifact.queue)
            BY Zenon DEF SavedInv, SafeObject
          <6> QED BY <3>2, <5>1, <6>1, <6>2, EmptyHeadHasNoKey, Zenon
        <5> QED BY <4>2, <5>1, Zenon DEF NextOf
      <4>4. Head(a.object.queue.state) = Head(artifact.queue.state)
        BY <4>3, Zenon DEF Tests
      <4>5. [key |-> a.object.queue.test_key, list |-> Head(artifact.queue.state)] \in committed'.tests
        <5>1. a.done.tests = {[key |-> a.object.queue.test_key, list |-> Head(artifact.queue.state)]}
          BY <4>2, <4>3, Zenon DEF NextOf
        <5> QED BY <1>4, <5>1
      <4>6. tester' = [phase |-> "testing", key |-> a.object.queue.test_key,
                       list |-> Head(a.object.queue.state)]
        BY <2>2, <3>1, <3>2, Zenon DEF AfterReply
      <4>7. tester'.key = a.object.queue.test_key /\ tester'.list = Head(a.object.queue.state)
        BY <4>6
      <4> QED BY <4>4, <4>5, <4>7, Zenon DEF TesterHasTest
    <3>3. CASE ~(tester.phase = "asking" /\ a.object.queue.test_key # NoKey)
      <4>1. tester' = Idle
        BY <2>2, <3>1, <3>3, Zenon DEF AfterReply
      <4>2. tester'.phase # "testing"
        BY <4>1 DEF Idle
      <4> QED BY <4>2, Zenon DEF TesterHasTest
    <3> QED BY <3>2, <3>3
  <2> QED BY <2>1, <2>2 DEF EndBuild
<1>9. BuildTells'
  BY <1>5, Zenon DEF BuildTells
<1>10. TestsAreCurrent' /\ NoChangeLeavesUntold'
  BY <1>1, <1>2, EndTests, EndUntold, Zenon
<1>11. SafeObject(artifact')
  BY <1>3, <1>4, Zenon
<1>12. \A r \in requests' : IsRequest(r)'
  BY <1>5, <1>7, Zenon
<1> QED BY <1>6, <1>8, <1>9, <1>10, <1>11, <1>12, Zenon DEF SavedInv

-----------------------------------------------------------------------------
(* The other steps.                                                         *)

LEMMA InitSaves == ASSUME Init PROVE SavedInv
<1>1. /\ artifact = NewObject /\ requests = {} /\ build = NoBuild /\ tester = Idle
      /\ mails = {} /\ committed = Nothing
  BY Zenon DEF Init
<1>2. /\ committed.tests = {} /\ committed.submitted = {}
      /\ committed.rejected = << >> /\ committed.judged = << >>
  BY <1>1 DEF Nothing
<1>3. /\ artifact.queue = NewQueue /\ artifact.keys = 0
      /\ artifact = [queue |-> artifact.queue, keys |-> artifact.keys,
                     last_successful |-> artifact.last_successful,
                     last_failed |-> artifact.last_failed]
  BY <1>1 DEF NewObject
<1>4. IsObject(artifact)
  BY <1>3 DEF IsObject
<1>5. /\ Fit(artifact.queue) /\ \E P : Sound(artifact.queue, P)
      /\ artifact.queue.test_key = NoKey
      /\ artifact.queue.stream_map = [s \in Streams |-> NoChange]
  BY <1>3, NewQueueFits, Zenon
<1>6. IsMap(artifact.queue)
  <2>1. [s \in Streams |-> NoChange] \in [Streams -> {NoChange}]
    OBVIOUS
  <2> QED BY <1>5, <2>1, Zenon DEF IsMap, IsMapping
<1>7. artifact.queue.test_key \in 0..artifact.keys
  BY <1>3, <1>5 DEF NoKey
<1>8. SafeObject(artifact)
  BY <1>4, <1>5, <1>6, <1>7, Zenon DEF SafeObject
<1>9. BuildTells
  BY <1>1, Zenon DEF BuildTells
<1>10. TesterHasTest
  BY <1>1 DEF TesterHasTest, Idle
<1>11. TestsAreCurrent /\ NoChangeLeavesUntold
  BY <1>2 DEF TestsAreCurrent, NoChangeLeavesUntold
<1>12. IsSeq(committed.rejected) /\ IsSeq(committed.judged)
  BY <1>2, EmptyIsSeq, Zenon
<1>13. \A r \in requests : IsRequest(r)
  BY <1>1
<1> QED BY <1>8, <1>9, <1>10, <1>11, <1>12, <1>13, Zenon DEF SavedInv

\* Nothing that is saved changes unless a build ends.
LEMMA NothingSaved ==
    ASSUME SavedInv, UNCHANGED <<artifact, committed>>, mails \subseteq mails'
    PROVE  /\ SafeObject(artifact)' /\ TestsAreCurrent' /\ NoChangeLeavesUntold'
           /\ (IsSeq(committed.rejected) /\ IsSeq(committed.judged))'
           /\ \A r : IsRequest(r) => IsRequest(r)'
           /\ \A c : Reported(c) => Reported(c)'
<1>1. artifact' = artifact /\ committed' = committed
  OBVIOUS
<1>2. \A c : Reported(c) => Reported(c)'
  BY Zenon DEF Reported
<1>3. SafeObject(artifact)' /\ TestsAreCurrent' /\ (IsSeq(committed.rejected) /\ IsSeq(committed.judged))'
  BY <1>1, Zenon DEF SavedInv, TestsAreCurrent
<1>4. \A r : IsRequest(r) => IsRequest(r)'
  BY <1>1, Zenon DEF IsRequest
<1>5. NoChangeLeavesUntold'
  BY <1>1, Zenon DEF SavedInv, NoChangeLeavesUntold
<1> QED BY <1>2, <1>3, <1>4, <1>5

LEMMA SubmitSaves ==
    ASSUME SavedInv, NEW c \in Changes, Submit(c)
    PROVE  SavedInv'
<1>1. /\ requests' = requests \cup {Request("add", c, NoTest)} /\ c \notin committed.submitted
      /\ UNCHANGED <<artifact, committed>> /\ mails' = mails /\ build' = build /\ tester' = tester
      /\ build # NoBuild => build.request # Request("add", c, NoTest)
  BY Zenon DEF Submit
<1>2. mails \subseteq mails'
  BY <1>1
<1>3. /\ SafeObject(artifact)' /\ TestsAreCurrent' /\ NoChangeLeavesUntold'
      /\ (IsSeq(committed.rejected) /\ IsSeq(committed.judged))'
      /\ \A r : IsRequest(r) => IsRequest(r)'
      /\ \A d : Reported(d) => Reported(d)'
  BY <1>1, <1>2, NothingSaved, Zenon
<1>4. IsRequest(Request("add", c, NoTest))
  BY <1>1, Zenon DEF IsRequest
<1>5. \A r \in requests' : IsRequest(r)'
  BY <1>1, <1>3, <1>4 DEF SavedInv
<1>6. BuildTells'
  <2> SUFFICES ASSUME build # NoBuild PROVE BuildTells'
    BY <1>1, Zenon DEF BuildTells
  <2>1. build.request \in requests' => build.request \in requests
    BY <1>1
  <2> QED BY <1>1, <1>3, <2>1, Zenon DEF SavedInv, BuildTells
<1>7. TesterHasTest'
  BY <1>1, Zenon DEF SavedInv, TesterHasTest
<1> QED BY <1>3, <1>5, <1>6, <1>7, Zenon DEF SavedInv

LEMMA ActTells ==
    ASSUME SavedInv, NEW r, IsRequest(r)
    PROVE  IsSeq(Act(artifact, r).mails)
<1>1. CASE r = AskNextTest
  <2>1. r.action = "get_next_test"
    BY <1>1 DEF AskNextTest, Request
  <2>2. Act(artifact, r) = ActNextTest(artifact)
    BY <2>1 DEF Act
  <2> QED BY <2>2, ActNextTestEffect, Zenon DEF SavedInv, NextOf
<1>2. ASSUME NEW c \in Changes, r = Request("add", c, NoTest)
      PROVE  IsSeq(Act(artifact, r).mails)
  <2>1. r.action = "add" /\ r.arg = c
    BY <1>2 DEF Request
  <2>2. Act(artifact, r) = ActAdd(artifact, c)
    BY <2>1 DEF Act
  <2> QED BY <2>2, ActAddEffect, Zenon DEF SavedInv, AddsTo
<1>3. ASSUME NEW t, NEW action \in {"on_test_success", "on_test_failure"},
             r = Request(action, t.key, t.list)
      PROVE  IsSeq(Act(artifact, r).mails)
  <2>1. r.action = action /\ r.arg = t.key /\ r.tested = t.list
    BY <1>3 DEF Request
  <2>2. Act(artifact, r) = ActVerdict(artifact, action, t.key, t.list)
    BY <1>3, <2>1 DEF Act
  <2>3. JudgesIn(artifact, action, t.key, ActVerdict(artifact, action, t.key, t.list))
    BY ActVerdictEffect, Zenon DEF SavedInv
  <2> QED BY <2>2, <2>3, Zenon DEF JudgesIn
<1> QED BY <1>1, <1>2, <1>3, Zenon DEF IsRequest

LEMMA StartBuildSaves ==
    ASSUME SavedInv, NEW r \in requests, StartBuild(r)
    PROVE  SavedInv'
<1>1. PICK a : a = Act(artifact, r)
  OBVIOUS
<1>2. /\ requests' = requests \ {r} /\ UNCHANGED <<artifact, committed>>
      /\ mails' = mails /\ tester' = tester
      /\ build' = [phase |-> "report", request |-> r, object |-> a.object,
                   mails |-> a.mails, done |-> a.done]
  BY <1>1, Zenon DEF StartBuild
<1>3. build'.phase = "report" /\ build'.request = r /\ build'.mails = a.mails /\ build'.done = a.done
  BY <1>2
<1>4. mails \subseteq mails'
  BY <1>2
<1>5. /\ SafeObject(artifact)' /\ TestsAreCurrent' /\ NoChangeLeavesUntold'
      /\ (IsSeq(committed.rejected) /\ IsSeq(committed.judged))'
      /\ \A x : IsRequest(x) => IsRequest(x)'
  BY <1>2, <1>4, NothingSaved, Zenon
<1>6. IsRequest(r) /\ IsSeq(a.mails)
  <2>1. IsRequest(r)
    BY Zenon DEF SavedInv
  <2> QED BY <1>1, <2>1, ActTells, Zenon
<1>7. \A x \in requests' : IsRequest(x)'
  BY <1>2, <1>5 DEF SavedInv
<1>8. BuildTells'
  <2>1. build'.phase # "end" /\ build'.request \notin requests' /\ artifact' = artifact
    BY <1>2, <1>3
  <2> QED BY <1>1, <1>3, <1>5, <1>6, <2>1, Zenon DEF BuildTells
<1>9. TesterHasTest'
  BY <1>2, Zenon DEF SavedInv, TesterHasTest
<1> QED BY <1>5, <1>7, <1>8, <1>9, Zenon DEF SavedInv

LEMMA ToldHeadTail ==
    ASSUME NEW ms, IsSeq(ms), ms # << >>
    PROVE  /\ IsSeq(Tail(ms))
           /\ \A c \in Told(ms) : \/ c \in Told(Tail(ms))
                                  \/ /\ Head(ms).change = c
                                     /\ Head(ms).status \in Verdictual \cup {"rejected"}
<1>1. PICK S : ms \in Seq(S)
  BY DEF IsSeq
<1>2. PICK l \in Nat : l = Len(ms) /\ DOMAIN ms = 1..l
  BY <1>1
<1>3. PICK t : t = Tail(ms)
  OBVIOUS
<1>4. /\ t \in Seq(S) /\ DOMAIN t = 1..(l - 1) /\ Head(ms) = ms[1]
      /\ \A i \in 1..(l - 1) : t[i] = ms[i + 1]
  BY <1>1, <1>2, <1>3
<1>5. \A i \in 1..l : i = 1 \/ (i - 1 \in 1..(l - 1) /\ (i - 1) + 1 = i)
  BY <1>2
<1>6. ASSUME NEW i \in 1..l, ms[i].status \in Verdictual \cup {"rejected"}
      PROVE  \/ ms[i].change \in Told(t)
             \/ /\ Head(ms).change = ms[i].change
                /\ Head(ms).status \in Verdictual \cup {"rejected"}
  <2>1. CASE i = 1
    BY <1>4, <1>6, <2>1, Zenon
  <2>2. CASE i - 1 \in 1..(l - 1) /\ (i - 1) + 1 = i
    <3>1. PICK j \in 1..(l - 1) : j + 1 = i
      BY <2>2
    <3>2. t[j] = ms[i] /\ j \in DOMAIN t
      BY <1>4, <3>1
    <3> QED BY <1>6, <3>2 DEF Told
  <2> QED BY <1>5, <2>1, <2>2, Zenon
<1>7. IsSeq(t)
  BY <1>4, Zenon DEF IsSeq
<1>8. \A c \in Told(ms) : \E i \in 1..l : ms[i].change = c /\ ms[i].status \in Verdictual \cup {"rejected"}
  BY <1>2 DEF Told
<1> QED BY <1>3, <1>6, <1>7, <1>8

\* A build that goes on has the same request, and tells what is left of its
\* reports.
LEMMA GoingOnSaves ==
    ASSUME SavedInv, build # NoBuild, NEW r, r = build.request, NEW ms, ms = build.mails,
           NEW rest, IsSeq(rest), \A c \in Told(ms) : c \in Told(rest) \/ Reported(c)',
           UNCHANGED <<artifact, committed>>, requests' = requests, tester' = tester,
           mails \subseteq mails', build'.request = r, build'.mails = rest,
           build'.done = build.done, build'.phase = "end" => rest = << >>
    PROVE  SavedInv'
<1>1. /\ SafeObject(artifact)' /\ TestsAreCurrent' /\ NoChangeLeavesUntold'
      /\ (IsSeq(committed.rejected) /\ IsSeq(committed.judged))'
      /\ \A x : IsRequest(x) => IsRequest(x)'
      /\ \A c : Reported(c) => Reported(c)'
  BY NothingSaved, Zenon
<1>2. PICK a : a = Act(artifact, r)
  OBVIOUS
<1>3. /\ IsRequest(r) /\ build.done = a.done
      /\ \A c \in Told(a.mails) : c \in Told(ms) \/ Reported(c)
      /\ r.action = "add" => r \notin requests
  BY <1>2, Zenon DEF SavedInv, BuildTells
<1>4. a = Act(artifact', r)
  BY <1>2
<1>5. \A c \in Told(a.mails) : c \in Told(rest) \/ Reported(c)'
  BY <1>1, <1>3, Zenon
<1>6. IsRequest(r)' /\ build'.done = a.done
  BY <1>1, <1>3, Zenon
<1>7. BuildTells'
  BY <1>3, <1>4, <1>5, <1>6, Zenon DEF BuildTells
<1>8. TesterHasTest' /\ \A x \in requests' : IsRequest(x)'
  BY <1>1, Zenon DEF SavedInv, TesterHasTest
<1> QED BY <1>1, <1>7, <1>8, Zenon DEF SavedInv

LEMMA ReportSaves ==
    ASSUME IInv, SavedInv, Report
    PROVE  SavedInv'
<1>1. /\ build.phase = "report" /\ build.mails # << >> /\ mails' = mails \cup {Head(build.mails)}
      /\ build' = [build EXCEPT !.mails = Tail(@)] /\ requests' = requests
      /\ UNCHANGED <<artifact, committed>> /\ tester' = tester
  BY Zenon DEF Report
<1>2. build # NoBuild
  BY <1>1 DEF NoBuild
<1>3. build = [phase |-> build.phase, request |-> build.request, object |-> build.object,
               mails |-> build.mails, done |-> build.done]
  BY <1>2, Zenon DEF IInv, BuildActs
<1>4. PICK r, ms, rest : r = build.request /\ ms = build.mails /\ rest = Tail(ms)
  OBVIOUS
<1>5. /\ build'.phase = "report" /\ build'.request = r /\ build'.mails = rest
      /\ build'.done = build.done /\ build'.phase # "end"
  BY <1>1, <1>3, <1>4
<1>6. mails \subseteq mails' /\ Head(ms) \in mails'
  BY <1>1, <1>4
<1>7. IsSeq(ms) /\ ms # << >>
  BY <1>1, <1>2, <1>4, Zenon DEF SavedInv, BuildTells
<1>8. /\ IsSeq(rest)
      /\ \A c \in Told(ms) : \/ c \in Told(rest)
                             \/ /\ Head(ms).change = c
                                /\ Head(ms).status \in Verdictual \cup {"rejected"}
  BY <1>4, <1>7, ToldHeadTail, Zenon
<1>9. \A c \in Told(ms) : c \in Told(rest) \/ Reported(c)'
  BY <1>6, <1>8, Zenon DEF Reported
<1>10. UNCHANGED <<artifact, committed>> /\ requests' = requests /\ tester' = tester
  BY <1>1
<1> QED BY <1>2, <1>4, <1>5, <1>6, <1>8, <1>9, <1>10, GoingOnSaves, Zenon

LEMMA SaveAndTriggerSaves ==
    ASSUME IInv, SavedInv, SaveAndTrigger
    PROVE  SavedInv'
<1>1. /\ build.phase = "report" /\ build.mails = << >> /\ mails' = mails
      /\ build' = [build EXCEPT !.phase = "end"] /\ requests' = requests
      /\ UNCHANGED <<artifact, committed>> /\ tester' = tester
  BY Zenon DEF SaveAndTrigger
<1>2. build # NoBuild
  BY <1>1 DEF NoBuild
<1>3. build = [phase |-> build.phase, request |-> build.request, object |-> build.object,
               mails |-> build.mails, done |-> build.done]
  BY <1>2, Zenon DEF IInv, BuildActs
<1>4. PICK r, ms : r = build.request /\ ms = build.mails
  OBVIOUS
<1>5. /\ build'.request = r /\ build'.mails = ms /\ build'.done = build.done /\ ms = << >>
  BY <1>1, <1>3, <1>4
<1>6. Told(ms) = {} /\ mails \subseteq mails' /\ IsSeq(ms)
  <2>1. Told(<< >>) = {}
    BY DEF Told
  <2> QED BY <1>1, <1>5, <2>1, EmptyIsSeq
<1>7. \A c \in Told(ms) : c \in Told(ms) \/ Reported(c)'
  OBVIOUS
<1>8. UNCHANGED <<artifact, committed>> /\ requests' = requests /\ tester' = tester
  BY <1>1
<1> QED BY <1>2, <1>4, <1>5, <1>6, <1>7, <1>8, GoingOnSaves, Zenon

\* A build or a tester that fails, and a step that does nothing.
LEMMA FailingSaves ==
    ASSUME SavedInv, UNCHANGED <<artifact, committed>>, mails' = mails, requests' = requests,
           build' = build \/ build' = NoBuild, tester' = tester \/ tester' = Idle
    PROVE  SavedInv'
<1>1. mails \subseteq mails'
  OBVIOUS
<1>2. /\ SafeObject(artifact)' /\ TestsAreCurrent' /\ NoChangeLeavesUntold'
      /\ (IsSeq(committed.rejected) /\ IsSeq(committed.judged))'
      /\ \A x : IsRequest(x) => IsRequest(x)'
      /\ \A c : Reported(c) => Reported(c)'
  BY <1>1, NothingSaved, Zenon
<1>3. BuildTells'
  <2>1. CASE build' = NoBuild
    BY <2>1, Zenon DEF BuildTells
  <2>2. CASE build' = build
    BY <1>2, <2>2, Zenon DEF SavedInv, BuildTells
  <2> QED BY <2>1, <2>2
<1>4. TesterHasTest'
  <2>1. Idle.phase # "testing"
    BY DEF Idle
  <2> QED BY <2>1, Zenon DEF SavedInv, TesterHasTest
<1>5. \A r \in requests' : IsRequest(r)'
  BY <1>2, Zenon DEF SavedInv
<1> QED BY <1>2, <1>3, <1>4, <1>5, Zenon DEF SavedInv

\* A tester asks for something that may be asked for.
LEMMA AskingSaves ==
    ASSUME SavedInv, NEW r, IsRequest(r), r.action # "add", tester'.phase # "testing",
           requests' = requests \cup {r}, UNCHANGED <<artifact, committed, mails, build>>
    PROVE  SavedInv'
<1>1. mails \subseteq mails' /\ mails' = mails
  OBVIOUS
<1>2. /\ SafeObject(artifact)' /\ TestsAreCurrent' /\ NoChangeLeavesUntold'
      /\ (IsSeq(committed.rejected) /\ IsSeq(committed.judged))'
      /\ \A x : IsRequest(x) => IsRequest(x)'
      /\ \A c : Reported(c) => Reported(c)'
  BY <1>1, NothingSaved, Zenon
<1>3. BuildTells'
  <2>1. build.request.action = "add" /\ build.request \in requests' => build.request \in requests
    OBVIOUS
  <2>2. build' = build /\ artifact' = artifact
    OBVIOUS
  <2> QED BY <1>2, <2>1, <2>2, Zenon DEF SavedInv, BuildTells
<1>4. \A x \in requests' : IsRequest(x)'
  BY <1>2 DEF SavedInv
<1> QED BY <1>2, <1>3, <1>4, Zenon DEF SavedInv, TesterHasTest

LEMMA StartTesterSaves ==
    ASSUME SavedInv, StartTester PROVE SavedInv'
<1>1. IsRequest(AskNextTest) /\ AskNextTest.action # "add"
  BY DEF IsRequest, AskNextTest, Request
<1>2. /\ tester'.phase # "testing" /\ requests' = requests \cup {AskNextTest}
      /\ UNCHANGED <<artifact, committed, mails, build>>
  BY DEF StartTester
<1> QED BY <1>1, <1>2, AskingSaves, Zenon

LEMMA TestEndsSaves ==
    ASSUME SavedInv, NEW action \in {"on_test_success", "on_test_failure"}, TestEnds(action)
    PROVE  SavedInv'
<1>1. PICK r : r = Request(action, tester.key, tester.list)
  OBVIOUS
<1>2. /\ tester' = [phase |-> "reporting", request |-> r] /\ requests' = requests \cup {r}
      /\ UNCHANGED <<artifact, committed, mails, build>> /\ tester.phase = "testing"
  BY <1>1, Zenon DEF TestEnds
<1>3. IsRequest(r)
  <2>1. PICK t : t = [key |-> tester.key, list |-> tester.list]
    OBVIOUS
  <2>2. t \in committed.tests
    BY <1>2, <2>1, Zenon DEF SavedInv, TesterHasTest
  <2>3. t.key = tester.key /\ t.list = tester.list
    BY <2>1
  <2> QED BY <1>1, <2>2, <2>3, Zenon DEF IsRequest
<1>4. r.action # "add" /\ tester'.phase # "testing"
  BY <1>1, <1>2 DEF Request
<1> QED BY <1>2, <1>3, <1>4, AskingSaves, Zenon

LEMMA NextSaves == ASSUME IInv, SavedInv, [Next]_vars PROVE SavedInv'
<1>1. ASSUME NEW c \in Changes, Submit(c) PROVE SavedInv'
  BY <1>1, SubmitSaves
<1>2. ASSUME NEW r \in requests, StartBuild(r) PROVE SavedInv'
  BY <1>2, StartBuildSaves
<1>3. ASSUME FailBuild PROVE SavedInv'
  <2>1. /\ UNCHANGED <<artifact, committed>> /\ mails' = mails /\ requests' = requests
        /\ build' = NoBuild /\ (tester' = tester \/ tester' = Idle)
    BY <1>3, Zenon DEF FailBuild
  <2> QED BY <2>1, FailingSaves, Zenon
<1>4. ASSUME TesterDies PROVE SavedInv'
  <2>1. /\ UNCHANGED <<artifact, committed>> /\ mails' = mails /\ requests' = requests
        /\ build' = build /\ tester' = Idle
    BY <1>4, Zenon DEF TesterDies
  <2> QED BY <2>1, FailingSaves, Zenon
<1>5. ASSUME UNCHANGED vars PROVE SavedInv'
  <2>1. /\ UNCHANGED <<artifact, committed>> /\ mails' = mails /\ requests' = requests
        /\ build' = build /\ tester' = tester
    BY <1>5, Zenon DEF vars
  <2> QED BY <2>1, FailingSaves, Zenon
<1>6. ASSUME AnyTestEnds PROVE SavedInv'
  BY <1>6, TestEndsSaves DEF AnyTestEnds
<1> QED
  BY <1>1, <1>2, <1>3, <1>4, <1>5, <1>6, ReportSaves, SaveAndTriggerSaves, EndBuildSaves,
     StartTesterSaves, Zenon DEF Next, Steps

LEMMA AlwaysSaved == Spec => [](IInv /\ SavedInv)
<1>1. Init => IInv /\ SavedInv
  BY InitIInv, InitSaves
<1>2. IInv /\ SavedInv /\ [Next]_vars => IInv' /\ SavedInv'
  BY NextIInv, NextSaves
<1> QED BY <1>1, <1>2, PTL DEF Spec

(***************************************************************************)
(* A change whose addition succeeded stays in the saved queue until its    *)
(* fate is reported, whichever builds fail between a report and a save.    *)
(***************************************************************************)
THEOREM NoChangeIsLost == Spec => []NoChangeLeavesUntold
<1>1. SavedInv => NoChangeLeavesUntold
  BY Zenon DEF SavedInv
<1> QED BY <1>1, AlwaysSaved, PTL

(***************************************************************************)
(* A tester that holds the saved key tests what the saved queue has in its *)
(* first section, so the verdict it will tell is about those changes.      *)
(***************************************************************************)
THEOREM TestedIsFirstSection == Spec => []TesterTestsFirstSection
<1>1. SavedInv => TesterTestsFirstSection
  <2> SUFFICES ASSUME SavedInv, tester.phase = "testing",
                      tester.key = artifact.queue.test_key
               PROVE  tester.list = Head(artifact.queue.state)
    BY DEF TesterTestsFirstSection
  <2>1. PICK t : t = [key |-> tester.key, list |-> tester.list]
    OBVIOUS
  <2>2. t \in committed.tests /\ TestsAreCurrent
    BY <2>1, Zenon DEF SavedInv, TesterHasTest
  <2>3. t.key = tester.key /\ t.list = tester.list
    BY <2>1
  <2> QED BY <2>2, <2>3, Zenon DEF TestsAreCurrent
<1> QED BY <1>1, AlwaysSaved, PTL

-----------------------------------------------------------------------------
(* The methods are those of the queue in memory.                            *)

LEMMA SamePicked == ASSUME NEW s, NEW I PROVE InMemory!Picked(s, I) = Picked(s, I)
BY Zenon DEF InMemory!Picked, Picked

LEMMA SameFlatten == ASSUME NEW ss PROVE InMemory!FlattenSeq(ss) = FlattenSeq(ss)
BY Zenon DEF InMemory!FlattenSeq, FlattenSeq

LEMMA SameDependants ==
    ASSUME NEW id, NEW cs
    PROVE  InMemory!DependantsOn(id, cs) = DependantsOn(id, cs)
BY Zenon DEF InMemory!DependantsOn, DependantsOn, InMemory!ClosedUnder, ClosedUnder,
             InMemory!Needing, Needing

LEMMA SamePlaceAll ==
    ASSUME NEW q, NEW turn
    PROVE  InMemory!PlaceAll(q, turn) = PlaceAll(q, turn)
BY Zenon DEF InMemory!PlaceAll, PlaceAll, InMemory!Place, Place, InMemory!IdsOf, IdsOf,
             InMemory!AddToLast, AddToLast

LEMMA SameAdded ==
    ASSUME NEW q, NEW c
    PROVE  InMemory!Added(q, c) = Added(q, c)
BY SamePicked, SameFlatten, SameDependants, SamePlaceAll, Zenon
   DEF InMemory!Added, Added, InMemory!MissingDeps, MissingDeps, InMemory!IdsOf, IdsOf,
       InMemory!Queued, Queued, InMemory!Awaiting, Awaiting, InMemory!ToSet, ToSet,
       InMemory!AwaitingWithIds, AwaitingWithIds, InMemory!RemoveAwaiting, RemoveAwaiting,
       InMemory!AwaitingWithoutIds, AwaitingWithoutIds

LEMMA SameNextTest ==
    ASSUME NEW q, NEW k
    PROVE  InMemory!NextTest(q, k) = NextTest(q, k)
BY Zenon DEF InMemory!NextTest, NextTest, NoKey, InMemory!NoKey

LEMMA SameDepsFailure ==
    ASSUME NEW q
    PROVE  InMemory!DepsFailure(q) = DepsFailure(q)
BY Zenon
   DEF InMemory!DepsFailure, DepsFailure, InMemory!Culprits, Culprits,
       InMemory!AfterFailure, AfterFailure, InMemory!NoKey, NoKey,
       InMemory!WithoutDependantsOn, WithoutDependantsOn, InMemory!Queued, Queued,
       InMemory!Awaiting, Awaiting, InMemory!ToSet, ToSet, InMemory!RemoveAwaiting,
       RemoveAwaiting, InMemory!AwaitingWithoutIds, AwaitingWithoutIds,
       InMemory!WithIds, WithIds, InMemory!WithoutIds, WithoutIds,
       InMemory!Picked, Picked, InMemory!FlattenSeq, FlattenSeq,
       InMemory!DependantsOn, DependantsOn, InMemory!ClosedUnder, ClosedUnder,
       InMemory!Needing, Needing

LEMMA SameOutcome ==
    ASSUME NEW q
    PROVE  InMemory!OnFailure(q) = OnFailure(q) /\ InMemory!OnSuccess(q) = OnSuccess(q)
<1>1. \A r : InMemory!BlameFirstInStream(r) = BlameFirstInStream(r)
  BY Zenon DEF InMemory!BlameFirstInStream, BlameFirstInStream
<1>2. InMemory!OnFailure(q) = OnFailure(q)
  BY <1>1, SameDepsFailure, Zenon DEF InMemory!OnFailure, OnFailure
<1>3. InMemory!OnSuccess(q) = OnSuccess(q)
  BY <1>1, SameDepsFailure, Zenon DEF InMemory!OnSuccess, OnSuccess, InMemory!NoKey, NoKey
<1> QED BY <1>2, <1>3

LEMMA SameVerdicts == ASSUME NEW r PROVE InMemory!Verdicts(r) = Verdicts(r)
BY Zenon DEF InMemory!Verdicts, Verdicts, InMemory!Verdict, Verdict

(* Each build that ends is one call in memory, or none.                     *)

MemoryVars ==
    <<artifact.queue, artifact.keys, committed.tests, committed.submitted,
      committed.rejected, committed.judged>>

LEMMA AddInMemory ==
    ASSUME SavedInv, NEW a, Commits(a), NEW c \in Changes, CallAdd(c, a)
    PROVE  InMemory!Add(c)
<1>1. /\ c \notin committed.submitted /\ a.object.keys = artifact.keys
      /\ a.object.queue = Added(artifact.queue, c).queue
      /\ a.done.tests = {} /\ a.done.submitted = {c} /\ a.done.judged = << >>
      /\ a.done.rejected = Added(artifact.queue, c).rejected
  BY Zenon DEF CallAdd, AddsTo
<1>2. PICK r : r = Added(artifact.queue, c)
  OBVIOUS
<1>3. /\ artifact'.queue = r.queue /\ artifact'.keys = artifact.keys
      /\ committed'.tests = committed.tests \cup {}
      /\ committed'.submitted = committed.submitted \cup {c}
      /\ committed'.rejected = committed.rejected \o r.rejected
      /\ committed'.judged = committed.judged \o << >>
  BY <1>1, <1>2, Zenon DEF Commits
<1>4. committed'.tests = committed.tests
  BY <1>3
<1>5. committed'.judged = committed.judged
  BY <1>3, CatIsSeq, EmptyIsSeq, Zenon DEF SavedInv
<1> QED BY <1>1, <1>2, <1>3, <1>4, <1>5, SameAdded, Zenon DEF InMemory!Add

LEMMA NextTestInMemory ==
    ASSUME SavedInv, NEW a, Commits(a), CallNextTest(a)
    PROVE  InMemory!GetNextTest
<1>1. /\ a.object.queue = NextTest(artifact.queue, artifact.keys + 1)
      /\ a.object.keys = IF a.object.queue.test_key > artifact.keys THEN artifact.keys + 1
                                                                   ELSE artifact.keys
      /\ a.done.tests = IF Head(artifact.queue.state) = << >> THEN {}
                        ELSE {[key |-> a.object.queue.test_key,
                               list |-> Head(artifact.queue.state)]}
      /\ a.done.submitted = {} /\ a.done.rejected = << >> /\ a.done.judged = << >>
  BY Zenon DEF CallNextTest, NextOf
<1>2. /\ artifact'.queue = a.object.queue /\ artifact'.keys = a.object.keys
      /\ committed'.tests = committed.tests \cup a.done.tests
      /\ committed'.submitted = committed.submitted \cup {}
      /\ committed'.rejected = committed.rejected \o << >>
      /\ committed'.judged = committed.judged \o << >>
  BY <1>1, Zenon DEF Commits
<1>3. committed'.submitted = committed.submitted
  BY <1>2
<1>4. committed'.judged = committed.judged /\ committed'.rejected = committed.rejected
  BY <1>2, CatIsSeq, EmptyIsSeq, Zenon DEF SavedInv
<1>5. committed'.tests = IF Head(artifact.queue.state) = << >> THEN committed.tests
                         ELSE committed.tests \cup {[key |-> artifact'.queue.test_key,
                                                     list |-> Head(artifact.queue.state)]}
  BY <1>1, <1>2
<1>6. artifact'.queue = NextTest(artifact.queue, artifact.keys + 1)
  BY <1>1, <1>2, Zenon
<1>7. artifact'.keys = IF artifact'.queue.test_key > artifact.keys THEN artifact.keys + 1
                                                                  ELSE artifact.keys
  BY <1>1, <1>2, Zenon
<1> QED
  BY <1>3, <1>4, <1>5, <1>6, <1>7, SameNextTest, Zenon DEF InMemory!GetNextTest

\* A verdict that is told with the current key is one in memory, ...
LEMMA VerdictInMemory ==
    ASSUME SavedInv, NEW a, Commits(a), NEW t \in committed.tests,
           NEW action \in {"on_test_success", "on_test_failure"}, CallVerdict(t, action, a),
           TestKeyMatch(artifact.queue, t.key)
    PROVE  InMemory!OnTestFailure(t.key) \/ InMemory!OnTestSuccess(t.key)
<1>1. PICK r : r = Outcome(artifact, action)
  OBVIOUS
<1>2. /\ a.object.queue = r.queue /\ a.object.keys = artifact.keys
      /\ a.done.judged = Verdicts(r) /\ a.done.tests = {} /\ a.done.submitted = {}
      /\ a.done.rejected = << >>
  BY <1>1, Zenon DEF CallVerdict, JudgesIn
<1>3. PICK vs : vs = Verdicts(r)
  OBVIOUS
<1>4. /\ artifact'.queue = r.queue /\ artifact'.keys = artifact.keys
      /\ committed'.tests = committed.tests \cup {}
      /\ committed'.submitted = committed.submitted \cup {}
      /\ committed'.rejected = committed.rejected \o << >>
      /\ committed'.judged = committed.judged \o vs
  BY <1>2, <1>3, Zenon DEF Commits
<1>5. committed'.tests = committed.tests /\ committed'.submitted = committed.submitted
  BY <1>4
<1>6. committed'.rejected = committed.rejected
  BY <1>4, CatIsSeq, EmptyIsSeq, Zenon DEF SavedInv
<1>7. vs = InMemory!Verdicts(r)
  BY <1>3, SameVerdicts, Zenon
<1>8. InMemory!TestKeyMatch(t.key)
  BY Zenon DEF TestKeyMatch, InMemory!TestKeyMatch, NoKey, InMemory!NoKey
<1>9. CASE action = "on_test_success"
  <2>1. r = InMemory!OnSuccess(artifact.queue)
    BY <1>1, <1>9, SameOutcome, Zenon DEF Outcome
  <2> QED BY <1>4, <1>5, <1>6, <1>7, <1>8, <2>1, Zenon DEF InMemory!OnTestSuccess
<1>10. CASE action # "on_test_success"
  <2>1. r = InMemory!OnFailure(artifact.queue)
    BY <1>1, <1>10, SameOutcome, Zenon DEF Outcome
  <2> QED BY <1>4, <1>5, <1>6, <1>7, <1>8, <2>1, Zenon DEF InMemory!OnTestFailure
<1> QED BY <1>9, <1>10

\* ... and one that is told with an old key is none.
LEMMA OldVerdictInMemory ==
    ASSUME SavedInv, NEW a, Commits(a), NEW t, NEW action, CallVerdict(t, action, a),
           ~TestKeyMatch(artifact.queue, t.key)
    PROVE  UNCHANGED MemoryVars
<1>1. a.object = artifact /\ a.done = Nothing
  BY Zenon DEF CallVerdict, JudgesIn
<1>2. /\ a.done.tests = {} /\ a.done.submitted = {}
      /\ a.done.rejected = << >> /\ a.done.judged = << >>
  BY <1>1 DEF Nothing
<1>3. /\ artifact' = artifact
      /\ committed'.tests = committed.tests \cup {}
      /\ committed'.submitted = committed.submitted \cup {}
      /\ committed'.rejected = committed.rejected \o << >>
      /\ committed'.judged = committed.judged \o << >>
  BY <1>1, <1>2, Zenon DEF Commits
<1>4. committed'.tests = committed.tests /\ committed'.submitted = committed.submitted
  BY <1>3
<1>5. committed'.judged = committed.judged /\ committed'.rejected = committed.rejected
  BY <1>3, CatIsSeq, EmptyIsSeq, Zenon DEF SavedInv
<1> QED BY <1>3, <1>4, <1>5 DEF MemoryVars

LEMMA EndBuildInMemory ==
    ASSUME IInv, SavedInv, EndBuild
    PROVE  InMemory!Next \/ UNCHANGED MemoryVars
<1>1. PICK a : Commits(a) /\ Called(a)
  BY EndCommits
<1>2. ASSUME NEW c \in Changes, CallAdd(c, a) PROVE InMemory!Next
  BY <1>1, <1>2, AddInMemory, Zenon DEF InMemory!Next
<1>3. ASSUME CallNextTest(a) PROVE InMemory!Next
  BY <1>1, <1>3, NextTestInMemory, Zenon DEF InMemory!Next
<1>4. ASSUME NEW t \in committed.tests, NEW action \in {"on_test_success", "on_test_failure"},
             CallVerdict(t, action, a)
      PROVE  InMemory!Next \/ UNCHANGED MemoryVars
  <2>1. CASE TestKeyMatch(artifact.queue, t.key)
    BY <1>1, <1>4, <2>1, VerdictInMemory, Zenon DEF InMemory!Next
  <2>2. CASE ~TestKeyMatch(artifact.queue, t.key)
    BY <1>1, <1>4, <2>2, OldVerdictInMemory, Zenon
  <2> QED BY <2>1, <2>2
<1> QED BY <1>1, <1>2, <1>3, <1>4, Zenon DEF Called

LEMMA NextInMemory ==
    ASSUME IInv, SavedInv, [Next]_vars
    PROVE  [InMemory!Next]_(InMemory!vars)
<1>1. CASE EndBuild
  BY <1>1, EndBuildInMemory, Zenon DEF MemoryVars, InMemory!vars
<1>2. CASE UNCHANGED <<artifact, committed>>
  BY <1>2 DEF InMemory!vars
<1>3. EndBuild \/ UNCHANGED <<artifact, committed>>
  BY Zenon DEF Next, Steps, Submit, StartBuild, Report, SaveAndTrigger, FailBuild,
               StartTester, TesterDies, AnyTestEnds, TestEnds, vars
<1> QED BY <1>1, <1>2, <1>3

(***************************************************************************)
(* The jobs implement the queue in memory: whatever fails, the saved queue *)
(* is what a queue that never fails would be after the builds that         *)
(* succeeded, in their order.                                              *)
(***************************************************************************)
THEOREM JobsImplementMemory == Spec => ImplementsInMemory
<1>1. Init => InMemory!Init
  <2> SUFFICES ASSUME Init PROVE InMemory!Init
    OBVIOUS
  <2>1. artifact.queue = NewQueue /\ artifact.keys = 0
    BY DEF Init, NewObject
  <2>2. /\ committed.tests = {} /\ committed.submitted = {}
        /\ committed.rejected = << >> /\ committed.judged = << >>
    BY DEF Init, Nothing
  <2>3. NewQueue = InMemory!NewQueue
    BY Zenon DEF NewQueue, InMemory!NewQueue, NoKey, InMemory!NoKey
  <2> QED BY <2>1, <2>2, <2>3, Zenon DEF InMemory!Init
<1>2. IInv /\ SavedInv /\ [Next]_vars => [InMemory!Next]_(InMemory!vars)
  BY NextInMemory
<1> QED BY <1>1, <1>2, AlwaysSaved, PTL DEF Spec, ImplementsInMemory, InMemory!Spec

-----------------------------------------------------------------------------
(* What a failure splits and whom it blames, by name of the sets of changes. *)

\* x failed of its own, or requires what did.
Blameable(x, D) ==
    \E c \in Changes : D = {c} /\ (x = c \/ Id[x] \in DependantsOn(Id[c], Changes))

\* The two first of three sections are what the set D was split into.
SplitFrom(st, D) == Len(st) >= 3 => ToSet(st[1]) \cup ToSet(st[2]) = D

FailsInSet(q, r) ==
    /\ IsOutcome(r) /\ IsWhole(r.queue)
    /\ r.successful = << >> /\ r.failed \in Seq(Changes)
    /\ SplitFrom(r.queue.state, ToSet(Head(q.state)))
    /\ \A x \in ToSet(r.failed) : Blameable(x, ToSet(Head(q.state)))

LEMMA SplitsInSet ==
    ASSUME NEW q, IsQueue(q), Shaped(q), Len(q.state) >= 2, Culprits(q.state) = << >>
    PROVE  FailsInSet(q, DepsFailure(q))
<1>1. PICK s : s = [q EXCEPT !.state = AfterFailure(@), !.test_key = NoKey]
  OBVIOUS
<1>2. Split(q, s)
  BY <1>1, SplitIs DEF IsQueue
<1>3. PICK r : r = DepsFailure(q)
  OBVIOUS
<1>4. r = [queue |-> s, successful |-> << >>, failed |-> << >>, cause |-> NoChange]
  BY <1>1, <1>3, Zenon DEF DepsFailure
<1>5. IsOutcome(r) /\ r.queue = s /\ r.successful = << >> /\ r.failed = << >>
  BY <1>4 DEF IsOutcome
<1>6. q.state \in Seq(Seq(Changes)) /\ q.state # << >>
  BY Zenon DEF IsQueue
<1>7. Head(q.state) # << >> /\ Head(q.state) \in Seq(Changes)
  BY HeadNotEmpty
<1>8. PICK h \in Seq(Changes) : h = Head(q.state) /\ h # << >>
  BY <1>7
<1>9. Len(h) # 0 /\ Len(h) # 1
  <2>1. Len(h) = 1 => Culprits(q.state) = h
    BY <1>8 DEF Culprits
  <2> QED BY <1>8, <2>1
<1>10. q.state[1] = h
  <2>1. PICK U : U = Seq(Changes)
    OBVIOUS
  <2>2. q.state \in Seq(U)
    BY <1>6, <2>1
  <2> QED BY <1>8, <2>2
<1>11. s.state[1] = First(h) /\ s.state[2] = Second(h)
  <2>1. s.state = AfterFailure(q.state)
    BY <1>2, Zenon DEF Split
  <2>2. AfterFailure(q.state)[1] = First(q.state[1]) /\ AfterFailure(q.state)[2] = Second(q.state[1])
    BY <1>6, <1>8, <1>9, AfterSplit
  <2> QED BY <1>10, <2>1, <2>2
<1>12. ToSet(First(h)) \cup ToSet(Second(h)) = ToSet(h)
  BY <1>9, Halves
<1>13. SplitFrom(s.state, ToSet(h))
  BY <1>11, <1>12 DEF SplitFrom
<1>14. << >> \in Seq(Changes) /\ ToSet(<< >>) = {}
  BY DEF ToSet
<1>15. IsWhole(s)
  BY <1>2, Zenon DEF Split
<1> QED BY <1>3, <1>5, <1>8, <1>13, <1>14, <1>15, Zenon DEF FailsInSet

LEMMA BlamesInSet ==
    ASSUME NEW q, IsQueue(q), Shaped(q), Len(q.state) >= 2, Culprits(q.state) # << >>
    PROVE  FailsInSet(q, DepsFailure(q))
<1>1. PICK s : s = [q EXCEPT !.state = AfterFailure(@), !.test_key = NoKey]
  OBVIOUS
<1>2. Split(q, s)
  BY <1>1, SplitIs DEF IsQueue
<1>3. PICK k : k = Culprits(q.state)
  OBVIOUS
<1>4. PICK x : x = Head(k)
  OBVIOUS
<1>5. q.state \in Seq(Seq(Changes)) /\ q.state # << >> /\ q.awaiting \in Seq(Waiting)
  BY Zenon DEF IsQueue
<1>6. Head(q.state) # << >> /\ Head(q.state) \in Seq(Changes)
  BY HeadNotEmpty
<1>7. k = Head(q.state) /\ Len(Head(q.state)) = 1
  BY <1>3 DEF Culprits
<1>8. k \in Seq(Changes) /\ Len(k) = 1 /\ x \in Changes /\ ToSet(k) = {x}
  <2>1. k \in Seq(Changes) /\ Len(k) = 1
    BY <1>6, <1>7
  <2>2. k[1] \in Changes /\ ToSet(k) = {k[1]}
    BY <2>1, SetOfOne
  <2>3. Head(k) = k[1]
    BY <2>1
  <2> QED BY <1>4, <2>1, <2>2, <2>3
<1>9. Tail(q.state) \in Seq(Seq(Changes))
  BY <1>5, HeadTailProperties
<1>10. PICK f \in Seq(Changes) : f = FlattenSeq(Tail(q.state))
  BY <1>9, FlattenType, Zenon
<1>11. s.state = << f >>
  BY <1>2, <1>7, <1>10, AfterFailureCases, Zenon DEF Split
<1>12. IsQueue(s)
  <2>1. << f >> \in Seq(Seq(Changes)) /\ << f >> # << >>
    OBVIOUS
  <2> QED BY <1>2, <1>5, <1>11, <2>1, Zenon DEF Split, IsQueue
<1>13. PICK o : o = WithoutDependantsOn(s, x)
  OBVIOUS
<1>14. TakenOut(s, x, f, o)
  BY <1>11, <1>12, <1>13, TakenOutIs
<1>15. PICK ids : /\ ids = DependantsOn(Id[x], ToSet(f) \cup WaitingIn(s.awaiting))
                  /\ o.queue.state = << WithoutIds(f, ids) >>
                  /\ o.removed = WithIds(f, ids) \o WithIds(Awaiting(s), ids)
  BY <1>14, Zenon DEF TakenOut
<1>16. PICK u \in Seq(Changes) : u = Awaiting(s)
  BY <1>12, QueueType
<1>17. PICK a, b : a = WithIds(f, ids) /\ b = WithIds(u, ids)
  OBVIOUS
<1>18. /\ a \in Seq(Changes) /\ \A c \in ToSet(a) : Id[c] \in ids
       /\ b \in Seq(Changes) /\ \A c \in ToSet(b) : Id[c] \in ids
  BY <1>17, IdsSplit
<1>19. PICK v \in Seq(Changes) : v = o.removed /\ ToSet(v) = ToSet(a) \cup ToSet(b)
  <2>1. a \o b \in Seq(Changes) /\ ToSet(a \o b) = ToSet(a) \cup ToSet(b)
    BY <1>18, SetOfCat
  <2>2. o.removed = a \o b
    BY <1>15, <1>16, <1>17
  <2> QED BY <2>1, <2>2
<1>20. PICK failed : failed = k \o o.removed
  OBVIOUS
<1>21. failed \in Seq(Changes) /\ ToSet(failed) = {x} \cup ToSet(a) \cup ToSet(b)
  <2>1. k \o v \in Seq(Changes) /\ ToSet(k \o v) = ToSet(k) \cup ToSet(v)
    BY <1>8, SetOfCat
  <2>2. failed = k \o v
    BY <1>19, <1>20
  <2> QED BY <1>8, <1>19, <2>1, <2>2
<1>22. ids \subseteq DependantsOn(Id[x], Changes)
  <2>1. ToSet(f) \subseteq Changes
    BY DEF ToSet
  <2>2. WaitingIn(s.awaiting) \subseteq Changes
    <3>1. ToSet(u) \subseteq Changes
      BY DEF ToSet
    <3>2. WaitingIn(s.awaiting) = ToSet(u)
      BY <1>12, <1>16, QueueType
    <3> QED BY <3>1, <3>2
  <2>3. ToSet(f) \cup WaitingIn(s.awaiting) \subseteq Changes
    BY <2>1, <2>2
  <2> QED BY <1>15, <2>3, DependantsMonotone
<1>23. ToSet(Head(q.state)) = {x}
  BY <1>7, <1>8
<1>24. \A y \in ToSet(failed) : Blameable(y, {x})
  BY <1>8, <1>18, <1>21, <1>22 DEF Blameable
<1>25. PICK r : r = DepsFailure(q)
  OBVIOUS
<1>26. r = [queue |-> o.queue, successful |-> << >>, failed |-> failed, cause |-> x]
  BY <1>1, <1>3, <1>4, <1>13, <1>20, <1>25, Zenon DEF DepsFailure
<1>27. IsOutcome(r) /\ r.queue = o.queue /\ r.successful = << >> /\ r.failed = failed
  BY <1>26 DEF IsOutcome
<1>28. SplitFrom(r.queue.state, {x})
  <2>1. PICK g : g = WithoutIds(f, ids)
    OBVIOUS
  <2>2. r.queue.state = << g >>
    BY <1>15, <1>27, <2>1
  <2>3. ~(Len(<< g >>) >= 3)
    OBVIOUS
  <2> QED BY <2>2, <2>3, Zenon DEF SplitFrom
<1>29. IsWhole(o.queue)
  BY <1>14, Zenon DEF TakenOut
<1> QED BY <1>21, <1>23, <1>24, <1>25, <1>27, <1>28, <1>29, Zenon DEF FailsInSet

LEMMA FailureTells ==
    ASSUME NEW q, IsQueue(q), Shaped(q), Len(q.state) >= 2
    PROVE  FailsInSet(q, OnFailure(q))
<1>1. PICK r : r = DepsFailure(q)
  OBVIOUS
<1>2. FailsInSet(q, r)
  BY <1>1, SplitsInSet, BlamesInSet
<1>3. IsOutcome(r) /\ IsWhole(r.queue)
  BY <1>2, Zenon DEF FailsInSet
<1>4. SameButBlame(r, OnFailure(q))
  BY <1>1, <1>3, BlameIs DEF OnFailure
<1> QED BY <1>2, <1>4, Zenon DEF SameButBlame, FailsInSet

\* After a success the second section takes the place of the first; that it
\* fails is known if there are three.
PassesBefore(q, r) ==
    /\ r.successful = Head(q.state) /\ r.successful \in Seq(Changes) /\ r.failed \in Seq(Changes)
    /\ IF Len(q.state) >= 3
       THEN /\ SplitFrom(r.queue.state, ToSet(q.state[2]))
            /\ \A x \in ToSet(r.failed) : Blameable(x, ToSet(q.state[2]))
       ELSE r.failed = << >> /\ ~(Len(r.queue.state) >= 3)

LEMMA SuccessTells ==
    ASSUME NEW q, IsQueue(q), Shaped(q), Len(q.state) >= 2
    PROVE  PassesBefore(q, OnSuccess(q))
<1>1. PICK ok \in Seq(Changes) : ok = Head(q.state)
  BY HeadNotEmpty
<1>2. PICK rest : rest = [q EXCEPT !.state = Tail(@)]
  OBVIOUS
<1>3. /\ IsWhole(q) /\ q.state \in Seq(Seq(Changes)) /\ q.state # << >>
      /\ q.awaiting \in Seq(Waiting)
  BY Zenon DEF IsQueue
<1>4. /\ IsWhole(rest) /\ rest.state = Tail(q.state)
      /\ rest.awaiting = q.awaiting /\ rest.stream_map = q.stream_map
  BY <1>2, <1>3 DEF IsWhole
<1>5. /\ Tail(q.state) \in Seq(Seq(Changes)) /\ Tail(q.state) # << >>
      /\ Len(Tail(q.state)) = Len(q.state) - 1
      /\ \A i \in 1..(Len(q.state) - 1) : Tail(q.state)[i] = q.state[i + 1]
  BY <1>3, TailShape
<1>6. PICK l \in Nat : l = Len(q.state) /\ l >= 2
  BY <1>3
<1>7. IsQueue(rest)
  BY <1>3, <1>4, <1>5, Zenon DEF IsQueue
<1>8. Shaped(rest)
  <2>1. \A i \in 1..((l - 1) - 1) : i \in 1..(l - 1) /\ i + 1 \in 1..(l - 1)
    OBVIOUS
  <2> QED BY <1>4, <1>5, <1>6, <2>1 DEF Shaped
<1>9. PICK r : r = IF Len(rest.state) > 1 THEN DepsFailure(rest)
                   ELSE [queue |-> [rest EXCEPT !.test_key = NoKey],
                         successful |-> << >>, failed |-> << >>, cause |-> NoChange]
  OBVIOUS
<1>10. Len(rest.state) = l - 1
  BY <1>4, <1>5, <1>6
<1>11. /\ IsOutcome(r) /\ IsWhole(r.queue) /\ r.failed \in Seq(Changes)
       /\ IF l >= 3
          THEN /\ SplitFrom(r.queue.state, ToSet(q.state[2]))
               /\ \A x \in ToSet(r.failed) : Blameable(x, ToSet(q.state[2]))
          ELSE r.failed = << >> /\ ~(Len(r.queue.state) >= 3)
  <2>1. CASE l >= 3
    <3>1. Len(rest.state) >= 2 /\ Len(rest.state) > 1
      BY <1>10, <2>1
    <3>2. r = DepsFailure(rest)
      BY <1>9, <3>1
    <3>3. FailsInSet(rest, r)
      BY <1>7, <1>8, <3>1, <3>2, SplitsInSet, BlamesInSet
    <3>4. Head(rest.state) = q.state[2]
      <4>1. PICK U : U = Seq(Changes)
        OBVIOUS
      <4>2. Tail(q.state) \in Seq(U) /\ Len(Tail(q.state)) >= 1
        BY <1>4, <1>5, <3>1, <4>1
      <4>3. Head(Tail(q.state)) = Tail(q.state)[1]
        BY <4>2, HeadIsFirst
      <4>4. 1 \in 1..(Len(q.state) - 1) /\ 1 + 1 = 2
        BY <1>6
      <4> QED BY <1>4, <1>5, <4>3, <4>4
    <3> QED BY <2>1, <3>3, <3>4, Zenon DEF FailsInSet
  <2>2. CASE ~(l >= 3)
    <3>1. ~(Len(rest.state) > 1) /\ ~(Len(rest.state) >= 3)
      BY <1>6, <1>10, <2>2
    <3>2. PICK t : t = [rest EXCEPT !.test_key = NoKey]
      OBVIOUS
    <3>3. r = [queue |-> t, successful |-> << >>, failed |-> << >>, cause |-> NoChange]
      BY <1>9, <3>1, <3>2, Zenon
    <3>4. IsOutcome(r) /\ r.queue = t /\ r.failed = << >>
      BY <3>3 DEF IsOutcome
    <3>5. IsWhole(t) /\ t.state = rest.state
      BY <1>4, <3>2 DEF IsWhole
    <3>6. << >> \in Seq(Changes)
      OBVIOUS
    <3> QED BY <2>2, <3>1, <3>4, <3>5, <3>6, Zenon
  <2> QED BY <2>1, <2>2
<1>12. PICK map : map = Forgiven(r.queue.stream_map, ok)
  OBVIOUS
<1>13. PICK v : v = [r EXCEPT !.successful = ok, !.queue.stream_map = map]
  OBVIOUS
<1>14. /\ IsOutcome(v) /\ v.successful = ok /\ v.failed = r.failed
       /\ IsWhole(v.queue) /\ v.queue.state = r.queue.state
  BY <1>11, <1>13 DEF IsOutcome, IsWhole
<1>15. OnSuccess(q) = BlameFirstInStream(v)
  <2>1. v = [r EXCEPT !.successful = Head(q.state),
                      !.queue.stream_map =
                          [s \in Streams |->
                              IF s \in {Stream[Head(q.state)[i]] : i \in DOMAIN Head(q.state)}
                              THEN NoChange ELSE @[s]]]
    BY <1>1, <1>11, <1>12, <1>13 DEF Forgiven, IsOutcome, IsWhole
  <2> QED BY <1>2, <1>9, <2>1, Zenon DEF OnSuccess
<1>16. SameButBlame(v, OnSuccess(q))
  BY <1>14, <1>15, BlameIs
<1>17. OnSuccess(q).successful = ok /\ OnSuccess(q).failed = r.failed
       /\ OnSuccess(q).queue.state = r.queue.state
  BY <1>14, <1>16, Zenon DEF SameButBlame
<1> QED BY <1>1, <1>6, <1>11, <1>17, Zenon DEF PassesBefore

-----------------------------------------------------------------------------
(* With truthful tests: what is told is true, and a queue of three sections *)
(* has the failed one in halves in front.                                   *)

FailsAlone(x) ==
    \E c \in Changes : {c} \in Broken /\ (x = c \/ Id[x] \in DependantsOn(Id[c], Changes))

IsTrue(x, status, test) ==
    /\ status = "failed" => ToSet(test) \in Broken /\ FailsAlone(x)
    /\ status = "successful" => ToSet(test) \notin Broken

TrueMails(ms) == \A i \in DOMAIN ms : IsTrue(ms[i].change, ms[i].status, ms[i].test)

NarrowsTo(st, failed) ==
    Len(st) >= 3 => ToSet(st[1]) \cup ToSet(st[2]) \in Broken /\ ToSet(failed) \in Broken

Narrows(o) == NarrowsTo(o.queue.state, o.last_failed)

TrueRequest(r) ==
    /\ r.action = "on_test_failure" => ToSet(r.tested) \in Broken
    /\ r.action = "on_test_success" => ToSet(r.tested) \notin Broken

(***************************************************************************)
(* The invariant of truthful tests, inductive together with that of what   *)
(* is saved.                                                               *)
(***************************************************************************)
TruthInv ==
    /\ Narrows(artifact)
    /\ \A r \in requests : TrueRequest(r)
    /\ build # NoBuild => Narrows(build.object) /\ TrueMails(build.mails)
    /\ \A m \in mails : IsTrue(m.change, m.status, m.test)

LEMMA NothingIsTrue == TrueMails(<< >>)
BY DEF TrueMails

LEMMA MailIsTrue ==
    ASSUME NEW cs \in Seq(Changes), NEW status, NEW cause, NEW test,
           \A x \in ToSet(cs) : IsTrue(x, status, test)
    PROVE  TrueMails(Mail(cs, status, cause, test))
<1>1. PICK ms : ms = Mail(cs, status, cause, test)
  OBVIOUS
<1>2. \A i \in DOMAIN cs : cs[i] \in ToSet(cs)
  BY DEF ToSet
<1>3. /\ DOMAIN ms = DOMAIN cs
      /\ \A i \in DOMAIN cs : /\ ms[i].change = cs[i] /\ ms[i].status = status
                              /\ ms[i].test = test
  BY <1>1 DEF Mail
<1> QED BY <1>1, <1>2, <1>3, Zenon DEF TrueMails

LEMMA TwoMailsAreTrue ==
    ASSUME NEW cs \in Seq(Changes), NEW ds \in Seq(Changes), NEW s1, NEW s2,
           NEW cause, NEW e, NEW t1, NEW t2,
           \A x \in ToSet(cs) : IsTrue(x, s1, t1), \A x \in ToSet(ds) : IsTrue(x, s2, t2)
    PROVE  TrueMails(Mail(cs, s1, cause, t1) \o Mail(ds, s2, e, t2))
<1>1. PICK a, b : a = Mail(cs, s1, cause, t1) /\ b = Mail(ds, s2, e, t2)
  OBVIOUS
<1>2. IsSeq(a) /\ IsSeq(b) /\ TrueMails(a) /\ TrueMails(b)
  BY <1>1, MailIs, MailIsTrue
<1>3. PICK u, l, m : u = a \o b /\ l = Len(a) /\ m = Len(b)
  OBVIOUS
<1>4. CatOf(a, l, b, m, u)
  <2>1. CatOf(a, Len(a), b, Len(b), a \o b)
    BY <1>2, CatIsSeq, Zenon
  <2> QED BY <1>3, <2>1, Zenon
<1>5. /\ l \in Nat /\ m \in Nat /\ DOMAIN a = 1..l /\ DOMAIN b = 1..m /\ DOMAIN u = 1..(l + m)
      /\ \A i \in 1..l : u[i] = a[i]
      /\ \A i \in 1..m : u[l + i] = b[i]
  BY <1>4, Zenon DEF CatOf
<1>6. ASSUME NEW i \in 1..(l + m) PROVE IsTrue(u[i].change, u[i].status, u[i].test)
  <2>1. CASE i <= l
    <3>1. i \in 1..l
      BY <1>5, <2>1
    <3>2. u[i] = a[i] /\ i \in DOMAIN a
      BY <1>5, <3>1
    <3> QED BY <1>2, <3>2, Zenon DEF TrueMails
  <2>2. CASE ~(i <= l)
    <3>1. PICK j \in 1..m : i = l + j
      <4>1. i - l \in 1..m /\ i = l + (i - l)
        BY <1>5, <2>2
      <4> QED BY <4>1
    <3>2. u[i] = b[j] /\ j \in DOMAIN b
      BY <1>5, <3>1
    <3> QED BY <1>2, <3>2, Zenon DEF TrueMails
  <2> QED BY <2>1, <2>2
<1>7. TrueMails(u)
  BY <1>5, <1>6, Zenon DEF TrueMails
<1> QED BY <1>1, <1>3, <1>7

LEMMA AddIsTrue ==
    ASSUME NEW o, SafeObject(o), Narrows(o), NEW c \in Changes
    PROVE  Narrows(ActAdd(o, c).object) /\ TrueMails(ActAdd(o, c).mails)
<1>1. PICK r : r = Added(o.queue, c)
  OBVIOUS
<1>2. PICK a : a = ActAdd(o, c)
  OBVIOUS
<1>3. PICK q : q = r.queue
  OBVIOUS
<1>4. PICK ms : ms = Mail(r.added, "added", NoChange, NoTest)
                        \o Mail(r.rejected, "rejected", NoChange, NoTest)
  OBVIOUS
<1>5. a = [object |-> [o EXCEPT !.queue = q], mails |-> ms,
           done |-> [Nothing EXCEPT !.submitted = {c}, !.rejected = r.rejected]]
  BY <1>1, <1>2, <1>3, <1>4, Zenon DEF ActAdd
<1>6. a.mails = ms /\ a.object = [o EXCEPT !.queue = q]
  BY <1>5
<1>7. a.object.queue = q /\ a.object.last_failed = o.last_failed
  BY <1>6 DEF SafeObject, IsObject
<1>8. IsQueue(o.queue) /\ \E P : Sound(o.queue, P)
  BY Zenon DEF SafeObject, Fit
<1>9. /\ IsQueue(q) /\ SameUnderTest(o.queue, q)
      /\ r.added \in Seq(Changes) /\ r.rejected \in Seq(Changes)
  <2>1. PICK P : Sound(o.queue, P)
    BY <1>8
  <2>2. Adds(o.queue, P, c, r)
    BY <1>1, <1>8, <2>1, AddedEffect, Zenon
  <2> QED BY <1>3, <2>2, Zenon DEF Adds
<1>10. NarrowsTo(q.state, o.last_failed)
  <2> SUFFICES ASSUME Len(q.state) >= 3
               PROVE  /\ ToSet(q.state[1]) \cup ToSet(q.state[2]) \in Broken
                      /\ ToSet(o.last_failed) \in Broken
    BY DEF NarrowsTo
  <2>1. /\ Len(q.state) = Len(o.queue.state)
        /\ \A i \in 1..(Len(o.queue.state) - 1) : q.state[i] = o.queue.state[i]
    BY <1>9, Zenon DEF SameUnderTest
  <2>2. Len(o.queue.state) \in Nat
    BY <1>8 DEF IsQueue
  <2>3. 1 \in 1..(Len(o.queue.state) - 1) /\ 2 \in 1..(Len(o.queue.state) - 1)
    BY <2>1, <2>2
  <2>4. q.state[1] = o.queue.state[1] /\ q.state[2] = o.queue.state[2]
    BY <2>1, <2>3
  <2> QED BY <2>1, <2>4 DEF Narrows, NarrowsTo
<1>11. TrueMails(ms)
  <2>1. \A x : IsTrue(x, "added", NoTest) /\ IsTrue(x, "rejected", NoTest)
    BY DEF IsTrue
  <2> QED BY <1>4, <1>9, <2>1, TwoMailsAreTrue
<1> QED BY <1>2, <1>6, <1>7, <1>10, <1>11, Zenon DEF Narrows

LEMMA NextTestIsTrue ==
    ASSUME NEW o, SafeObject(o), Narrows(o)
    PROVE  Narrows(ActNextTest(o).object) /\ TrueMails(ActNextTest(o).mails)
<1>1. PICK q : q = NextTest(o.queue, o.keys + 1)
  OBVIOUS
<1>2. PICK a : a = ActNextTest(o)
  OBVIOUS
<1>3. PICK k : k = IF q.test_key > o.keys THEN o.keys + 1 ELSE o.keys
  OBVIOUS
<1>4. a.object = [o EXCEPT !.queue = q, !.keys = k] /\ a.mails = << >>
  <2>1. [o EXCEPT !.queue = q, !.keys = IF q.test_key > @ THEN @ + 1 ELSE @]
          = [o EXCEPT !.queue = q, !.keys = k]
    BY <1>3
  <2> QED BY <1>1, <1>2, <2>1 DEF ActNextTest
<1>5. a.object.queue = q /\ a.object.last_failed = o.last_failed
  BY <1>4 DEF SafeObject, IsObject
<1>6. PICK U : U = Seq(Changes)
  OBVIOUS
<1>7. PICK s \in Seq(U) : s = o.queue.state
  BY <1>6, Zenon DEF SafeObject, Fit, IsQueue
<1>8. q.state = s \/ (Len(s) <= 1 /\ q.state = Append(s, << >>))
  <2>1. CASE Head(s) = << >>
    BY <1>1, <1>7, <2>1 DEF NextTest
  <2>2. CASE Head(s) # << >>
    <3>1. q.state = IF Len(s) <= 1 THEN Append(s, << >>) ELSE s
      BY <1>1, <1>7, <2>2 DEF NextTest
    <3> QED BY <3>1
  <2> QED BY <2>1, <2>2
<1>9. Len(s) <= 1 => ~(Len(Append(s, << >>)) >= 3)
  <2>1. << >> \in U
    BY <1>6
  <2> QED BY <2>1
<1>10. NarrowsTo(q.state, o.last_failed)
  BY <1>7, <1>8, <1>9, Zenon DEF Narrows, NarrowsTo
<1> QED BY <1>2, <1>4, <1>5, <1>10, NothingIsTrue, Zenon DEF Narrows

LEMMA BlameableFails ==
    ASSUME NEW D \in Broken, NEW x, Blameable(x, D)
    PROVE  FailsAlone(x)
BY DEF Blameable, FailsAlone

LEMMA VerdictIsTrue ==
    ASSUME NEW o, SafeObject(o), Narrows(o), NEW key, TestKeyMatch(o.queue, key),
           NEW action, NEW tested, tested = Head(o.queue.state),
           IF action = "on_test_success" THEN ToSet(tested) \notin Broken
                                         ELSE ToSet(tested) \in Broken
    PROVE  /\ Narrows(ActVerdict(o, action, key, tested).object)
           /\ TrueMails(ActVerdict(o, action, key, tested).mails)
<1>1. PICK a : a = ActVerdict(o, action, key, tested)
  OBVIOUS
<1>2. PICK r : r = Outcome(o, action)
  OBVIOUS
<1>3. PICK named : named = IF action = "on_test_success"
                           THEN [o EXCEPT !.last_successful = tested]
                           ELSE [o EXCEPT !.last_failed = tested]
  OBVIOUS
<1>4. PICK ms : ms = Mail(r.successful, "successful", r.cause, named.last_successful)
                        \o Mail(r.failed, "failed", r.cause, named.last_failed)
  OBVIOUS
<1>5. a.mails = ms /\ a.object = [named EXCEPT !.queue = r.queue]
  <2>1. a = [object |-> [named EXCEPT !.queue = r.queue], mails |-> ms,
             done |-> [Nothing EXCEPT !.judged = Verdicts(r)]]
    BY <1>1, <1>2, <1>3, <1>4, Zenon DEF ActVerdict, Outcome
  <2> QED BY <2>1
<1>6. /\ action = "on_test_success" =>
            named.last_successful = tested /\ named.last_failed = o.last_failed
      /\ action # "on_test_success" => named.last_failed = tested
      /\ a.object.queue = r.queue /\ a.object.last_failed = named.last_failed
  BY <1>3, <1>5 DEF SafeObject, IsObject
<1>7. /\ IsQueue(o.queue) /\ Shaped(o.queue) /\ KeyFits(o.queue)
  BY Zenon DEF SafeObject, Fit
<1>8. Len(o.queue.state) >= 2
  BY <1>7, Zenon DEF TestKeyMatch, KeyFits
<1>9. CASE action = "on_test_success"
  <2>1. PassesBefore(o.queue, r)
    BY <1>2, <1>7, <1>8, <1>9, SuccessTells, Zenon DEF Outcome
  <2>2. /\ r.successful = tested /\ r.successful \in Seq(Changes) /\ r.failed \in Seq(Changes)
        /\ IF Len(o.queue.state) >= 3
           THEN /\ SplitFrom(r.queue.state, ToSet(o.queue.state[2]))
                /\ \A x \in ToSet(r.failed) : Blameable(x, ToSet(o.queue.state[2]))
           ELSE r.failed = << >> /\ ~(Len(r.queue.state) >= 3)
    BY <2>1, Zenon DEF PassesBefore
  <2>3. ASSUME Len(o.queue.state) >= 3
        PROVE  ToSet(o.queue.state[2]) \in Broken /\ ToSet(o.last_failed) \in Broken
    <3>1. /\ ToSet(o.queue.state[1]) \cup ToSet(o.queue.state[2]) \in Broken
          /\ ToSet(o.last_failed) \in Broken
      BY <2>3, Zenon DEF Narrows, NarrowsTo
    <3>2. PICK s, t : s = o.queue.state[1] /\ t = o.queue.state[2]
      OBVIOUS
    <3>3. s \in Seq(Changes) /\ t \in Seq(Changes) /\ s = tested
      <4>1. PICK U : U = Seq(Changes)
        OBVIOUS
      <4>2. PICK st \in Seq(U) : st = o.queue.state
        BY <1>7, <4>1, Zenon DEF IsQueue
      <4>3. st[1] \in U /\ st[2] \in U /\ st[1] = Head(st)
        BY <2>3, <4>2
      <4> QED BY <3>2, <4>1, <4>2, <4>3
    <3>4. ToSet(s) \in SUBSET Changes /\ ToSet(t) \in SUBSET Changes
      BY <3>3 DEF ToSet
    <3>5. ToSet(s) \notin Broken
      BY <1>9, <3>3
    <3> QED BY <3>1, <3>2, <3>4, <3>5, JobsAssumption
  <2>4. NarrowsTo(r.queue.state, o.last_failed)
    BY <2>2, <2>3, Zenon DEF NarrowsTo, SplitFrom
  <2>5. \A x \in ToSet(r.successful) : IsTrue(x, "successful", named.last_successful)
    BY <1>6, <1>9 DEF IsTrue
  <2>6. \A x \in ToSet(r.failed) : IsTrue(x, "failed", named.last_failed)
    <3>1. CASE Len(o.queue.state) >= 3
      BY <1>6, <1>9, <2>2, <2>3, <3>1, BlameableFails DEF IsTrue
    <3>2. CASE ~(Len(o.queue.state) >= 3)
      BY <2>2, <3>2 DEF ToSet
    <3> QED BY <3>1, <3>2
  <2>7. TrueMails(ms)
    BY <1>4, <2>2, <2>5, <2>6, TwoMailsAreTrue
  <2> QED BY <1>1, <1>5, <1>6, <1>9, <2>4, <2>7, Zenon DEF Narrows
<1>10. CASE action # "on_test_success"
  <2>1. FailsInSet(o.queue, r)
    BY <1>2, <1>7, <1>8, <1>10, FailureTells, Zenon DEF Outcome
  <2>2. /\ r.successful = << >> /\ r.failed \in Seq(Changes)
        /\ SplitFrom(r.queue.state, ToSet(tested))
        /\ \A x \in ToSet(r.failed) : Blameable(x, ToSet(tested))
    BY <2>1, Zenon DEF FailsInSet
  <2>3. NarrowsTo(r.queue.state, tested)
    BY <1>10, <2>2, Zenon DEF NarrowsTo, SplitFrom
  <2>4. r.successful \in Seq(Changes) /\ ToSet(r.successful) = {}
    BY <2>2 DEF ToSet
  <2>5. \A x \in ToSet(r.successful) : IsTrue(x, "successful", named.last_successful)
    BY <2>4
  <2>6. \A x \in ToSet(r.failed) : IsTrue(x, "failed", named.last_failed)
    BY <1>6, <1>10, <2>2, BlameableFails DEF IsTrue
  <2>7. TrueMails(ms)
    BY <1>4, <2>2, <2>4, <2>5, <2>6, TwoMailsAreTrue
  <2> QED BY <1>1, <1>5, <1>6, <1>10, <2>3, <2>7, Zenon DEF Narrows
<1> QED BY <1>9, <1>10

LEMMA ActIsTrue ==
    ASSUME SavedInv, Narrows(artifact), NEW r, IsRequest(r), TrueRequest(r)
    PROVE  Narrows(Act(artifact, r).object) /\ TrueMails(Act(artifact, r).mails)
<1>1. SafeObject(artifact)
  BY Zenon DEF SavedInv
<1>2. CASE r = AskNextTest
  <2>1. r.action = "get_next_test"
    BY <1>2 DEF AskNextTest, Request
  <2>2. Act(artifact, r) = ActNextTest(artifact)
    BY <2>1 DEF Act
  <2> QED BY <1>1, <2>2, NextTestIsTrue, Zenon
<1>3. ASSUME NEW c \in Changes, r = Request("add", c, NoTest)
      PROVE  Narrows(Act(artifact, r).object) /\ TrueMails(Act(artifact, r).mails)
  <2>1. r.action = "add" /\ r.arg = c
    BY <1>3 DEF Request
  <2>2. Act(artifact, r) = ActAdd(artifact, c)
    BY <2>1 DEF Act
  <2> QED BY <1>1, <2>2, AddIsTrue, Zenon
<1>4. ASSUME NEW t \in committed.tests, NEW action \in {"on_test_success", "on_test_failure"},
             r = Request(action, t.key, t.list)
      PROVE  Narrows(Act(artifact, r).object) /\ TrueMails(Act(artifact, r).mails)
  <2>1. r.action = action /\ r.arg = t.key /\ r.tested = t.list
    BY <1>4 DEF Request
  <2>2. PICK a : a = ActVerdict(artifact, action, t.key, t.list)
    OBVIOUS
  <2>3. Act(artifact, r) = a
    BY <1>4, <2>1, <2>2 DEF Act
  <2>4. CASE ~TestKeyMatch(artifact.queue, t.key)
    <3>1. a = [object |-> artifact, mails |-> << >>, done |-> Nothing]
      BY <2>2, <2>4, Zenon DEF ActVerdict
    <3>2. a.object = artifact /\ a.mails = << >>
      BY <3>1
    <3> QED BY <2>3, <3>2, NothingIsTrue, Zenon
  <2>5. CASE TestKeyMatch(artifact.queue, t.key)
    <3>1. t.list = Head(artifact.queue.state)
      BY <2>5, Zenon DEF SavedInv, TestsAreCurrent, TestKeyMatch
    <3>2. IF action = "on_test_success" THEN ToSet(t.list) \notin Broken
                                        ELSE ToSet(t.list) \in Broken
      BY <1>4, <2>1 DEF TrueRequest
    <3> QED BY <1>1, <2>2, <2>3, <2>5, <3>1, <3>2, VerdictIsTrue, Zenon
  <2> QED BY <2>4, <2>5
<1> QED BY <1>2, <1>3, <1>4, Zenon DEF IsRequest

LEMMA InitIsTrue == ASSUME Init PROVE TruthInv
<1>1. artifact.queue.state = << << >> >>
  BY DEF Init, NewObject, NewQueue
<1>2. ~(Len(<< << >> >>) >= 3)
  OBVIOUS
<1>3. Narrows(artifact)
  BY <1>1, <1>2, Zenon DEF Narrows, NarrowsTo
<1> QED BY <1>3 DEF Init, TruthInv

LEMMA StartBuildIsTrue ==
    ASSUME SavedInv, TruthInv, NEW r \in requests, StartBuild(r)
    PROVE  TruthInv'
<1>1. PICK a : a = Act(artifact, r)
  OBVIOUS
<1>2. Narrows(a.object) /\ TrueMails(a.mails)
  <2>1. IsRequest(r) /\ TrueRequest(r) /\ Narrows(artifact)
    BY Zenon DEF SavedInv, TruthInv
  <2> QED BY <1>1, <2>1, ActIsTrue, Zenon
<1>3. /\ requests' = requests \ {r} /\ artifact' = artifact /\ mails' = mails
      /\ build' = [phase |-> "report", request |-> r, object |-> a.object,
                   mails |-> a.mails, done |-> a.done]
  BY <1>1, Zenon DEF StartBuild
<1>4. build'.object = a.object /\ build'.mails = a.mails
  BY <1>3
<1>5. \A x \in requests' : TrueRequest(x)
  BY <1>3 DEF TruthInv
<1>6. Narrows(artifact') /\ \A m \in mails' : IsTrue(m.change, m.status, m.test)
  BY <1>3, Zenon DEF TruthInv
<1> QED BY <1>2, <1>4, <1>5, <1>6, Zenon DEF TruthInv

LEMMA ReportIsTrue ==
    ASSUME IInv, SavedInv, TruthInv, Report
    PROVE  TruthInv'
<1>1. /\ build.phase = "report" /\ build.mails # << >> /\ mails' = mails \cup {Head(build.mails)}
      /\ build' = [build EXCEPT !.mails = Tail(@)] /\ requests' = requests
      /\ artifact' = artifact
  BY Zenon DEF Report
<1>2. build # NoBuild
  BY <1>1 DEF NoBuild
<1>3. build = [phase |-> build.phase, request |-> build.request, object |-> build.object,
               mails |-> build.mails, done |-> build.done]
  BY <1>2, Zenon DEF IInv, BuildActs
<1>4. PICK ms, rest, o : ms = build.mails /\ rest = Tail(ms) /\ o = build.object
  OBVIOUS
<1>5. build'.object = o /\ build'.mails = rest
  BY <1>1, <1>3, <1>4
<1>6. IsSeq(ms) /\ ms # << >> /\ TrueMails(ms) /\ Narrows(o)
  BY <1>1, <1>2, <1>4, Zenon DEF SavedInv, BuildTells, TruthInv
<1>7. TrueMails(rest) /\ IsTrue(Head(ms).change, Head(ms).status, Head(ms).test)
  <2>1. PICK S : ms \in Seq(S)
    BY <1>6 DEF IsSeq
  <2>2. PICK l \in Nat : l = Len(ms) /\ DOMAIN ms = 1..l /\ l >= 1
    BY <1>6, <2>1
  <2>3. /\ DOMAIN rest = 1..(l - 1) /\ Head(ms) = ms[1]
        /\ \A i \in 1..(l - 1) : rest[i] = ms[i + 1]
    BY <1>4, <1>6, <2>1, <2>2
  <2>4. \A i \in 1..(l - 1) : i + 1 \in 1..l
    BY <2>2
  <2>5. 1 \in 1..l
    BY <2>2
  <2> QED BY <1>6, <2>2, <2>3, <2>4, <2>5, Zenon DEF TrueMails
<1>8. \A m \in mails' : IsTrue(m.change, m.status, m.test)
  BY <1>1, <1>4, <1>7 DEF TruthInv
<1>9. Narrows(artifact') /\ \A r \in requests' : TrueRequest(r)
  BY <1>1, Zenon DEF TruthInv
<1> QED BY <1>5, <1>6, <1>7, <1>8, <1>9, Zenon DEF TruthInv

\* The steps that build nothing and report nothing.
LEMMA OthersAreTrue ==
    ASSUME TruthInv, mails' = mails, \A r \in requests' : TrueRequest(r),
           \/ artifact' = artifact
           \/ build # NoBuild /\ artifact' = build.object,
           \/ build' = NoBuild
           \/ /\ build # NoBuild /\ build'.object = build.object /\ build'.mails = build.mails
           \/ build' = build
    PROVE  TruthInv'
<1>1. Narrows(artifact')
  BY Zenon DEF TruthInv
<1>2. build' # NoBuild => Narrows(build'.object) /\ TrueMails(build'.mails)
  BY Zenon DEF TruthInv
<1>3. \A m \in mails' : IsTrue(m.change, m.status, m.test)
  BY Zenon DEF TruthInv
<1> QED BY <1>1, <1>2, <1>3, Zenon DEF TruthInv

LEMMA SaveAndTriggerIsTrue ==
    ASSUME IInv, TruthInv, SaveAndTrigger
    PROVE  TruthInv'
<1>1. /\ build.phase = "report" /\ mails' = mails /\ requests' = requests /\ artifact' = artifact
      /\ build' = [build EXCEPT !.phase = "end"]
  BY Zenon DEF SaveAndTrigger
<1>2. build # NoBuild
  BY <1>1 DEF NoBuild
<1>3. build = [phase |-> build.phase, request |-> build.request, object |-> build.object,
               mails |-> build.mails, done |-> build.done]
  BY <1>2, Zenon DEF IInv, BuildActs
<1>4. build'.object = build.object /\ build'.mails = build.mails
  BY <1>1, <1>3
<1>5. \A r \in requests' : TrueRequest(r)
  BY <1>1, Zenon DEF TruthInv
<1> QED BY <1>1, <1>2, <1>4, <1>5, OthersAreTrue, Zenon

LEMMA AskingIsTrue ==
    ASSUME TruthInv, NEW r, TrueRequest(r), requests' = requests \cup {r},
           UNCHANGED <<artifact, build, mails>>
    PROVE  TruthInv'
<1>1. \A x \in requests' : TrueRequest(x)
  BY DEF TruthInv
<1>2. artifact' = artifact /\ build' = build /\ mails' = mails
  OBVIOUS
<1> QED BY <1>1, <1>2, OthersAreTrue, Zenon

LEMMA TestEndsIsTrue ==
    ASSUME TruthInv, TrueTestEnds
    PROVE  TruthInv'
<1>1. ASSUME NEW action \in {"on_test_success", "on_test_failure"}, TestEnds(action),
             IF ToSet(tester.list) \in Broken THEN action = "on_test_failure"
                                              ELSE action = "on_test_success"
      PROVE  TruthInv'
  <2>1. PICK r : r = Request(action, tester.key, tester.list)
    OBVIOUS
  <2>2. requests' = requests \cup {r} /\ UNCHANGED <<artifact, build, mails>>
    BY <1>1, <2>1, Zenon DEF TestEnds
  <2>3. r.action = action /\ r.tested = tester.list
    BY <2>1 DEF Request
  <2>4. TrueRequest(r)
    BY <1>1, <2>3 DEF TrueRequest
  <2> QED BY <2>2, <2>4, AskingIsTrue, Zenon
<1> QED BY <1>1 DEF TrueTestEnds

LEMMA NextIsTrue ==
    ASSUME IInv, SavedInv, TruthInv, [TruthfulNext]_vars
    PROVE  TruthInv'
<1>1. ASSUME NEW c \in Changes, Submit(c) PROVE TruthInv'
  <2>1. PICK r : r = Request("add", c, NoTest)
    OBVIOUS
  <2>2. TrueRequest(r)
    <3>1. r.action = "add"
      BY <2>1 DEF Request
    <3> QED BY <3>1 DEF TrueRequest
  <2>3. requests' = requests \cup {r} /\ UNCHANGED <<artifact, build, mails>>
    BY <1>1, <2>1, Zenon DEF Submit
  <2> QED BY <2>2, <2>3, AskingIsTrue, Zenon
<1>2. ASSUME NEW r \in requests, StartBuild(r) PROVE TruthInv'
  BY <1>2, StartBuildIsTrue
<1>3. ASSUME EndBuild PROVE TruthInv'
  <2>1. /\ build.phase = "end" /\ artifact' = build.object /\ build' = NoBuild
        /\ mails' = mails /\ requests' = requests
    BY <1>3, Zenon DEF EndBuild
  <2>2. build # NoBuild
    BY <2>1 DEF NoBuild
  <2>3. \A r \in requests' : TrueRequest(r)
    BY <2>1, Zenon DEF TruthInv
  <2> QED BY <2>1, <2>2, <2>3, OthersAreTrue, Zenon
<1>4. ASSUME FailBuild PROVE TruthInv'
  <2>1. artifact' = artifact /\ build' = NoBuild /\ mails' = mails /\ requests' = requests
    BY <1>4, Zenon DEF FailBuild
  <2>2. \A r \in requests' : TrueRequest(r)
    BY <2>1, Zenon DEF TruthInv
  <2> QED BY <2>1, <2>2, OthersAreTrue, Zenon
<1>5. ASSUME StartTester PROVE TruthInv'
  <2>1. TrueRequest(AskNextTest)
    BY DEF TrueRequest, AskNextTest, Request
  <2>2. requests' = requests \cup {AskNextTest} /\ UNCHANGED <<artifact, build, mails>>
    BY <1>5, Zenon DEF StartTester
  <2> QED BY <2>1, <2>2, AskingIsTrue, Zenon
<1>6. ASSUME TesterDies \/ UNCHANGED vars PROVE TruthInv'
  <2>1. artifact' = artifact /\ build' = build /\ mails' = mails /\ requests' = requests
    BY <1>6, Zenon DEF TesterDies, vars
  <2>2. \A r \in requests' : TrueRequest(r)
    BY <2>1, Zenon DEF TruthInv
  <2> QED BY <2>1, <2>2, OthersAreTrue, Zenon
<1> QED
  BY <1>1, <1>2, <1>3, <1>4, <1>5, <1>6, ReportIsTrue, SaveAndTriggerIsTrue, TestEndsIsTrue,
     Zenon DEF TruthfulNext, Steps

(***************************************************************************)
(* With tests that tell the truth, every report of a verdict names a test  *)
(* with that outcome, and a change reported as failed fails alone or       *)
(* requires one that does, whatever is broken, however the queue is cut    *)
(* and whichever builds fail.                                              *)
(***************************************************************************)
THEOREM ReportsTellTheTruth == TruthfulSpec => []ReportedTestsAreTrue
<1>1. Init => IInv /\ SavedInv /\ TruthInv
  BY InitIInv, InitSaves, InitIsTrue
<1>2. TruthfulNext => Next
  BY DEF TruthfulNext, Next, TrueTestEnds, AnyTestEnds
<1>3. IInv /\ SavedInv /\ TruthInv /\ [TruthfulNext]_vars => IInv' /\ SavedInv' /\ TruthInv'
  BY <1>2, NextIInv, NextSaves, NextIsTrue
<1>4. TruthInv => ReportedTestsAreTrue
  BY Zenon DEF TruthInv, IsTrue, FailsAlone, ReportedTestsAreTrue
<1> QED BY <1>1, <1>3, <1>4, PTL DEF TruthfulSpec

-----------------------------------------------------------------------------
(* What the test of the first section is due to tell, tests being true.    *)

IsBroken(q) == ToSet(Head(q.state)) \in Broken

Passing(q) == IF IsBroken(q) THEN << >> ELSE Head(q.state)
Suspects(q) == IF IsBroken(q) THEN Head(q.state) ELSE SecondSection(q)

DueToPass(q) == ToSet(Passing(q))
DueToFail(q) == FailedWith(q, Passing(q), Suspects(q))

DueMail(o, c, status) ==
    [change |-> c, status |-> status,
     cause |-> CauseWith(o.queue, Passing(o.queue), Suspects(o.queue)),
     test |-> IF status = "failed" /\ ~IsBroken(o.queue)
              THEN o.last_failed ELSE Head(o.queue.state)]

Due(o, m) ==
    /\ o.queue.test_key # NoKey
    /\ m = DueMail(o, m.change, m.status)
    /\ \/ m.status = "successful" /\ m.change \in DueToPass(o.queue)
       \/ m.status = "failed" /\ m.change \in DueToFail(o.queue)

IsRight(q, action) == IF action = "on_test_success" THEN ~IsBroken(q) ELSE IsBroken(q)

RightJudges(q, P, r) ==
    /\ Judges(q, P, Passing(q), r) /\ ExactlyJudges(q, Passing(q), Suspects(q), r)
    /\ Disjoint(DueToPass(q), DueToFail(q))

LEMMA RightOutcome ==
    ASSUME NEW o, SafeObject(o), Once(o.queue), o.queue.test_key # NoKey,
           NEW P, Sound(o.queue, P), NEW action, IsRight(o.queue, action)
    PROVE  RightJudges(o.queue, P, Outcome(o, action))
<1>1. PICK q : q = o.queue
  OBVIOUS
<1>2. /\ IsQueue(q) /\ Shaped(q) /\ IsMap(q) /\ Len(q.state) >= 2 /\ Once(q) /\ Sound(q, P)
  BY <1>1, Zenon DEF SafeObject, Fit, KeyFits
<1>3. CASE action = "on_test_success"
  <2>1. Passing(q) = Head(q.state) /\ Suspects(q) = SecondSection(q) /\ Outcome(o, action) = OnSuccess(q)
    BY <1>1, <1>3, Zenon DEF IsRight, Passing, Suspects, Outcome
  <2>2. Judges(q, P, Head(q.state), OnSuccess(q))
    BY <1>2, SuccessEffect, Zenon
  <2>3. /\ ExactlyJudges(q, Head(q.state), SecondSection(q), OnSuccess(q))
        /\ Disjoint(ToSet(Head(q.state)), ToSet(SecondSection(q)))
    BY <1>2, SuccessExactly, Zenon
  <2>4. Disjoint(ToSet(Head(q.state)), FailedWith(q, Head(q.state), SecondSection(q)))
    <3>1. PICK s : s = SecondSection(q)
      OBVIOUS
    <3>2. s \in Seq(Changes)
      <4>1. PICK U : U = Seq(Changes)
        OBVIOUS
      <4>2. PICK st \in Seq(U) : st = q.state
        BY <1>2, <4>1, Zenon DEF IsQueue
      <4>3. Len(st) >= 3 => st[2] \in U
        BY <4>2
      <4> QED BY <3>1, <4>1, <4>2, <4>3 DEF SecondSection
    <3>3. Len(s) = 1 => s[1] \in ToSet(s)
      BY <3>2, TheOnlyOne
    <3> QED BY <2>3, <3>1, <3>3 DEF FailedWith, Others, Disjoint
  <2> QED BY <1>1, <2>1, <2>2, <2>3, <2>4, Zenon DEF RightJudges, DueToPass, DueToFail
<1>4. CASE action # "on_test_success"
  <2>1. Passing(q) = << >> /\ Suspects(q) = Head(q.state) /\ Outcome(o, action) = OnFailure(q)
    BY <1>1, <1>4, Zenon DEF IsRight, Passing, Suspects, Outcome
  <2>2. PICK M : q.stream_map \in [Streams -> M]
    BY <1>2, Zenon DEF IsMap, IsMapping
  <2>3. Judges(q, P, << >>, OnFailure(q))
    BY <1>2, <2>2, FailureEffect, Zenon
  <2>4. ExactlyJudges(q, << >>, Head(q.state), OnFailure(q))
    BY <1>2, <2>2, FailureExactly, Zenon
  <2>5. Disjoint(ToSet(<< >>), FailedWith(q, << >>, Head(q.state)))
    BY DEF ToSet, Disjoint
  <2> QED BY <1>1, <2>1, <2>3, <2>4, <2>5, Zenon DEF RightJudges, DueToPass, DueToFail
<1> QED BY <1>3, <1>4

\* What is due of a ready object is about its members, each once.
LEMMA DueIsSettled ==
    ASSUME NEW o, SafeObject(o), Once(o.queue), o.queue.test_key # NoKey
    PROVE  /\ Disjoint(DueToPass(o.queue), DueToFail(o.queue))
           /\ DueToPass(o.queue) \cup DueToFail(o.queue) \subseteq Members(o.queue)
<1>1. PICK q : q = o.queue
  OBVIOUS
<1>2. PICK action : IsRight(q, action)
  <2>1. IsRight(q, "on_test_success") \/ IsRight(q, "on_test_failure")
    BY DEF IsRight
  <2> QED BY <2>1
<1>3. PICK P : Sound(q, P)
  BY <1>1, Zenon DEF SafeObject
<1>4. PICK r : RightJudges(q, P, r)
  BY <1>1, <1>2, <1>3, RightOutcome, Zenon
<1>5. Members(q) = Members(r.queue) \cup ToSet(Passing(q)) \cup ToSet(r.failed)
  BY <1>4, Zenon DEF RightJudges, Judges
<1>6. ToSet(r.failed) = DueToFail(q) /\ Disjoint(DueToPass(q), DueToFail(q))
  BY <1>4, Zenon DEF RightJudges, ExactlyJudges, DueToFail
<1>7. DueToPass(q) \cup DueToFail(q) \subseteq Members(q)
  BY <1>5, <1>6 DEF DueToPass
<1> QED BY <1>1, <1>6, <1>7, Zenon

LEMMA DueIsMember ==
    ASSUME NEW o, SafeObject(o), Once(o.queue), NEW m, Due(o, m)
    PROVE  m.change \in Members(o.queue)
<1>1. o.queue.test_key # NoKey
  BY Zenon DEF Due
<1>2. DueToPass(o.queue) \cup DueToFail(o.queue) \subseteq Members(o.queue)
  BY <1>1, DueIsSettled, Zenon
<1>3. m.change \in DueToPass(o.queue) \/ m.change \in DueToFail(o.queue)
  BY Zenon DEF Due
<1> QED BY <1>2, <1>3

LEMMA DueAgree ==
    ASSUME NEW o, SafeObject(o), Once(o.queue), NEW m, Due(o, m), NEW n, Due(o, n),
           m.change = n.change
    PROVE  m = n
<1>1. o.queue.test_key # NoKey
  BY Zenon DEF Due
<1>2. Disjoint(DueToPass(o.queue), DueToFail(o.queue))
  BY <1>1, DueIsSettled, Zenon
<1>3. m.status = n.status
  BY <1>2, Zenon DEF Due, Disjoint
<1> QED BY <1>3, Zenon DEF Due

AllDue(o, ms) == \A i \in DOMAIN ms : ms[i].status \in Verdictual => Due(o, ms[i])

LEMMA MailIsDue ==
    ASSUME NEW o, NEW cs \in Seq(Changes), NEW status, NEW cause, NEW test,
           \A c \in ToSet(cs) :
              Due(o, [change |-> c, status |-> status, cause |-> cause, test |-> test])
    PROVE  AllDue(o, Mail(cs, status, cause, test))
<1>1. PICK ms : ms = Mail(cs, status, cause, test)
  OBVIOUS
<1>2. \A i \in DOMAIN cs : cs[i] \in ToSet(cs)
  BY DEF ToSet
<1>3. /\ DOMAIN ms = DOMAIN cs
      /\ \A i \in DOMAIN cs :
            ms[i] = [change |-> cs[i], status |-> status, cause |-> cause, test |-> test]
  BY <1>1 DEF Mail
<1> QED BY <1>1, <1>2, <1>3, Zenon DEF AllDue

LEMMA CatIsDue ==
    ASSUME NEW o, NEW a, NEW b, IsSeq(a), IsSeq(b), AllDue(o, a), AllDue(o, b)
    PROVE  AllDue(o, a \o b)
<1>1. PICK u, l, m : u = a \o b /\ l = Len(a) /\ m = Len(b)
  OBVIOUS
<1>2. CatOf(a, l, b, m, u)
  <2>1. CatOf(a, Len(a), b, Len(b), a \o b)
    BY CatIsSeq, Zenon
  <2> QED BY <1>1, <2>1, Zenon
<1>3. /\ l \in Nat /\ m \in Nat /\ DOMAIN a = 1..l /\ DOMAIN b = 1..m /\ DOMAIN u = 1..(l + m)
      /\ \A i \in 1..l : u[i] = a[i]
      /\ \A i \in 1..m : u[l + i] = b[i]
  BY <1>2, Zenon DEF CatOf
<1>4. ASSUME NEW i \in 1..(l + m), u[i].status \in Verdictual PROVE Due(o, u[i])
  <2>1. CASE i <= l
    <3>1. i \in 1..l
      BY <1>3, <2>1
    <3>2. u[i] = a[i] /\ i \in DOMAIN a
      BY <1>3, <3>1
    <3> QED BY <1>4, <3>2, Zenon DEF AllDue
  <2>2. CASE ~(i <= l)
    <3>1. PICK j \in 1..m : i = l + j
      <4>1. i - l \in 1..m /\ i = l + (i - l)
        BY <1>3, <2>2
      <4> QED BY <4>1
    <3>2. u[i] = b[j] /\ j \in DOMAIN b
      BY <1>3, <3>1
    <3> QED BY <1>4, <3>2, Zenon DEF AllDue
  <2> QED BY <2>1, <2>2
<1>5. AllDue(o, u)
  BY <1>3, <1>4, Zenon DEF AllDue
<1> QED BY <1>1, <1>5

LEMMA DueOfPassing ==
    ASSUME NEW o, o.queue.test_key # NoKey, NEW c, c \in DueToPass(o.queue),
           NEW cause, cause = CauseWith(o.queue, Passing(o.queue), Suspects(o.queue)),
           NEW test, test = Head(o.queue.state)
    PROVE  Due(o, [change |-> c, status |-> "successful", cause |-> cause, test |-> test])
<1>1. PICK m : m = [change |-> c, status |-> "successful", cause |-> cause, test |-> test]
  OBVIOUS
<1>2. m.change = c /\ m.status = "successful"
  BY <1>1
<1>3. m = DueMail(o, c, "successful")
  BY <1>1 DEF DueMail
<1> QED BY <1>1, <1>2, <1>3, Zenon DEF Due

LEMMA DueOfFailing ==
    ASSUME NEW o, o.queue.test_key # NoKey, NEW c, c \in DueToFail(o.queue),
           NEW cause, cause = CauseWith(o.queue, Passing(o.queue), Suspects(o.queue)),
           NEW test, test = IF ~IsBroken(o.queue) THEN o.last_failed ELSE Head(o.queue.state)
    PROVE  Due(o, [change |-> c, status |-> "failed", cause |-> cause, test |-> test])
<1>1. PICK m : m = [change |-> c, status |-> "failed", cause |-> cause, test |-> test]
  OBVIOUS
<1>2. m.change = c /\ m.status = "failed"
  BY <1>1
<1>3. m = DueMail(o, c, "failed")
  BY <1>1 DEF DueMail
<1> QED BY <1>1, <1>2, <1>3, Zenon DEF Due

LEMMA VerdictIsDue ==
    ASSUME NEW o, SafeObject(o), Once(o.queue), NEW key, TestKeyMatch(o.queue, key),
           NEW action, NEW tested, tested = Head(o.queue.state), IsRight(o.queue, action)
    PROVE  AllDue(o, ActVerdict(o, action, key, tested).mails)
<1>1. PICK q : q = o.queue
  OBVIOUS
<1>2. PICK r : r = Outcome(o, action)
  OBVIOUS
<1>3. PICK named : named = IF action = "on_test_success"
                           THEN [o EXCEPT !.last_successful = tested]
                           ELSE [o EXCEPT !.last_failed = tested]
  OBVIOUS
<1>4. PICK ms : ms = Mail(r.successful, "successful", r.cause, named.last_successful)
                        \o Mail(r.failed, "failed", r.cause, named.last_failed)
  OBVIOUS
<1>5. ActVerdict(o, action, key, tested).mails = ms
  <2>1. ActVerdict(o, action, key, tested)
           = [object |-> [named EXCEPT !.queue = r.queue], mails |-> ms,
              done |-> [Nothing EXCEPT !.judged = Verdicts(r)]]
    BY <1>2, <1>3, <1>4, Zenon DEF ActVerdict, Outcome
  <2> QED BY <2>1
<1>6. /\ action = "on_test_success" =>
            named.last_successful = tested /\ named.last_failed = o.last_failed
      /\ action # "on_test_success" => named.last_failed = tested
  BY <1>3 DEF SafeObject, IsObject
<1>7. o.queue.test_key # NoKey
  BY Zenon DEF TestKeyMatch
<1>8. PICK P : Sound(o.queue, P)
  BY Zenon DEF SafeObject
<1>9. RightJudges(q, P, r)
  BY <1>1, <1>2, <1>7, <1>8, RightOutcome, Zenon
<1>10. /\ r.successful = Passing(q) /\ r.successful \in Seq(Changes) /\ r.failed \in Seq(Changes)
       /\ ToSet(r.failed) = DueToFail(q) /\ r.cause = CauseWith(q, Passing(q), Suspects(q))
  <2>1. /\ r.successful = Passing(q) /\ r.failed \in Seq(Changes)
        /\ ToSet(r.failed) = DueToFail(q) /\ r.cause = CauseWith(q, Passing(q), Suspects(q))
    BY <1>9, Zenon DEF RightJudges, ExactlyJudges, DueToFail
  <2>2. Passing(q) \in Seq(Changes)
    <3>1. Head(q.state) \in Seq(Changes)
      <4>1. IsQueue(q) /\ Shaped(q) /\ Len(q.state) >= 2
        BY <1>1, <1>7, Zenon DEF SafeObject, Fit, KeyFits
      <4> QED BY <4>1, HeadNotEmpty, Zenon
    <3>2. << >> \in Seq(Changes)
      OBVIOUS
    <3> QED BY <3>1, <3>2, Zenon DEF Passing
  <2> QED BY <2>1, <2>2
<1>11. AllDue(o, Mail(r.successful, "successful", r.cause, named.last_successful))
  <2>1. ASSUME NEW c \in ToSet(r.successful)
        PROVE  Due(o, [change |-> c, status |-> "successful", cause |-> r.cause,
                       test |-> named.last_successful])
    <3>1. c \in DueToPass(o.queue)
      BY <1>1, <1>10, <2>1, Zenon DEF DueToPass
    <3>2. ~IsBroken(q)
      BY <1>1, <3>1 DEF DueToPass, Passing, ToSet
    <3>3. named.last_successful = Head(o.queue.state)
      BY <1>1, <1>6, <3>2, Zenon DEF IsRight
    <3> QED BY <1>1, <1>7, <1>10, <3>1, <3>3, DueOfPassing, Zenon
  <2> QED BY <1>10, <2>1, MailIsDue, Zenon
<1>12. AllDue(o, Mail(r.failed, "failed", r.cause, named.last_failed))
  <2>1. named.last_failed = IF ~IsBroken(o.queue) THEN o.last_failed ELSE Head(o.queue.state)
    BY <1>6, Zenon DEF IsRight
  <2>2. ASSUME NEW c \in ToSet(r.failed)
        PROVE  Due(o, [change |-> c, status |-> "failed", cause |-> r.cause,
                       test |-> named.last_failed])
    <3>1. c \in DueToFail(o.queue)
      BY <1>1, <1>10, <2>2, Zenon
    <3> QED BY <1>1, <1>7, <1>10, <2>1, <3>1, DueOfFailing, Zenon
  <2> QED BY <1>10, <2>2, MailIsDue, Zenon
<1>13. AllDue(o, ms)
  <2>1. /\ IsSeq(Mail(r.successful, "successful", r.cause, named.last_successful))
        /\ IsSeq(Mail(r.failed, "failed", r.cause, named.last_failed))
    BY <1>10, MailIs
  <2> QED BY <1>4, <1>11, <1>12, <2>1, CatIsDue, Zenon
<1> QED BY <1>5, <1>13, Zenon

\* The reports of an addition tell no verdict.
LEMMA AddIsDue ==
    ASSUME NEW o, SafeObject(o), NEW c \in Changes
    PROVE  AllDue(o, ActAdd(o, c).mails)
<1>1. PICK r : r = Added(o.queue, c)
  OBVIOUS
<1>2. PICK ms : ms = Mail(r.added, "added", NoChange, NoTest)
                        \o Mail(r.rejected, "rejected", NoChange, NoTest)
  OBVIOUS
<1>3. ActAdd(o, c).mails = ms
  BY <1>1, <1>2 DEF ActAdd
<1>4. r.added \in Seq(Changes) /\ r.rejected \in Seq(Changes)
  <2>1. PICK P : IsQueue(o.queue) /\ Sound(o.queue, P)
    BY Zenon DEF SafeObject, Fit
  <2> QED BY <1>1, <2>1, AddedEffect, Zenon DEF Adds
<1>5. ASSUME NEW cs \in Seq(Changes), NEW status, status \notin Verdictual
      PROVE  IsSeq(Mail(cs, status, NoChange, NoTest)) /\ AllDue(o, Mail(cs, status, NoChange, NoTest))
  <2>1. \A i \in DOMAIN Mail(cs, status, NoChange, NoTest) :
           Mail(cs, status, NoChange, NoTest)[i].status = status
    BY DEF Mail
  <2> QED BY <1>5, <2>1, MailIs DEF AllDue
<1>6. "added" \notin Verdictual /\ "rejected" \notin Verdictual
  BY DEF Verdictual
<1>7. AllDue(o, ms)
  BY <1>2, <1>4, <1>5, <1>6, CatIsDue, Zenon
<1> QED BY <1>3, <1>7

LEMMA ActIsDue ==
    ASSUME SavedInv, Once(artifact.queue), NEW r, IsRequest(r), TrueRequest(r)
    PROVE  AllDue(artifact, Act(artifact, r).mails)
<1>1. SafeObject(artifact)
  BY Zenon DEF SavedInv
<1>2. AllDue(artifact, << >>)
  BY DEF AllDue
<1>3. CASE r = AskNextTest
  <2>1. r.action = "get_next_test"
    BY <1>3 DEF AskNextTest, Request
  <2>2. Act(artifact, r) = ActNextTest(artifact)
    BY <2>1 DEF Act
  <2>3. ActNextTest(artifact).mails = << >>
    BY DEF ActNextTest
  <2> QED BY <1>2, <2>2, <2>3, Zenon
<1>4. ASSUME NEW c \in Changes, r = Request("add", c, NoTest)
      PROVE  AllDue(artifact, Act(artifact, r).mails)
  <2>1. r.action = "add" /\ r.arg = c
    BY <1>4 DEF Request
  <2>2. Act(artifact, r) = ActAdd(artifact, c)
    BY <2>1 DEF Act
  <2> QED BY <1>1, <2>2, AddIsDue, Zenon
<1>5. ASSUME NEW t \in committed.tests, NEW action \in {"on_test_success", "on_test_failure"},
             r = Request(action, t.key, t.list)
      PROVE  AllDue(artifact, Act(artifact, r).mails)
  <2>1. r.action = action /\ r.arg = t.key /\ r.tested = t.list
    BY <1>5 DEF Request
  <2>2. PICK a : a = ActVerdict(artifact, action, t.key, t.list)
    OBVIOUS
  <2>3. Act(artifact, r) = a
    BY <1>5, <2>1, <2>2 DEF Act
  <2>4. CASE ~TestKeyMatch(artifact.queue, t.key)
    <3>1. a = [object |-> artifact, mails |-> << >>, done |-> Nothing]
      BY <2>2, <2>4, Zenon DEF ActVerdict
    <3>2. a.mails = << >>
      BY <3>1
    <3> QED BY <1>2, <2>3, <3>2, Zenon
  <2>5. CASE TestKeyMatch(artifact.queue, t.key)
    <3>1. t.list = Head(artifact.queue.state)
      BY <2>5, Zenon DEF SavedInv, TestsAreCurrent, TestKeyMatch
    <3>2. IsRight(artifact.queue, action)
      BY <1>5, <2>1, <3>1 DEF TrueRequest, IsRight, IsBroken
    <3> QED BY <1>1, <2>2, <2>3, <2>5, <3>1, <3>2, VerdictIsDue, Zenon
  <2> QED BY <2>4, <2>5
<1> QED BY <1>3, <1>4, <1>5, Zenon DEF IsRequest

-----------------------------------------------------------------------------
(* An addition leaves what is due of the changes that stay.                *)

LEMMA DependantsPersist ==
    ASSUME NEW cs \in SUBSET Changes, NEW ds \in SUBSET Changes, DistinctIds,
           \A e \in cs \cap ds : \A y \in cs \ ds : Id[y] \notin Requires[e],
           NEW x, NEW d \in cs \cap ds, Id[d] \in DependantsOn(x, cs)
    PROVE  Id[d] \in DependantsOn(x, ds)
<1>1. Id[d] \in Ids
  BY DependenciesAssumption
<1>2. SUFFICES ASSUME NEW S \in SUBSET Ids, ClosedUnder(x, ds, S) PROVE Id[d] \in S
  BY <1>1 DEF DependantsOn
<1>3. PICK T : T = S \cup {Id[e] : e \in cs \ ds}
  OBVIOUS
<1>4. T \in SUBSET Ids
  BY <1>3, DependenciesAssumption
<1>5. ASSUME NEW e \in cs, Requires[e] \cap ({x} \cup T) # {} PROVE Id[e] \in T
  <2>1. CASE e \in ds
    <3>1. Requires[e] \cap ({x} \cup S) # {}
      BY <1>3, <1>5, <2>1
    <3>2. Id[e] \in Needing({x} \cup S, ds)
      BY <2>1, <3>1 DEF Needing
    <3> QED BY <1>2, <1>3, <3>2 DEF ClosedUnder
  <2>2. CASE e \notin ds
    BY <1>3, <2>2
  <2> QED BY <2>1, <2>2
<1>6. ClosedUnder(x, cs, T)
  BY <1>5 DEF ClosedUnder, Needing
<1>7. Id[d] \in T
  BY <1>4, <1>6 DEF DependantsOn
<1>8. \A e \in cs \ ds : Id[e] # Id[d]
  BY DEF DistinctIds
<1> QED BY <1>3, <1>7, <1>8

LEMMA SameSections ==
    ASSUME NEW q, Fit(q), q.test_key # NoKey, NEW t, IsQueue(t), SameUnderTest(q, t)
    PROVE  /\ Head(t.state) = Head(q.state) /\ SecondSection(t) = SecondSection(q)
           /\ Passing(t) = Passing(q) /\ Suspects(t) = Suspects(q)
           /\ IsBroken(t) = IsBroken(q)
<1>1. Len(q.state) >= 2
  BY Zenon DEF Fit, KeyFits
<1>2. Head(t.state) = Head(q.state)
  BY <1>1, AddKeepsFit, Zenon
<1>3. SecondSection(t) = SecondSection(q)
  <2>1. /\ Len(t.state) = Len(q.state)
        /\ \A i \in 1..(Len(q.state) - 1) : t.state[i] = q.state[i]
    BY Zenon DEF SameUnderTest
  <2>2. PICK l : l = Len(q.state)
    OBVIOUS
  <2>3. l \in Nat
    <3>1. PICK U : U = Seq(Seq(Changes))
      OBVIOUS
    <3>2. PICK st : st = q.state /\ st \in Seq(Seq(Changes))
      BY Zenon DEF Fit, IsQueue
    <3> QED BY <2>2, <3>2
  <2>4. l >= 3 => 2 \in 1..(l - 1)
    BY <2>3
  <2> QED BY <2>1, <2>2, <2>4, Zenon DEF SecondSection
<1> QED BY <1>2, <1>3, Zenon DEF Passing, Suspects, IsBroken

LEMMA FailingStays ==
    ASSUME NEW q, IsQueue(q), NEW t, IsQueue(t), StaysFree(q, t), DistinctIds,
           NEW ok, NEW s, NEW d, d \in FailedWith(q, ok, s), d \in Members(t)
    PROVE  d \in FailedWith(t, ok, s)
<1>1. PICK x : x = s[1]
  OBVIOUS
<1>2. /\ Len(s) = 1
      /\ \/ d = x
         \/ d \in Others(q, ok, x) /\ Id[d] \in DependantsOn(Id[x], Others(q, ok, x))
  BY <1>1 DEF FailedWith
<1>3. PICK cs, ds : cs = Others(q, ok, x) /\ ds = Others(t, ok, x)
  OBVIOUS
<1>4. cs \in SUBSET Changes /\ ds \in SUBSET Changes
  <2>1. Members(q) \subseteq Changes /\ Members(t) \subseteq Changes
    BY OnceIs DEF Members
  <2> QED BY <1>3, <2>1 DEF Others
<1>5. \A e \in cs \cap ds : \A y \in cs \ ds : Id[y] \notin Requires[e]
  BY <1>3 DEF StaysFree, Others
<1>6. ASSUME d # x PROVE d \in ds /\ Id[d] \in DependantsOn(Id[x], ds)
  <2>1. d \in cs /\ Id[d] \in DependantsOn(Id[x], cs)
    BY <1>2, <1>3, <1>6
  <2>2. d \in ds
    BY <1>3, <2>1 DEF Others
  <2> QED BY <1>4, <1>5, <2>1, <2>2, DependantsPersist
<1> QED BY <1>1, <1>2, <1>3, <1>6 DEF FailedWith

LEMMA DueStays ==
    ASSUME NEW o, SafeObject(o), NEW v, IsQueue(v.queue), SameUnderTest(o.queue, v.queue),
           StaysFree(o.queue, v.queue), v.last_failed = o.last_failed, DistinctIds,
           NEW m, Due(o, m), m.change \in Members(v.queue)
    PROVE  Due(v, m)
<1>1. PICK q, t : q = o.queue /\ t = v.queue
  OBVIOUS
<1>2. Fit(q) /\ IsQueue(q) /\ q.test_key # NoKey
  BY <1>1, Zenon DEF SafeObject, Fit, Due
<1>3. /\ Head(t.state) = Head(q.state) /\ Passing(t) = Passing(q) /\ Suspects(t) = Suspects(q)
      /\ IsBroken(t) = IsBroken(q)
  BY <1>1, <1>2, SameSections, Zenon
<1>4. t.test_key = q.test_key /\ t.stream_map = q.stream_map
  BY <1>1, Zenon DEF SameUnderTest
<1>5. CauseWith(t, Passing(t), Suspects(t)) = CauseWith(q, Passing(q), Suspects(q))
  BY <1>3, <1>4, Zenon DEF CauseWith
<1>6. DueMail(v, m.change, m.status) = DueMail(o, m.change, m.status)
  BY <1>1, <1>3, <1>5, Zenon DEF DueMail
<1>7. DueToPass(t) = DueToPass(q)
  BY <1>3, Zenon DEF DueToPass
<1>8. m.change \in DueToFail(q) => m.change \in DueToFail(t)
  <2>1. m.change \in FailedWith(q, Passing(q), Suspects(q))
          => m.change \in FailedWith(t, Passing(q), Suspects(q))
    BY <1>1, <1>2, FailingStays, Zenon
  <2> QED BY <1>3, <2>1, Zenon DEF DueToFail
<1> QED BY <1>1, <1>2, <1>4, <1>6, <1>7, <1>8, Zenon DEF Due

-----------------------------------------------------------------------------
(* A change is reported as the test under way is due to tell as long as it *)
(* is in the saved queue, and not again once it has left.                  *)

\* The ids of the changes that have left the saved queue.
Gone == {Id[c] : c \in committed.submitted \ Members(artifact.queue)}

EachOnceSaved ==
    /\ Once(artifact.queue) /\ Sound(artifact.queue, Gone)
    /\ Members(artifact.queue) \subseteq committed.submitted
    /\ committed.submitted \subseteq Changes

BuildIsDue ==
    build # NoBuild => AllDue(artifact, build.mails) /\ TrueRequest(build.request)

MailsAreDue ==
    \A m \in mails : m.status \in Verdictual =>
        /\ m.change \in committed.submitted
        /\ m.change \in Members(artifact.queue) => Due(artifact, m)

MailsAgree ==
    \A m, n \in mails :
        m.change = n.change /\ m.status \in Verdictual /\ n.status \in Verdictual => m = n

Agreement == EachOnceSaved /\ BuildIsDue /\ MailsAreDue /\ MailsAgree

AgreeInv == DistinctIds => Agreement

LEMMA SoundMonotone ==
    ASSUME NEW q, NEW P, Sound(q, P), NEW R, P \subseteq R
    PROVE  Sound(q, R)
<1>1. Follows(Queued(q), R)
  BY DEF Sound, Follows
<1>2. Met(IdsOf(Queued(q)) \cup R, q.awaiting)
  BY DEF Sound, Met
<1> QED BY <1>1, <1>2, Zenon DEF Sound

LEMMA DueSame ==
    ASSUME NEW o, NEW v, v.queue = o.queue, v.last_failed = o.last_failed, NEW m, Due(o, m)
    PROVE  Due(v, m)
BY Zenon DEF Due, DueMail

LEMMA GoneAreNoMembers ==
    ASSUME DistinctIds, EachOnceSaved
    PROVE  \A y \in Members(artifact.queue) : Id[y] \notin Gone
BY DEF DistinctIds, EachOnceSaved, Gone

LEMMA InitAgrees == ASSUME Init PROVE Agreement
<1>1. artifact.queue = NewQueue /\ committed.submitted = {} /\ mails = {} /\ build = NoBuild
  BY DEF Init, NewObject, Nothing
<1>2. /\ Queued(NewQueue) = << >> /\ NewQueue.awaiting = << >> /\ Members(NewQueue) = {}
      /\ \A P : Sound(NewQueue, P)
  BY NewQueueFits, Zenon
<1>3. Once(NewQueue)
  BY <1>2 DEF Once, Unique, Distinct, EachOnce, Disjoint, ToSet
<1>4. EachOnceSaved
  BY <1>1, <1>2, <1>3 DEF EachOnceSaved
<1> QED BY <1>1, <1>4 DEF Agreement, BuildIsDue, MailsAreDue, MailsAgree

\* The steps that save nothing.
LEMMA UnsavedAgrees ==
    ASSUME Agreement, UNCHANGED <<artifact, committed>>, BuildIsDue', MailsAreDue', MailsAgree'
    PROVE  Agreement'
<1>1. artifact' = artifact /\ committed' = committed
  OBVIOUS
<1>2. EachOnceSaved'
  BY <1>1 DEF Agreement, EachOnceSaved, Gone
<1> QED BY <1>2, Zenon DEF Agreement

LEMMA OthersAgree ==
    ASSUME Agreement, UNCHANGED <<artifact, committed, mails>>,
           \/ build' = NoBuild
           \/ /\ build # NoBuild /\ build'.request = build.request
              /\ build'.mails = build.mails
           \/ build' = build
    PROVE  Agreement'
<1>1. artifact' = artifact /\ committed' = committed /\ mails' = mails
  OBVIOUS
<1>2. BuildIsDue'
  BY <1>1, Zenon DEF Agreement, BuildIsDue
<1>3. MailsAreDue' /\ MailsAgree'
  BY <1>1 DEF Agreement, MailsAreDue, MailsAgree
<1> QED BY <1>2, <1>3, UnsavedAgrees, Zenon

LEMMA StartBuildAgrees ==
    ASSUME SavedInv, TruthInv, Agreement, NEW r \in requests, StartBuild(r)
    PROVE  Agreement'
<1>1. PICK a : a = Act(artifact, r)
  OBVIOUS
<1>2. AllDue(artifact, a.mails) /\ TrueRequest(r)
  <2>1. IsRequest(r) /\ TrueRequest(r) /\ Once(artifact.queue)
    BY Zenon DEF SavedInv, TruthInv, Agreement, EachOnceSaved
  <2> QED BY <1>1, <2>1, ActIsDue, Zenon
<1>3. /\ artifact' = artifact /\ committed' = committed /\ mails' = mails
      /\ build' = [phase |-> "report", request |-> r, object |-> a.object,
                   mails |-> a.mails, done |-> a.done]
  BY <1>1, Zenon DEF StartBuild
<1>4. build'.request = r /\ build'.mails = a.mails
  BY <1>3
<1>5. BuildIsDue'
  BY <1>2, <1>3, <1>4, Zenon DEF BuildIsDue
<1>6. MailsAreDue' /\ MailsAgree'
  BY <1>3 DEF Agreement, MailsAreDue, MailsAgree
<1> QED BY <1>3, <1>5, <1>6, UnsavedAgrees, Zenon

LEMMA ReportAgrees ==
    ASSUME IInv, SavedInv, Agreement, Report
    PROVE  Agreement'
<1>1. /\ build.phase = "report" /\ build.mails # << >> /\ mails' = mails \cup {Head(build.mails)}
      /\ build' = [build EXCEPT !.mails = Tail(@)]
      /\ artifact' = artifact /\ committed' = committed
  BY Zenon DEF Report
<1>2. build # NoBuild
  BY <1>1 DEF NoBuild
<1>3. build = [phase |-> build.phase, request |-> build.request, object |-> build.object,
               mails |-> build.mails, done |-> build.done]
  BY <1>2, Zenon DEF IInv, BuildActs
<1>4. PICK ms, rest, r, m : /\ ms = build.mails /\ rest = Tail(ms) /\ r = build.request
                            /\ m = Head(ms)
  OBVIOUS
<1>5. build'.request = r /\ build'.mails = rest
  BY <1>1, <1>3, <1>4
<1>6. IsSeq(ms) /\ ms # << >> /\ AllDue(artifact, ms) /\ TrueRequest(r)
  BY <1>1, <1>2, <1>4, Zenon DEF SavedInv, BuildTells, Agreement, BuildIsDue
<1>7. AllDue(artifact, rest) /\ (m.status \in Verdictual => Due(artifact, m))
  <2>1. PICK S : ms \in Seq(S)
    BY <1>6 DEF IsSeq
  <2>2. PICK l \in Nat : l = Len(ms) /\ DOMAIN ms = 1..l /\ l >= 1
    BY <1>6, <2>1
  <2>3. /\ DOMAIN rest = 1..(l - 1) /\ m = ms[1]
        /\ \A i \in 1..(l - 1) : rest[i] = ms[i + 1]
    BY <1>4, <1>6, <2>1, <2>2
  <2>4. \A i \in 1..(l - 1) : i + 1 \in 1..l
    BY <2>2
  <2>5. 1 \in 1..l
    BY <2>2
  <2> QED BY <1>6, <2>2, <2>3, <2>4, <2>5, Zenon DEF AllDue
<1>8. BuildIsDue'
  BY <1>1, <1>5, <1>6, <1>7, Zenon DEF BuildIsDue
<1>9. SafeObject(artifact) /\ Once(artifact.queue)
      /\ Members(artifact.queue) \subseteq committed.submitted /\ MailsAreDue /\ MailsAgree
  BY Zenon DEF SavedInv, Agreement, EachOnceSaved
<1>10. ASSUME m.status \in Verdictual
       PROVE  Due(artifact, m) /\ m.change \in Members(artifact.queue)
  BY <1>7, <1>9, <1>10, DueIsMember, Zenon
<1>11. MailsAreDue'
  BY <1>1, <1>4, <1>9, <1>10 DEF MailsAreDue
<1>12. ASSUME NEW n \in mails, n.change = m.change, m.status \in Verdictual, n.status \in Verdictual
       PROVE  m = n
  <2>1. Due(artifact, n)
    BY <1>9, <1>10, <1>12, Zenon DEF MailsAreDue
  <2> QED BY <1>9, <1>10, <1>12, <2>1, DueAgree, Zenon
<1>13. MailsAgree'
  BY <1>1, <1>4, <1>9, <1>12 DEF MailsAgree
<1> QED BY <1>1, <1>8, <1>11, <1>13, UnsavedAgrees, Zenon

\* A save that keeps what is due of the changes that stay in the queue.
LEMMA SavesAgree ==
    ASSUME Agreement, build' = NoBuild, mails' = mails, NEW S \in SUBSET Changes,
           committed'.submitted = committed.submitted \cup S,
           NEW t, artifact'.queue = t, Once(t), Members(t) \subseteq committed.submitted \cup S,
           NEW P, Sound(t, P), P \subseteq Gone',
           \A m \in mails : m.status \in Verdictual /\ m.change \in Members(t) => Due(artifact', m)
    PROVE  Agreement'
<1>1. Sound(t, Gone')
  BY SoundMonotone, Zenon
<1>2. EachOnceSaved'
  BY <1>1 DEF Agreement, EachOnceSaved
<1>3. MailsAreDue'
  BY DEF Agreement, MailsAreDue
<1>4. BuildIsDue' /\ MailsAgree'
  BY DEF Agreement, BuildIsDue, MailsAgree
<1> QED BY <1>2, <1>3, <1>4, Zenon DEF Agreement

LEMMA AddKeepsFailed ==
    ASSUME NEW o, SafeObject(o), NEW c
    PROVE  ActAdd(o, c).object.last_failed = o.last_failed
<1>1. PICK r : r = Added(o.queue, c)
  OBVIOUS
<1>2. ActAdd(o, c).object = [o EXCEPT !.queue = r.queue]
  BY <1>1 DEF ActAdd
<1> QED BY <1>2 DEF SafeObject, IsObject

LEMMA AddAgrees ==
    ASSUME DistinctIds, SavedInv, Agreement, build' = NoBuild, mails' = mails,
           NEW a, a = Act(artifact, build.request), Commits(a),
           NEW c \in Changes, CallAdd(c, a)
    PROVE  Agreement'
<1>1. PICK q, t : q = artifact.queue /\ t = a.object.queue
  OBVIOUS
<1>2. /\ EachOnceSaved /\ Once(q) /\ Sound(q, Gone) /\ IsQueue(q) /\ SafeObject(artifact)
      /\ Members(q) \subseteq committed.submitted
  BY <1>1, Zenon DEF Agreement, EachOnceSaved, SavedInv, SafeObject, Fit
<1>3. /\ c \notin committed.submitted /\ t = Added(q, c).queue /\ a.done.submitted = {c}
      /\ build.request = Request("add", c, NoTest)
  BY <1>1, Zenon DEF CallAdd, AddsTo
<1>4. c \notin Members(q)
  BY <1>2, <1>3
<1>5. Once(t) /\ StaysFree(q, t)
  <2>1. \A y \in Members(q) : Id[y] \notin Gone
    BY <1>1, <1>2, GoneAreNoMembers, Zenon
  <2> QED BY <1>2, <1>3, <1>4, <2>1, AddedOnce, Zenon
<1>6. /\ IsQueue(t) /\ Sound(t, Gone) /\ SameUnderTest(q, t)
      /\ Members(t) \subseteq Members(q) \cup {c}
  <2>1. Adds(q, Gone, c, Added(q, c))
    BY <1>2, AddedEffect, Zenon
  <2>2. Members(t) \cup ToSet(Added(q, c).rejected) = Members(q) \cup {c}
    BY <1>3, <2>1, Zenon DEF Adds
  <2> QED BY <1>3, <2>1, <2>2, Zenon DEF Adds
<1>7. artifact' = a.object /\ committed'.submitted = committed.submitted \cup {c}
  BY <1>3, Zenon DEF Commits
<1>8. artifact'.queue = t /\ artifact'.last_failed = artifact.last_failed
  <2>1. a = ActAdd(artifact, c)
    <3>1. build.request.action = "add" /\ build.request.arg = c
      BY <1>3 DEF Request
    <3> QED BY <3>1 DEF Act
  <2> QED BY <1>1, <1>2, <1>7, <2>1, AddKeepsFailed, Zenon
<1>9. Gone \subseteq Gone'
  <2>1. Gone' = {Id[x] : x \in committed'.submitted \ Members(artifact'.queue)}
    BY DEF Gone
  <2> QED BY <1>1, <1>3, <1>6, <1>7, <1>8, <2>1 DEF Gone
<1>10. ASSUME NEW m \in mails, m.status \in Verdictual, m.change \in Members(t)
       PROVE  Due(artifact', m)
  <2>1. m.change \in committed.submitted
    BY <1>10, Zenon DEF Agreement, MailsAreDue
  <2>2. m.change \in Members(q)
    BY <1>3, <1>6, <1>10, <2>1
  <2>3. Due(artifact, m)
    BY <1>1, <1>10, <2>2, Zenon DEF Agreement, MailsAreDue
  <2>4. PICK v : v = artifact'
    OBVIOUS
  <2>5. IsQueue(v.queue) /\ SameUnderTest(q, v.queue) /\ StaysFree(q, v.queue)
        /\ v.last_failed = artifact.last_failed /\ m.change \in Members(v.queue)
    BY <1>5, <1>6, <1>8, <1>10, <2>4, Zenon
  <2>6. Due(v, m)
    BY <1>1, <1>2, <2>3, <2>5, DueStays, Zenon
  <2> QED BY <2>4, <2>6
<1>11. Members(t) \subseteq committed.submitted \cup {c}
  BY <1>2, <1>6
<1> QED BY <1>5, <1>6, <1>7, <1>8, <1>9, <1>10, <1>11, SavesAgree

\* A call that leaves the queue as it was but for its key.
LEMMA SameQueueAgrees ==
    ASSUME Agreement, build' = NoBuild, mails' = mails,
           committed'.submitted = committed.submitted,
           NEW q, q = artifact.queue, NEW t, t = artifact'.queue,
           Queued(t) = Queued(q), t.awaiting = q.awaiting,
           q.test_key # NoKey => t = q /\ artifact'.last_failed = artifact.last_failed
    PROVE  Agreement'
<1>1. Once(q) /\ Sound(q, Gone) /\ Members(q) \subseteq committed.submitted
  BY Zenon DEF Agreement, EachOnceSaved
<1>2. Members(t) = Members(q) /\ Once(t) /\ Sound(t, Gone)
  BY <1>1, Zenon DEF Members, Once, Sound
<1>3. Gone' = Gone
  BY <1>2 DEF Gone
<1>4. ASSUME NEW m \in mails, m.status \in Verdictual, m.change \in Members(t)
      PROVE  Due(artifact', m)
  <2>1. Due(artifact, m)
    BY <1>2, <1>4, Zenon DEF Agreement, MailsAreDue
  <2>2. q.test_key # NoKey
    BY <2>1, Zenon DEF Due
  <2> QED BY <2>1, <2>2, DueSame, Zenon
<1>5. {} \in SUBSET Changes /\ committed.submitted = committed.submitted \cup {}
      /\ Gone \subseteq Gone'
  BY <1>3
<1> QED BY <1>1, <1>2, <1>4, <1>5, SavesAgree

LEMMA NextTestAgrees ==
    ASSUME SavedInv, Agreement, build' = NoBuild, mails' = mails,
           NEW a, a = Act(artifact, build.request), Commits(a), CallNextTest(a)
    PROVE  Agreement'
<1>1. PICK q, t, k : q = artifact.queue /\ t = a.object.queue /\ k = artifact.keys + 1
  OBVIOUS
<1>2. /\ t = NextTest(q, k) /\ Tests(q, k, t) /\ a.done.submitted = {}
      /\ build.request = AskNextTest
  BY <1>1, Zenon DEF CallNextTest, NextOf
<1>3. Queued(t) = Queued(q) /\ t.awaiting = q.awaiting
  BY <1>2, Zenon DEF Tests
<1>4. artifact' = a.object /\ committed'.submitted = committed.submitted
  BY <1>2 DEF Commits
<1>5. a.object.last_failed = artifact.last_failed
  <2>1. a = ActNextTest(artifact)
    <3>1. build.request.action = "get_next_test"
      BY <1>2 DEF AskNextTest, Request
    <3> QED BY <3>1 DEF Act
  <2>2. PICK v : v = NextTest(artifact.queue, artifact.keys + 1)
    OBVIOUS
  <2>3. PICK n : n = IF v.test_key > artifact.keys THEN artifact.keys + 1 ELSE artifact.keys
    OBVIOUS
  <2>4. a.object = [artifact EXCEPT !.queue = v, !.keys = n]
    BY <2>1, <2>2, <2>3 DEF ActNextTest
  <2> QED BY <2>4 DEF SavedInv, SafeObject, IsObject
<1>6. ASSUME q.test_key # NoKey PROVE t = q
  <2>1. IsQueue(q) /\ Shaped(q) /\ Len(q.state) >= 2
    BY <1>1, <1>6, Zenon DEF SavedInv, SafeObject, Fit, KeyFits
  <2>2. Head(q.state) # << >>
    BY <2>1, HeadNotEmpty, Zenon
  <2>3. ~(Len(q.state) <= 1)
    <3>1. PICK n : n = Len(q.state)
      OBVIOUS
    <3>2. n \in Nat
      <4>1. PICK st : st = q.state /\ st \in Seq(Seq(Changes))
        BY <2>1, Zenon DEF IsQueue
      <4> QED BY <3>1, <4>1
    <3> QED BY <2>1, <3>1, <3>2
  <2>4. t = [state |-> q.state, test_key |-> q.test_key, awaiting |-> q.awaiting,
             stream_map |-> q.stream_map]
    BY <1>2, <1>6, <2>2, <2>3, Zenon DEF NextTest
  <2> QED BY <2>1, <2>4, Zenon DEF IsQueue, IsWhole
<1> QED BY <1>1, <1>3, <1>4, <1>5, <1>6, SameQueueAgrees, Zenon

\* The changes a verdict takes out are the ones something was due of.
LEMMA VerdictAgrees ==
    ASSUME SavedInv, Agreement, build' = NoBuild, mails' = mails,
           build # NoBuild, NEW a, Commits(a),
           NEW t \in committed.tests, NEW action \in {"on_test_success", "on_test_failure"},
           CallVerdict(t, action, a)
    PROVE  Agreement'
<1>1. PICK q, v : q = artifact.queue /\ v = a.object.queue
  OBVIOUS
<1>2. build.request = Request(action, t.key, t.list) /\ JudgesIn(artifact, action, t.key, a)
  BY Zenon DEF CallVerdict
<1>3. artifact' = a.object /\ committed'.submitted = committed.submitted \cup a.done.submitted
  BY Zenon DEF Commits
<1>4. CASE ~TestKeyMatch(q, t.key)
  <2>1. a.object = artifact /\ a.done = Nothing
    BY <1>1, <1>2, <1>4, Zenon DEF JudgesIn
  <2>2. committed'.submitted = committed.submitted
    BY <1>3, <2>1 DEF Nothing
  <2>3. artifact' = artifact
    BY <1>3, <2>1
  <2> QED BY <2>2, <2>3, SameQueueAgrees, Zenon
<1>5. CASE TestKeyMatch(q, t.key)
  <2>1. /\ v = Outcome(artifact, action).queue /\ a.done.submitted = {}
    BY <1>1, <1>2, <1>5, Zenon DEF JudgesIn
  <2>2. /\ SafeObject(artifact) /\ Once(q) /\ Sound(q, Gone) /\ q.test_key # NoKey
        /\ Members(q) \subseteq committed.submitted
    BY <1>1, <1>5, Zenon DEF SavedInv, Agreement, EachOnceSaved, TestKeyMatch
  <2>3. IsRight(q, action)
    <3>1. t.list = Head(q.state)
      BY <1>1, <1>5, Zenon DEF SavedInv, TestsAreCurrent, TestKeyMatch
    <3>2. TrueRequest(build.request)
      BY Zenon DEF Agreement, BuildIsDue
    <3>3. build.request.action = action /\ build.request.tested = t.list
      BY <1>2 DEF Request
    <3> QED BY <3>1, <3>2, <3>3 DEF TrueRequest, IsRight, IsBroken
  <2>4. PICK r : r = Outcome(artifact, action) /\ RightJudges(q, Gone, r)
    BY <1>1, <2>2, <2>3, RightOutcome, Zenon
  <2>5. PICK P : P = Gone \cup IdsOf(Passing(q)) /\ Sound(v, P)
    BY <2>1, <2>4, Zenon DEF RightJudges, Judges
  <2>6. Once(v) /\ Members(v) = Members(q) \ (DueToPass(q) \cup DueToFail(q))
    BY <2>1, <2>4, Zenon DEF RightJudges, ExactlyJudges, DueToPass, DueToFail
  <2>7. artifact'.queue = v /\ committed'.submitted = committed.submitted \cup {}
    BY <1>1, <1>3, <2>1
  <2>8. P \subseteq Gone'
    <3>1. DueToPass(q) \subseteq committed.submitted
      BY <1>1, <2>2, DueIsSettled
    <3>2. IdsOf(Passing(q)) \subseteq {Id[c] : c \in DueToPass(q)}
      BY DEF IdsOf, DueToPass, ToSet
    <3>3. Gone' = {Id[c] : c \in committed'.submitted \ Members(artifact'.queue)}
      BY DEF Gone
    <3>4. Gone = {Id[c] : c \in committed.submitted \ Members(q)}
      BY <1>1 DEF Gone
    <3>5. DueToPass(q) \subseteq committed'.submitted \ Members(artifact'.queue)
      BY <2>6, <2>7, <3>1
    <3>6. committed.submitted \ Members(q) \subseteq committed'.submitted \ Members(artifact'.queue)
      BY <2>6, <2>7
    <3> QED BY <2>5, <3>2, <3>3, <3>4, <3>5, <3>6
  <2>9. ASSUME NEW m \in mails, m.status \in Verdictual, m.change \in Members(v)
        PROVE  Due(artifact', m)
    <3>1. m.change \in Members(q)
      BY <2>6, <2>9
    <3>2. Due(artifact, m)
      BY <1>1, <2>9, <3>1, Zenon DEF Agreement, MailsAreDue
    <3>3. m.change \in DueToPass(q) \cup DueToFail(q)
      BY <1>1, <3>2 DEF Due
    <3> QED BY <2>6, <2>9, <3>3
  <2>10. Members(v) \subseteq committed.submitted \cup {} /\ {} \in SUBSET Changes
    BY <2>2, <2>6
  <2> QED BY <2>5, <2>6, <2>7, <2>8, <2>9, <2>10, SavesAgree
<1> QED BY <1>4, <1>5

LEMMA EndBuildAgrees ==
    ASSUME DistinctIds, IInv, SavedInv, Agreement, EndBuild
    PROVE  Agreement'
<1>1. PICK a : a = Act(artifact, build.request)
  OBVIOUS
<1>2. Commits(a) /\ Called(a)
  BY <1>1, EndCommits, Zenon
<1>3. build.phase = "end" /\ build' = NoBuild /\ mails' = mails
  BY Zenon DEF EndBuild
<1>4. build # NoBuild
  BY <1>3 DEF NoBuild
<1>5. ASSUME NEW c \in Changes, CallAdd(c, a) PROVE Agreement'
  BY <1>1, <1>2, <1>3, <1>5, AddAgrees, Zenon
<1>6. ASSUME CallNextTest(a) PROVE Agreement'
  BY <1>1, <1>2, <1>3, <1>6, NextTestAgrees, Zenon
<1>7. ASSUME NEW t \in committed.tests, NEW action \in {"on_test_success", "on_test_failure"},
             CallVerdict(t, action, a)
      PROVE  Agreement'
  BY <1>2, <1>3, <1>4, <1>7, VerdictAgrees, Zenon
<1> QED BY <1>2, <1>5, <1>6, <1>7, Zenon DEF Called

LEMMA NextAgrees ==
    ASSUME IInv, SavedInv, TruthInv, AgreeInv, [TruthfulNext]_vars
    PROVE  AgreeInv'
<1> SUFFICES ASSUME DistinctIds PROVE Agreement'
  BY DEF AgreeInv, DistinctIds
<1>1. Agreement
  BY DEF AgreeInv
<1>2. ASSUME NEW r \in requests, StartBuild(r) PROVE Agreement'
  BY <1>1, <1>2, StartBuildAgrees, Zenon
<1>3. ASSUME SaveAndTrigger PROVE Agreement'
  <2>1. /\ build.phase = "report" /\ build' = [build EXCEPT !.phase = "end"]
        /\ UNCHANGED <<artifact, committed, mails>>
    BY <1>3, Zenon DEF SaveAndTrigger
  <2>2. build # NoBuild
    BY <2>1 DEF NoBuild
  <2>3. build = [phase |-> build.phase, request |-> build.request, object |-> build.object,
                 mails |-> build.mails, done |-> build.done]
    BY <2>2, Zenon DEF IInv, BuildActs
  <2>4. build'.request = build.request /\ build'.mails = build.mails
    BY <2>1, <2>3
  <2> QED BY <1>1, <2>1, <2>2, <2>4, OthersAgree, Zenon
<1>4. ASSUME FailBuild PROVE Agreement'
  <2>1. build' = NoBuild /\ UNCHANGED <<artifact, committed, mails>>
    BY <1>4, Zenon DEF FailBuild
  <2> QED BY <1>1, <2>1, OthersAgree, Zenon
<1>5. ASSUME \/ \E c \in Changes : Submit(c)
             \/ StartTester \/ TrueTestEnds \/ TesterDies \/ UNCHANGED vars
      PROVE  Agreement'
  <2>1. TrueTestEnds => UNCHANGED <<artifact, committed, mails, build>>
    BY DEF TrueTestEnds, TestEnds
  <2>2. UNCHANGED <<artifact, committed, mails>> /\ build' = build
    BY <1>5, <2>1 DEF Submit, StartTester, TesterDies, vars
  <2> QED BY <1>1, <2>2, OthersAgree, Zenon
<1> QED
  BY <1>1, <1>2, <1>3, <1>4, <1>5, ReportAgrees, EndBuildAgrees, Zenon DEF TruthfulNext, Steps

(***************************************************************************)
(* With tests that tell the truth and an id for each change, two reports   *)
(* of a verdict on the same change are the same report: a build that fails *)
(* after it reported leaves the saved queue and its key alone, so the same *)
(* verdict, cause and test are found again, unless an addition has taken   *)
(* the change out of the queue for good.                                   *)
(***************************************************************************)
THEOREM ReportsAgreeAlways == TruthfulSpec => []ReportsAgree
<1>1. Init => IInv /\ SavedInv /\ TruthInv /\ AgreeInv
  BY InitIInv, InitSaves, InitIsTrue, InitAgrees DEF AgreeInv
<1>2. TruthfulNext => Next
  BY DEF TruthfulNext, Next, TrueTestEnds, AnyTestEnds
<1>3. IInv /\ SavedInv /\ TruthInv /\ AgreeInv /\ [TruthfulNext]_vars
        => IInv' /\ SavedInv' /\ TruthInv' /\ AgreeInv'
  BY <1>2, NextIInv, NextSaves, NextIsTrue, NextAgrees
<1>4. AgreeInv => ReportsAgree
  BY DEF AgreeInv, Agreement, MailsAgree, ReportsAgree
<1> QED BY <1>1, <1>3, <1>4, PTL DEF TruthfulSpec
=============================================================================
