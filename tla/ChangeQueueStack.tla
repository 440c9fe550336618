-------------------------- MODULE ChangeQueueStack --------------------------
(***************************************************************************)
(* One queue with dependencies and streams in memory: the object that      *)
(* JenkinsChangeQueue loads, calls and saves, under calls in any order.    *)
(***************************************************************************)
EXTENDS QueueMethods, FiniteSets

VARIABLES
    queue,      \* the attributes of the object
    keys,       \* how many keys were made
    tests,      \* every [key, list] a call of get_next_test returned
    submitted,  \* the changes add was called with
    rejected,   \* the changes returned as rejected, in order
    judged      \* every change returned with a verdict, in order, with the
                \* cause returned and its part: passed, culprit or dependant

vars == <<queue, keys, tests, submitted, rejected, judged>>
-----------------------------------------------------------------------------
Init ==
    /\ queue = NewQueue
    /\ keys = 0
    /\ tests = {}
    /\ submitted = {}
    /\ rejected = << >>
    /\ judged = << >>

Add(c) ==
    /\ c \notin submitted
    /\ LET r == Added(queue, c)
       IN  queue' = r.queue /\ rejected' = rejected \o r.rejected
    /\ submitted' = submitted \cup {c}
    /\ UNCHANGED <<keys, tests, judged>>

GetNextTest ==
    /\ queue' = NextTest(queue, keys + 1)
    /\ keys' = IF queue'.test_key > keys THEN keys + 1 ELSE keys
    /\ tests' = IF Head(queue.state) = << >> THEN tests
                ELSE tests \cup {[key |-> queue'.test_key, list |-> Head(queue.state)]}
    /\ UNCHANGED <<submitted, rejected, judged>>

TestKeyMatch(key) == key # NoKey /\ key = queue.test_key

OnTestFailure(key) ==
    /\ TestKeyMatch(key)
    /\ LET r == OnFailure(queue)
       IN  queue' = r.queue /\ judged' = judged \o Verdicts(r)
    /\ UNCHANGED <<keys, tests, submitted, rejected>>

OnTestSuccess(key) ==
    /\ TestKeyMatch(key)
    /\ LET r == OnSuccess(queue)
       IN  queue' = r.queue /\ judged' = judged \o Verdicts(r)
    /\ UNCHANGED <<keys, tests, submitted, rejected>>

IgnoredVerdict(key) == ~TestKeyMatch(key) /\ UNCHANGED vars

Next ==
    \/ \E c \in Changes : Add(c)
    \/ GetNextTest
    \/ \E t \in tests : OnTestFailure(t.key)
    \/ \E t \in tests : OnTestSuccess(t.key)
    \/ \E t \in tests : IgnoredVerdict(t.key)

Spec == Init /\ [][Next]_vars
-----------------------------------------------------------------------------
JudgedAs(part) == {judged[i].change : i \in {j \in DOMAIN judged : judged[j].part = part}}

(***************************************************************************)
(* A change stands in the queue behind everything it requires, or what it  *)
(* requires has passed: no batch tests a change before its requirements,   *)
(* and a failed requirement has taken it out.                              *)
(***************************************************************************)
RequirementsFirst ==
    LET q == Queued(queue)
    IN  \A i \in DOMAIN q : \A id \in Requires[q[i]] :
            \/ \E j \in 1..(i - 1) : Id[q[j]] = id
            \/ id \in {Id[c] : c \in JudgedAs("passed")}

(***************************************************************************)
(* Only changes that must wait do: each misses an id, none of those it     *)
(* misses is in the queue, and it stands behind all those it misses that   *)
(* wait too, so that add resolves a whole chain in one pass.               *)
(***************************************************************************)
WaitsWithReason ==
    \A i \in DOMAIN queue.awaiting :
        LET w == queue.awaiting[i]
        IN  /\ w.missing # {} /\ w.missing \subseteq Requires[w.change]
            /\ w.missing \cap IdsOf(Queued(queue)) = {}
            /\ \A j \in i..Len(queue.awaiting) :
                  Id[queue.awaiting[j].change] \notin Requires[w.change]

(***************************************************************************)
(* When a change is blamed, what depends on it goes with it wherever it    *)
(* stood: a change that still waits misses every id it requires, but those *)
(* of changes that are in the queue or have passed.                        *)
(***************************************************************************)
FailuresTakeDependants ==
    \A i \in DOMAIN queue.awaiting :
        LET w == queue.awaiting[i]
        IN  Requires[w.change] \ w.missing
                \subseteq IdsOf(Queued(queue)) \cup {Id[c] : c \in JudgedAs("passed")}

\* A change is rejected only if it, or something it requires, is on a loop.
OnlyLoopsAreRejected ==
    \A i \in DOMAIN rejected :
        \E id \in Ids :
            /\ id \in DependantsOn(id, submitted)
            /\ Id[rejected[i]] \in DependantsOn(id, submitted)

(***************************************************************************)
(* The change to blame for a failure in a stream is the first culprit of   *)
(* the stream since a change of it last passed.  Both the cause returned   *)
(* with a culprit and the stream map agree with the verdicts returned, in  *)
(* the order they were.                                                    *)
(***************************************************************************)
FirstCulprit(s, verdicts) ==
    LET of    == {i \in DOMAIN verdicts :
                    Stream[verdicts[i].change] = s /\ verdicts[i].part # "dependant"}
        since == {i \in of : \A j \in of : j >= i => verdicts[j].part = "culprit"}
    IN  IF since = {} THEN NoChange ELSE verdicts[Min(since)].change

BlameIsFirstInStream ==
    /\ queue.stream_map = [s \in Streams |-> FirstCulprit(s, judged)]
    /\ \A i \in DOMAIN judged :
          LET v == judged[i]
          IN  v.part = "culprit" =>
                v.cause = IF Stream[v.change] = NoStream THEN v.change
                          ELSE FirstCulprit(Stream[v.change], SubSeq(judged, 1, i))

=============================================================================
