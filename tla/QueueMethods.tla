---------------------------- MODULE QueueMethods ----------------------------
(***************************************************************************)
(* The methods JenkinsChangeQueue inherits: ChangeQueueWithStreams on top  *)
(* of ChangeQueueWithDeps on top of ChangeQueue.  A queue is a record of   *)
(* the attributes of the object; a method is an operator from the queue it *)
(* is called on to the queue it leaves and the lists it returns.           *)
(***************************************************************************)
EXTENDS Sections, Dependants, Picks

CONSTANTS
    Streams,    \* the streams changes come in: branches, repositories
    Stream,     \* the stream of each change (its 'stream_id')
    NoStream,   \* the stream_id None
    NoChange    \* the cause None

ASSUME StreamsAssumption ==
    /\ NoStream \notin Streams
    /\ Stream \in [Changes -> Streams \cup {NoStream}]
    /\ NoChange \notin Changes

NoKey == 0

NewQueue ==
    [ state      |-> << << >> >>,
      test_key   |-> NoKey,
      awaiting   |-> << >>,         \* pairs of a change and the ids it misses
      stream_map |-> [s \in Streams |-> NoChange] ]  \* a stream not in the map has none

Queued(q) == FlattenSeq(q.state)
Awaiting(q) == [i \in DOMAIN q.awaiting |-> q.awaiting[i].change]

IdsOf(cs) == {Id[cs[i]] : i \in DOMAIN cs}
WithIds(cs, ids) == Picked(cs, {i \in DOMAIN cs : Id[cs[i]] \in ids})
WithoutIds(cs, ids) == Picked(cs, {i \in DOMAIN cs : Id[cs[i]] \notin ids})

AwaitingWithIds(q, ids) ==
    Picked(q.awaiting, {i \in DOMAIN q.awaiting : Id[q.awaiting[i].change] \in ids})

AwaitingWithoutIds(q, ids) ==
    Picked(q.awaiting, {i \in DOMAIN q.awaiting : Id[q.awaiting[i].change] \notin ids})

RemoveAwaiting(q, ids) == [q EXCEPT !.awaiting = AwaitingWithoutIds(q, ids)]
-----------------------------------------------------------------------------
(* add *)

MissingDeps(q, c) == Requires[c] \ IdsOf(Queued(q))

\* One turn of the loop of add: r is what the turns before left and returned.
Place(r, w) ==
    LET missing == w.missing \ IdsOf(r.added)
    IN  IF missing = {}
        THEN [r EXCEPT !.queue.state = AddToLast(@, w.change),
                       !.added = Append(@, w.change)]
        ELSE [r EXCEPT !.queue.awaiting =
                            Append(@, [change |-> w.change, missing |-> missing])]

\* The loop of add over the changes of turn.
PlaceAll(q, turn) ==
    LET after[n \in 0..Len(turn)] ==
            IF n = 0 THEN [queue |-> q, added |-> << >>, rejected |-> << >>]
                     ELSE Place(after[n - 1], turn[n])
    IN  after[Len(turn)]

\* A slip in add: any dependant is taken for a loop.
MutDependantIsLoop(q, c) ==
    LET ids  == DependantsOn(Id[c], {c} \cup ToSet(Awaiting(q)))
        turn == << [change |-> c, missing |-> MissingDeps(q, c)] >>
                    \o AwaitingWithIds(q, ids)
        kept == RemoveAwaiting(q, ids)
    IN  IF ids # {}
        THEN [queue |-> kept, added |-> << >>,
              rejected |-> [i \in DOMAIN turn |-> turn[i].change]]
        ELSE PlaceAll(kept, turn)

\* Another: the awaiting changes go first, in front of the one they wait for.
MutAwaitingFirst(q, c) ==
    LET ids  == DependantsOn(Id[c], {c} \cup ToSet(Awaiting(q)))
        turn == AwaitingWithIds(q, ids)
                    \o << [change |-> c, missing |-> MissingDeps(q, c)] >>
        kept == RemoveAwaiting(q, ids)
    IN  IF Id[c] \in ids
        THEN [queue |-> kept, added |-> << >>,
              rejected |-> [i \in DOMAIN turn |-> turn[i].change]]
        ELSE PlaceAll(kept, turn)

\* add(change): the change and the awaiting changes that depend on it are
\* placed in the last section or wait, each once; or all rejected, if the
\* change depends on itself.
Added(q, c) ==
    LET ids  == DependantsOn(Id[c], {c} \cup ToSet(Awaiting(q)))
        turn == << [change |-> c, missing |-> MissingDeps(q, c)] >>
                    \o AwaitingWithIds(q, ids)
        kept == RemoveAwaiting(q, ids)
    IN  IF Id[c] \in ids
        THEN [queue |-> kept, added |-> << >>,
              rejected |-> [i \in DOMAIN turn |-> turn[i].change]]
        ELSE PlaceAll(kept, turn)
-----------------------------------------------------------------------------
(* get_next_test; new_key is what uuid4 would return.  The list returned is *)
(* the first section.                                                       *)

\* A slip: the section under test stays open for additions.
MutOpenSection(q, new_key) ==
    IF Head(q.state) = << >>
    THEN q
    ELSE [q EXCEPT !.test_key = IF @ = NoKey THEN new_key ELSE @]

NextTest(q, new_key) ==
    IF Head(q.state) = << >>
    THEN q
    ELSE [ state      |-> IF Len(q.state) <= 1 THEN Append(q.state, << >>) ELSE q.state,
           test_key   |-> IF q.test_key = NoKey THEN new_key ELSE q.test_key,
           awaiting   |-> q.awaiting,
           stream_map |-> q.stream_map ]
-----------------------------------------------------------------------------
(* on_test_failure and on_test_success, when the key matches *)

\* A slip in on_test_failure: dependants are only looked for in the queue.
MutLeaveAwaiting(q, c) ==
    LET ids == DependantsOn(Id[c], ToSet(Queued(q)))
    IN  [ queue   |-> [q EXCEPT !.state = [i \in DOMAIN @ |-> WithoutIds(@[i], ids)]],
          removed |-> WithIds(Queued(q), ids) ]

\* The queue without the dependants of c, and those dependants.
WithoutDependantsOn(q, c) ==
    LET ids == DependantsOn(Id[c], ToSet(Queued(q)) \cup ToSet(Awaiting(q)))
        out == RemoveAwaiting(q, ids)
    IN  [ queue   |-> [out EXCEPT !.state = [i \in DOMAIN @ |-> WithoutIds(@[i], ids)]],
          removed |-> WithIds(Queued(q), ids) \o WithIds(Awaiting(q), ids) ]

\* ChangeQueueWithDeps.on_test_failure: what the base class returns as failed
\* takes along what depends on it.
DepsFailure(q) ==
    LET culprits == Culprits(q.state)
        split    == [q EXCEPT !.state = AfterFailure(@), !.test_key = NoKey]
    IN  IF culprits = << >>
        THEN [queue |-> split, successful |-> << >>, failed |-> << >>, cause |-> NoChange]
        ELSE LET r == WithoutDependantsOn(split, Head(culprits))
             IN  [queue |-> r.queue, successful |-> << >>,
                  failed |-> culprits \o r.removed, cause |-> Head(culprits)]

\* _get_cause_from_stream: the first culprit of the failure sequence of the
\* stream is the one to blame.
BlameFirstInStream(r) ==
    IF r.cause = NoChange \/ Stream[r.cause] = NoStream
    THEN r
    ELSE LET s     == Stream[r.cause]
             known == r.queue.stream_map[s]
             first == IF known = NoChange THEN r.cause ELSE known
         IN  [r EXCEPT !.queue.stream_map[s] = first, !.cause = first]

OnFailure(q) == BlameFirstInStream(DepsFailure(q))

\* A slip in ChangeQueueWithStreams.on_test_success: without the trick it plays
\* on the superclass, the culprit would be put in the map before the
\* successful changes are taken out of it.
MutBlameBeforeForgiving(q) ==
    LET ok     == Head(q.state)
        rest   == [q EXCEPT !.state = Tail(@)]
        r      == IF Len(rest.state) > 1
                  THEN OnFailure(rest)
                  ELSE [queue |-> [rest EXCEPT !.test_key = NoKey],
                        successful |-> << >>, failed |-> << >>, cause |-> NoChange]
        passed == {Stream[ok[i]] : i \in DOMAIN ok}
    IN  [r EXCEPT !.successful = ok,
                  !.queue.stream_map =
                      [s \in Streams |-> IF s \in passed THEN NoChange ELSE @[s]]]

\* The superclass's part of on_test_success, then the streams of the
\* successful changes are taken out of the map, then the cause is looked up.
OnSuccess(q) ==
    LET ok     == Head(q.state)
        rest   == [q EXCEPT !.state = Tail(@)]
        r      == IF Len(rest.state) > 1
                  THEN DepsFailure(rest)
                  ELSE [queue |-> [rest EXCEPT !.test_key = NoKey],
                        successful |-> << >>, failed |-> << >>, cause |-> NoChange]
        passed == {Stream[ok[i]] : i \in DOMAIN ok}
    IN  BlameFirstInStream(
            [r EXCEPT !.successful = ok,
                      !.queue.stream_map =
                          [s \in Streams |-> IF s \in passed THEN NoChange ELSE @[s]]])
-----------------------------------------------------------------------------
(* For the histories: the verdicts of a call that returned r, each with     *)
(* the part the change played and the cause it was returned with.           *)

Verdict(changes, part, cause) ==
    [i \in DOMAIN changes |-> [change |-> changes[i], part |-> part, cause |-> cause]]

Verdicts(r) ==
    Verdict(r.successful, "passed", r.cause) \o
    ( IF r.failed = << >> THEN << >>
      ELSE Verdict(<< Head(r.failed) >>, "culprit", r.cause)
           \o Verdict(Tail(r.failed), "dependant", r.cause) )
=============================================================================
