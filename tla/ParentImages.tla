---------------------------- MODULE ParentImages ----------------------------
(***************************************************************************)
(* stdci_tools/dockerfile_utils.py parent-image-update, which a poll job's  *)
(* script runs: a FROM decorated with follow_tag gets the image that the    *)
(* tag stands for in a registry that does not stand still meanwhile.        *)
(***************************************************************************)
EXTENDS Integers, SequencesExt, Maps

CONSTANTS Registries,     \* from references to what skopeo says: [ok, labels, digest]
          WithPort,       \* registries whose name holds a colon
          Cuts            \* how much of a file may be on the disk when a write fails

ASSUME CutsAssumption == Cuts \subseteq Nat

VARIABLES dockerfiles,    \* from paths to sequences of instructions
          registry,       \* one of Registries
          update          \* [step, given, todo, plan, refs, latest, sha, dry, seen,
                          \* report, unsaved, failed]
imageVars == <<dockerfiles, registry, update>>

\* A reference: [registry, repo, tag]; an image: with version, or digest.
\* An instruction: [kind], a FROM with image, a decorator with name and args.
NoUpdate == [step |-> "idle"]
Unknown == [x \in {} |-> x]
ImagesInit == dockerfiles = Unknown /\ registry = Unknown /\ update = NoUpdate

\* get_decorated_commands: the decorators between a command, which a plain
\* comment is too, and the command before it.
DecoratorsOf(structure, i) ==
  {d \in 1..(i - 1) : \A k \in d..(i - 1) : structure[k].kind = "decorator"}

\* first_decorator: the closest.
FollowedBy(structure, i) ==
  LET matches == {d \in DecoratorsOf(structure, i) : structure[d].name = "follow_tag"}
  IN IF matches = {} THEN {} ELSE {structure[Max(matches)].args}

\* get_old_images_and_floating_refs, FROM by FROM.
FollowedRefs(structure) ==
  [i \in {i \in DOMAIN structure : structure[i].kind = "FROM"} |-> FollowedBy(structure, i)]

\* replace_tag_with_static_tag, replace_tag_with_sha: of a registry with a
\* port only the name is left.
Replaced(ref, with) ==
  IF ref.registry \in WithPort THEN Over([registry |-> "", repo |-> ref.registry], with)
  ELSE Over([registry |-> ref.registry, repo |-> ref.repo], with)

\* get_latest_image, get_tag_from_inspect_struct
LatestImage(ref, answer, sha) ==
  IF sha THEN Replaced(ref, [digest |-> answer.digest])
  ELSE Replaced(ref, [tag |-> <<answer.labels["version"], answer.labels["release"]>>])
CanTell(answer, sha) == answer.ok /\ (sha \/ {"version", "release"} \subseteq DOMAIN answer.labels)

\* get_decorator raises.
Unreadable(files, order) ==
  \E f \in ToSet(order) : \E c \in ToSet(files[f]) : c.kind = "garbled"

\* parent_image_update_main, get_dfps: all are opened, then all are read.
StartUpdate(files, order) ==
  /\ update.step = "idle"
  /\ registry' \in Registries
  /\ dockerfiles' = files
  /\ \E sha, dry \in BOOLEAN :
       LET readable == ToSet(order) \subseteq DOMAIN files /\ ~Unreadable(files, order)
           read == IF readable THEN order ELSE <<>>
           plan == [f \in ToSet(read) |-> FollowedRefs(files[f])]
       IN update' = [step |-> IF readable THEN "inspect" ELSE "failed", given |-> files,
                     todo |-> read, plan |-> plan,
                     refs |-> UNION {UNION Range(plan[f]) : f \in ToSet(read)},
                     latest |-> Unknown, sha |-> sha, dry |-> dry, seen |-> {registry'},
                     report |-> {}, unsaved |-> <<>>, failed |-> ~readable]

\* get_latest_images: each reference once for all Dockerfiles.
Inspect ==
  /\ update.step = "inspect"
  /\ \E ref \in update.refs :
       update' = IF CanTell(registry[ref], update.sha)
                 THEN [update EXCEPT !.refs = @ \ {ref},
                                     !.latest = Over(Entry(ref, LatestImage(ref, registry[ref], update.sha)), @)]
                 ELSE [update EXCEPT !.step = "failed", !.failed = TRUE]
  /\ UNCHANGED <<dockerfiles, registry>>

Inspected ==
  /\ update.step = "inspect" /\ update.refs = {}
  /\ update' = [update EXCEPT !.step = "write"]
  /\ UNCHANGED <<dockerfiles, registry>>

\* A slip: an image is looked up for each Dockerfile.
MutNewImages(f) ==
  LET ref(i) == CHOOSE r \in update.plan[f][i] : TRUE
  IN [i \in DOMAIN dockerfiles[f] |->
       IF i \in DOMAIN update.plan[f] /\ update.plan[f][i] # {} /\ CanTell(registry[ref(i)], update.sha)
       THEN [dockerfiles[f][i] EXCEPT !.image = LatestImage(ref(i), registry[ref(i)], update.sha)]
       ELSE dockerfiles[f][i]]

\* get_update
NewImages(f) ==
  LET ref(i) == CHOOSE r \in update.plan[f][i] : TRUE
  IN [i \in DOMAIN dockerfiles[f] |->
       IF i \in DOMAIN update.plan[f] /\ update.plan[f][i] # {}
       THEN [dockerfiles[f][i] EXCEPT !.image = update.latest[ref(i)]]
       ELSE dockerfiles[f][i]]

\* update: the file is cut off, what is to be in it waits in a buffer.
WriteDockerfile ==
  /\ update.step = "write" /\ update.todo # <<>>
  /\ LET f == Head(update.todo)  new == NewImages(f)
         actions == {<<f, i, new[i].image>> : i \in {i \in DOMAIN new : new[i] # dockerfiles[f][i]}}
     IN IF update.dry
        THEN /\ update' = [update EXCEPT !.todo = Tail(@), !.report = @ \cup actions]
             /\ UNCHANGED dockerfiles
        ELSE /\ update' = [update EXCEPT !.todo = Tail(@), !.report = @ \cup actions,
                                         !.unsaved = Append(@, <<f, new>>)]
             /\ dockerfiles' = [dockerfiles EXCEPT ![f] = <<>>]
  /\ UNCHANGED registry

\* The disk is full, say, before all of it is in the buffer.
WriteFails ==
  /\ update.step = "write" /\ update.todo # <<>> /\ ~update.dry
  /\ LET f == Head(update.todo)
     IN \E n \in {n \in Cuts : n < Len(dockerfiles[f])} :
          /\ update' = [update EXCEPT !.step = "close", !.failed = TRUE,
                                      !.unsaved = Append(@, <<f, SubSeq(NewImages(f), 1, n)>>)]
          /\ dockerfiles' = [dockerfiles EXCEPT ![f] = <<>>]
  /\ UNCHANGED registry

\* report
Report ==
  /\ update.step = "write" /\ update.todo = <<>>
  /\ update' = [update EXCEPT !.step = "close"]
  /\ UNCHANGED <<dockerfiles, registry>>

\* get_dfps closes what it opened, and the buffers go to the disk; those that
\* it does not come to when one fails go there when Python ends.
Close ==
  /\ update.step = "close" /\ update.unsaved # <<>>
  /\ LET piece == Head(update.unsaved)
     IN \/ /\ dockerfiles' = [dockerfiles EXCEPT ![piece[1]] = piece[2]]
           /\ update' = [update EXCEPT !.unsaved = Tail(@)]
        \/ \E n \in {n \in Cuts : n < Len(piece[2])} :
             /\ dockerfiles' = [dockerfiles EXCEPT ![piece[1]] = SubSeq(piece[2], 1, n)]
             /\ update' = [update EXCEPT !.unsaved = Tail(@), !.failed = TRUE]
  /\ UNCHANGED registry

Closed ==
  /\ update.step = "close" /\ update.unsaved = <<>>
  /\ update' = [update EXCEPT !.step = IF update.failed THEN "failed" ELSE "done"]
  /\ UNCHANGED <<dockerfiles, registry>>

\* The script runs out of time, and what is in buffers is lost.
Killed ==
  /\ update.step \in {"inspect", "write", "close"}
  /\ update' = [update EXCEPT !.step = "failed", !.failed = TRUE]
  /\ UNCHANGED <<dockerfiles, registry>>

RegistryMoves ==
  /\ update.step \in {"inspect", "write"}
  /\ registry' \in Registries \ {registry}
  /\ update' = [update EXCEPT !.seen = @ \cup {registry'}]
  /\ UNCHANGED dockerfiles

UpdateNext ==
  Inspect \/ Inspected \/ WriteDockerfile \/ WriteFails \/ Report \/ Close \/ Closed
    \/ Killed \/ RegistryMoves

EndUpdate ==
  /\ update.step \in {"done", "failed"}
  /\ dockerfiles' = Unknown /\ registry' = Unknown /\ update' = NoUpdate
-----------------------------------------------------------------------------
RefsOf(plan) == UNION {UNION Range(plan[f]) : f \in DOMAIN plan}

\* A Dockerfile with the image each tag it follows had in the registry that
\* answers.
NewDockerfile(f, answers) ==
  [i \in DOMAIN update.given[f] |->
     IF i \in DOMAIN update.plan[f] /\ update.plan[f][i] # {}
     THEN LET ref == CHOOSE r \in update.plan[f][i] : TRUE
          IN [update.given[f][i] EXCEPT !.image = LatestImage(ref, answers[ref][ref], update.sha)]
     ELSE update.given[f][i]]

\* However the registry moves, one answer for each tag, which it gave while the
\* update ran, accounts for all Dockerfiles.  An update that ends well has
\* written all of them, as a whole, and reported what is new; in a dry run it
\* has written nothing and reported what it would write.  Wherever else an
\* update stops, a Dockerfile is as it was, new, or the beginning of what it
\* was to be, and as it was if not all images were known.
ParentImagesAgree ==
  update.step # "idle" =>
    LET given == update.given
        plan == update.plan
    IN /\ update.dry \/ update.refs # {} => dockerfiles = given
       /\ update.refs = {} => \E answers \in [RefsOf(plan) -> update.seen] :
            /\ \A ref \in RefsOf(plan) : CanTell(answers[ref][ref], update.sha)
            /\ \A f \in DOMAIN given :
                 \/ dockerfiles[f] = given[f]
                 \/ f \in DOMAIN plan /\ \E n \in 0..Len(given[f]) :
                                           dockerfiles[f] = SubSeq(NewDockerfile(f, answers), 1, n)
            /\ update.step = "done" =>
                 /\ \A f \in DOMAIN plan : update.dry \/ dockerfiles[f] = NewDockerfile(f, answers)
                 /\ update.report =
                      UNION {{<<f, i, NewDockerfile(f, answers)[i].image>> :
                                i \in {i \in DOMAIN given[f] : NewDockerfile(f, answers)[i] # given[f][i]}} :
                             f \in DOMAIN plan}
=============================================================================
