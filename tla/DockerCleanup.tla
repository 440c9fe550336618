--------------------------- MODULE DockerCleanup ---------------------------
(***************************************************************************)
(* stdci_tools/docker_cleanup.py, which removes from a node what the jobs   *)
(* before left there: containers, then images but those of whitelisted      *)
(* repositories and their ancestors, then volumes.  Docker refuses to       *)
(* remove what is still used, and removes untagged ancestors of an image    *)
(* with it.                                                                 *)
(***************************************************************************)
EXTENDS Integers, FiniteSets, Sequences, Maps

CONSTANTS Images, NoImage,
          Parent,        \* of each image, or NoImage
          Containers, Volumes,
          WhitelistedRepos

ASSUME DockerAssumption ==
  /\ IsFiniteSet(Images) /\ NoImage \notin Images
  /\ Parent \in [Images -> Images \cup {NoImage}]

VARIABLES images,      \* from the images that are there to their tags
          containers,  \* from those that are there to [image, volume]
          volumes,
          cleanup      \* [step, todo, children, listed]
dockerVars == <<images, containers, volumes, cleanup>>

Nothing == [x \in {} |-> x]
NoCleanup == [step |-> "idle", todo |-> {}, children |-> Nothing, listed |-> Nothing]

DockerInit ==
  images = Nothing /\ containers = Nothing /\ volumes = {} /\ cleanup = NoCleanup

WithAncestors(S) == \A i \in S : Parent[i] # NoImage => Parent[i] \in S
Children(i) == {c \in DOMAIN images : Parent[c] = i}

\* _is_repo_whitelisted: by the first tag alone, and only of Docker's registry.
IsRepoWhitelisted(tags) ==
  tags # <<>> /\ tags[1].registry = "docker.io" /\ tags[1].repo \in WhitelistedRepos

WhitelistedParents(whitelist, children) ==
  {p \in DOMAIN children : children[p] \cap whitelist # {} \/ p \in whitelist}

\* A slip: once around the loop.
MutExclude(whitelist, children) == Without(children, WhitelistedParents(whitelist, children))

\* One turn of the loop of _exclude_whitelisted_parents.
Excluding(r) ==
  LET parents == WhitelistedParents(r.whitelist, r.children)
  IN [whitelist |-> r.whitelist \cup parents, children |-> Without(r.children, parents)]

\* The loop: each turn takes a parent out of the map, or is the last and
\* changes nothing.
Excluded(whitelist, children) ==
  LET turns == Cardinality(DOMAIN children)
      after[n \in 0..turns] == IF n = 0 THEN [whitelist |-> whitelist, children |-> children]
                               ELSE Excluding(after[n - 1])
  IN after[turns].children

Whitelisted(there) == {i \in DOMAIN there : IsRepoWhitelisted(there[i])}

\* _get_parent_to_child_map
ParentToChild ==
  LET known == DOMAIN images \cup ({Parent[i] : i \in DOMAIN images} \ {NoImage})
  IN Excluded(Whitelisted(images), [i \in known |-> Children(i)])

StartCleanup ==
  /\ cleanup.step = "idle"
  /\ cleanup' = [NoCleanup EXCEPT !.step = "containers", !.todo = DOMAIN containers]
  /\ UNCHANGED <<images, containers, volumes>>

\* Docker refuses to remove a container it is already removing, or cannot
\* stop; _remove_container takes that for done.
RemoveContainer ==
  /\ cleanup.step = "containers"
  /\ \E c \in cleanup.todo :
       /\ cleanup' = [cleanup EXCEPT !.todo = @ \ {c}]
       /\ containers' = Without(containers, {c}) \/ UNCHANGED containers
  /\ UNCHANGED <<images, volumes>>

ListImages ==
  /\ cleanup.step = "containers" /\ cleanup.todo = {}
  /\ cleanup' = [cleanup EXCEPT !.step = "images", !.children = ParentToChild, !.listed = images]
  /\ UNCHANGED <<images, containers, volumes>>

Used(i) == \E c \in DOMAIN containers : containers[c].image = i

\* The images Docker removes with one: its untagged ancestors nothing else
\* needs.
GoesAlong(p, i) ==
  p = Parent[i] /\ Children(p) = {i} /\ images[p] = <<>> /\ ~Used(p)
Pruned(i) ==
  {a \in DOMAIN images : \A S \in SUBSET DOMAIN images :
     i \in S /\ (\A x \in S, p \in DOMAIN images : GoesAlong(p, x) => p \in S) => a \in S}

\* A round of safe_image_cleanup begins: its images are those without a child
\* among what was left when it began.
Round ==
  /\ cleanup.step = "images" /\ cleanup.todo = {} /\ DOMAIN cleanup.children # {}
  /\ LET parents == DOMAIN cleanup.children
     IN cleanup' = [cleanup EXCEPT !.todo = {i \in parents : cleanup.children[i] \cap parents = {}}]
  /\ UNCHANGED <<images, containers, volumes>>

\* The script fails; nothing of it is undone.
Refused ==
  /\ cleanup' = [NoCleanup EXCEPT !.step = "failed"]
  /\ UNCHANGED <<images, containers, volumes>>

\* _safe_rm: an image that is not there is fine.  Docker refuses an image with
\* children, and may refuse one that a container uses.
RemoveImage(i) ==
  /\ cleanup.step = "images" /\ i \in cleanup.todo
  /\ \/ /\ Children(i) = {}
        /\ images' = IF i \in DOMAIN images THEN Without(images, Pruned(i)) ELSE images
        /\ cleanup' = [cleanup EXCEPT !.todo = @ \ {i}, !.children = Without(@, {i})]
        /\ UNCHANGED <<containers, volumes>>
     \/ Children(i) # {} /\ Refused
     \/ i \in DOMAIN images /\ Used(i) /\ Refused

\* Docker does not find a part of an image.  _remove_docker_store restarts
\* Docker; the map over shutil.rmtree is never evaluated.
CorruptedStore ==
  /\ cleanup.step = "images" /\ cleanup.todo # {}
  /\ cleanup' = [NoCleanup EXCEPT !.step = "corrupted"]
  /\ UNCHANGED <<images, containers, volumes>>

ListVolumes ==
  /\ cleanup.step = "images" /\ cleanup.children = Nothing
  /\ cleanup' = [cleanup EXCEPT !.step = "volumes", !.todo = volumes]
  /\ UNCHANGED <<images, containers, volumes>>

RemoveVolume(v) ==
  /\ cleanup.step = "volumes" /\ v \in cleanup.todo
  /\ IF \E c \in DOMAIN containers : containers[c].volume = v THEN Refused
     ELSE /\ volumes' = volumes \ {v}
          /\ cleanup' = [cleanup EXCEPT !.todo = @ \ {v}]
          /\ UNCHANGED <<images, containers>>

EndCleanup ==
  /\ cleanup.step = "volumes" /\ cleanup.todo = {}
  /\ cleanup' = [cleanup EXCEPT !.step = "done"]
  /\ UNCHANGED <<images, containers, volumes>>

CleanupNext ==
  \/ RemoveContainer \/ ListImages \/ Round \/ CorruptedStore \/ ListVolumes \/ EndCleanup
  \/ \E i \in cleanup.todo : RemoveImage(i)
  \/ \E v \in cleanup.todo : RemoveVolume(v)

\* What a job leaves: images with those they rest on, containers and volumes.
Leftovers(newImages, tags, newContainers) ==
  /\ images' = [i \in DOMAIN images \cup newImages |-> IF i \in DOMAIN images THEN images[i] ELSE tags[i]]
  /\ containers' = Over(newContainers, containers)
  /\ volumes' = volumes \cup {newContainers[c].volume : c \in DOMAIN newContainers}
  /\ UNCHANGED cleanup
-----------------------------------------------------------------------------
\* The images the whitelisted ones need, themselves among them.
Kept(there) ==
  {k \in Images : \A S \in SUBSET Images :
     Whitelisted(there) \subseteq S /\ WithAncestors(S) => k \in S}

\* However images depend on each other and whatever order Docker lists them
\* in, once the images are done exactly the whitelisted ones and their
\* ancestors are left; no step takes one of these, and nothing but a container
\* that could not be removed makes the clean-up fail.
CleanupIsExact ==
  /\ cleanup.step = "volumes" => DOMAIN images = Kept(cleanup.listed)
  /\ cleanup.step = "images" => Kept(cleanup.listed) \subseteq DOMAIN images
  /\ cleanup.step = "failed" => containers # Nothing
=============================================================================
