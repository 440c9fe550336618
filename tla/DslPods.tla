------------------------------ MODULE DslPods ------------------------------
(***************************************************************************)
(* The containers option (options/containers.py, with the schema functions  *)
(* of struct_normalizer.py it uses) and the pod it becomes                  *)
(* (options/podspecs.py).                                                   *)
(***************************************************************************)
EXTENDS DslOptions, Integers

CONSTANTS SecureImages,   \* what the patterns in CI_SECURE_IMAGES match
          CheckoutImage,  \* the image that decorates
          ArtifactsHost   \* is EXPORTED_ARTIFACTS_HOST set

Or(r, f, default) == IF f \in DOMAIN r THEN r[f] ELSE default

\* list_of: anything but a list is a list of one.
ListOf(v) == IF v.kind = "list" THEN v.value ELSE <<v.value>>

\* map_with and normalize_option: what is not a map stands for the image, the
\* args are the script unless they are given, an option that is not written
\* is left out.
NormalizedContainer(c, script) ==
  LET map == IF DOMAIN c \subseteq {"image", "args", "command", "workingDir", "securityContext"}
             THEN c ELSE [image |-> c.scalar]
  IN IF "image" \notin DOMAIN map THEN Error("DataNormalizationError")
     ELSE Found(map @@ [args |-> <<script>>])

\* A slip: the decorating container comes last.
MutDecorateLast(cs, decorate) ==
  IF decorate /\ cs # <<>> THEN Append(cs, [image |-> CheckoutImage, args |-> <<"decorate">>]) ELSE cs

WithDecorate(cs, decorate) ==
  IF decorate /\ cs # <<>> THEN <<[image |-> CheckoutImage, args |-> <<"decorate">>]>> \o cs ELSE cs

IsSecure(cs) ==
  \A k \in DOMAIN cs : Or(cs[k], "securityContext", "none") # "none" =>
    cs[k].image \in SecureImages /\ "command" \notin DOMAIN cs[k]

\* Containers.normalize
Containers(opts, script) ==
  IF "containers" \notin DOMAIN opts THEN Found(<<>>)
  ELSE LET list == ListOf(opts["containers"])
           each == [k \in DOMAIN list |-> NormalizedContainer(list[k], script)]
           cs == WithDecorate([k \in DOMAIN each |-> each[k].value], Or(opts, "decorate", FALSE))
       IN IF \E k \in DOMAIN each : each[k].status = "error" THEN Error("DataNormalizationError")
          ELSE IF IsSecure(cs) THEN Found(cs) ELSE SyntaxErr

\* _mk_container_spec: what the option says over what every container has.
ContainerSpec(c, name) ==
  c @@ [name |-> name, mounts |-> {"workspace"}, workingDir |-> "/workspace"]

\* _add_resouce_settings, _add_env_vars and _add_timeout_option: what depends
\* on the thread.
Settings(t, requirements) ==
  [memory |-> IF requirements.supportnestinglevel > 0 THEN 14 ELSE 2, env |-> t.cats]

Decorated(t) == Or(t.opts, "decorate", FALSE)

\* _add_artifacts_volume, for any container.
ArtifactsMount(t) == IF Decorated(t) /\ ArtifactsHost THEN {"exported-artifacts"} ELSE {}

\* _add_secrets_volume, for the k-th init container.
SecretsMount(t, k) == IF Decorated(t) /\ k = 1 THEN {"ci-secret-keys"} ELSE {}

\* PodSpecs.normalize: the last container is the main one, those before it
\* are init containers.
PodSpec(t, cs, requirements, timeout) ==
  LET of(c, name, mounts) ==
        [Settings(t, requirements) @@ ContainerSpec(c, name)
           EXCEPT !.mounts = @ \cup ArtifactsMount(t) \cup mounts]
  IN [main |-> of(cs[Len(cs)], "main", {}),
      init |-> [k \in 1..(Len(cs) - 1) |-> of(cs[k], "ic", SecretsMount(t, k))],
      node |-> IF requirements.supportnestinglevel > 0 THEN "r620" ELSE "vm",
      deadline |-> timeout]

PodSpecs(t, cs, requirements, timeout) ==
  IF cs = <<>> THEN <<>> ELSE <<PodSpec(t, cs, requirements, timeout)>>
=============================================================================
