----------------------------- MODULE DslThreads -----------------------------
(***************************************************************************)
(* get_threads_with_globals of stdci_dsl/api: the vectors of a parsed       *)
(* configuration become the jobs of one stage.  The chain of generators     *)
(* pulls one thread after the other through all the steps; an error ends    *)
(* it, and no formatter gives out the jobs made before.                     *)
(***************************************************************************)
EXTENDS NestedConfig, DslPods

CONSTANTS CurrentStage,  \* the stage jobs are asked for
          Projects,      \* sets of paths: the files a project may have
          Changes        \* sets of files: what get_modified_files may find

VARIABLES ignoreConditions, project, modified,
          threads, globals, jobs, outcome

dslVars == <<ignoreConditions, project, modified, threads, globals, jobs, outcome>>
vars == <<nestedVars, dslVars>>

GlobalOptions == {"releasebranches", "upstreamsources"}

DefaultCats == <<CurrentStage, "default", "el7", "x86_64">>

Init ==
  /\ InitNested
  /\ ignoreConditions \in BOOLEAN /\ project \in Projects /\ modified \in Changes
  /\ threads = <<>> /\ globals = <<>> /\ jobs = <<>> /\ outcome = "running"

\* disable_runif
WithoutRunIf(opts) ==
  IF "runif" \notin DOMAIN opts THEN opts
  ELSE [o \in DOMAIN opts \ {"runif"} |-> opts[o]] @@ [ignore_runif |-> opts["runif"]]

\* A slip: the iterator is already used up when the options are looked for.
MutNoGlobals(ts) == <<>>

\* _get_global_options: of the threads that set a global option the last has
\* its way.
GlobalsOf(ts) ==
  FoldLeft(LAMBDA g, t : Updated(g, [o \in DOMAIN t.opts \cap GlobalOptions |-> t.opts[o]]), <<>>, ts)

\* Up to the sample get_threads_with_globals takes: all threads carry the
\* global options, and the sample with the defaults gives those returned.
ApplyGlobals ==
  /\ parse = "parsed" /\ globals = <<>>
  /\ LET ts == [k \in DOMAIN vectors |->
                  IF ignoreConditions THEN [vectors[k] EXCEPT !.opts = WithoutRunIf(@)] ELSE vectors[k]]
         shared == GlobalsOf(ts)
     IN /\ threads' = [k \in DOMAIN ts |-> [ts[k] EXCEPT !.opts = Updated(@, shared)]]
        /\ globals' = [o \in GlobalOptions |-> WithDefaults(threads'[1]).opts[o]]
  /\ UNCHANGED <<nestedVars, ignoreConditions, project, modified, jobs, outcome>>

ForStage(t) == t.cats[Stage] \in {None, CurrentStage}

\* A slip: the default replaces what is set.
MutWithCategories(t) ==
  [t EXCEPT !.cats = [i \in Positions |-> IF @[i] = None THEN @[i] ELSE DefaultCats[i]]]

\* apply_default_categories
WithCategories(t) ==
  [t EXCEPT !.cats = [i \in Positions |-> IF @[i] = None THEN DefaultCats[i] ELSE @[i]]]

RunIf(t) ==
  IF Or(t.opts, "runif", <<>>) = <<>> THEN "yes" ELSE Conditions(t.opts["runif"], modified)

\* The steps of normalize that may fail, in their order.
Resolved(t) ==
  LET list(o) == ResolveList(t, o, project)
      script == ResolveScript(t, project)
  IN <<script, ResolveYum(t, project), ResolveYaml(t, project), list("mounts"), list("repos"),
       list("packages"), TimeoutSeconds(t.opts["timeout"]),
       Requirements(t.opts["runtimerequirements"]),
       Containers(t.opts, Or(script, "value", None))>>

\* The job of a thread whose steps all succeeded.
Job(t, r) ==
  LET cs == r[9].value
  IN [cats |-> t.cats,
      opts |-> Updated(t.opts, [script |-> r[1].value, packages |-> r[6].value,
                 timeout |-> r[7].value, reporting |-> Reporting(t.opts["reporting"].value),
                 runtimerequirements |-> r[8].value, containers |-> cs,
                 podspecs |-> PodSpecs(t, cs, r[8].value, r[7].value)])]

Failed(error) == outcome' = error /\ UNCHANGED jobs

\* normalize, for one thread.  A set scriptsdirectory is a string that
\* dict.update does not take.  A thread with no script is passed over.
Normalize(t) ==
  LET r == Resolved(t)
      errors == SelectSeq(r, LAMBDA x : x.status = "error")
  IN CASE RunIf(t) = "error" -> Failed("ConfigurationSyntaxError")
       [] RunIf(t) = "no" -> UNCHANGED <<jobs, outcome>>
       [] "scriptsdirectory" \in DOMAIN t.opts -> Failed("ValueError")
       [] r[1].status = "missing" -> UNCHANGED <<jobs, outcome>>
       [] errors # <<>> -> Failed(errors[1].value)
       [] OTHER -> jobs' = Append(jobs, Job(t, r)) /\ UNCHANGED outcome

NextThread ==
  /\ outcome = "running" /\ threads # <<>>
  /\ threads' = Tail(threads)
  /\ IF ForStage(Head(threads)) THEN Normalize(WithDefaults(WithCategories(Head(threads))))
     ELSE UNCHANGED <<jobs, outcome>>
  /\ UNCHANGED <<nestedVars, ignoreConditions, project, modified, globals>>

\* The formatter has all threads.
Format ==
  /\ outcome = "running" /\ globals # <<>> /\ threads = <<>>
  /\ outcome' = "formatted"
  /\ UNCHANGED <<nestedVars, ignoreConditions, project, modified, threads, globals, jobs>>

Parse == (Walk \/ Aggregate) /\ UNCHANGED dslVars

Next == Parse \/ ApplyGlobals \/ NextThread \/ Format

Spec == Init /\ [][Next]_vars /\ WF_vars(Next)
-----------------------------------------------------------------------------
\* No two jobs share an environment, which names their artifacts and their
\* pods: filling in the default categories never makes two threads meet.
OneJobPerEnvironment ==
  \A j, k \in DOMAIN jobs : j # k => jobs[j].cats # jobs[k].cats

\* All jobs carry the global options that are given out beside them, whatever
\* section they were written in and whichever thread was taken as a sample.
JobsAgreeOnGlobals ==
  \A k \in DOMAIN jobs : \A o \in GlobalOptions : jobs[k].opts[o] = globals[o]

\* The secrets are mounted into the checkout container alone, and whoever
\* asks for a security context runs an image of the list, as it is.
SecretsStayWithCheckout ==
  \A k \in DOMAIN jobs : \A p \in ToSet(jobs[k].opts["podspecs"]) :
    LET containers == Append(p.init, p.main)
    IN \A c \in DOMAIN containers :
         /\ "ci-secret-keys" \in containers[c].mounts =>
              containers[c].image = CheckoutImage /\ containers[c].args = <<"decorate">>
         /\ "securityContext" \in DOMAIN containers[c] =>
              containers[c].image \in SecureImages /\ "command" \notin DOMAIN containers[c]
=============================================================================
