----------------------------- MODULE DslOptions -----------------------------
(***************************************************************************)
(* The options of the STDCI DSL (stdci_dsl/options): their defaults, and    *)
(* how normalize.py turns each into what a job uses.  A value is given      *)
(* inline, or as templates of the paths to look for, or is Malformed.  A    *)
(* template is the name of a file and the categories its path contains: a   *)
(* project is the set of the paths it has.                                  *)
(***************************************************************************)
EXTENDS Vectors

CONSTANT Malformed   \* a value of a type its option cannot have

Stage == 1  Substage == 2  Distro == 3  Arch == 4

Inline(v) == [kind |-> "inline", value |-> v]
Files(templates, default) == [kind |-> "files", templates |-> templates, default |-> default]

Found(v) == [status |-> "found", value |-> v]
Missing == [status |-> "missing"]
Error(e) == [status |-> "error", value |-> e]
SyntaxErr == Error("ConfigurationSyntaxError")
NotFoundErr == Error("ConfigurationNotFound")

\* The eight names of a default file, or the four that name the substage.
DefaultTemplates(name, substage) ==
  LET of(s) == [k \in DOMAIN s |-> [name |-> name, uses |-> s[k]]]
      specific == of(<<{Stage, Substage, Distro, Arch}, {Stage, Substage, Distro},
                       {Stage, Substage, Arch}, {Stage, Substage}>>)
      general == of(<<{Stage, Distro, Arch}, {Stage, Distro}, {Stage, Arch}, {Stage}>>)
  IN Files(IF substage = "default" THEN specific \o general ELSE specific, TRUE)

DefaultValues(substage) ==
  [o \in {"environment", "packages", "yumrepos", "repos", "mounts", "script"} |->
     DefaultTemplates(o, substage)]
  @@ [o \in {"releasebranches", "upstreamsources"} |-> Inline("none")]
  @@ [timeout |-> [n |-> 3, unit |-> "h"], runtimerequirements |-> <<>>,
      reporting |-> Inline("default")]

\* apply_default_options: what was written stays.  A script looked for by its
\* default names may be missing.
WithDefaults(t) ==
  LET opts == Updated(DefaultValues(t.cats[Substage]), t.opts)
      script == opts["script"]
  IN [t EXCEPT !.opts = opts @@ [ignore_if_missing_script |->
                                   script # Malformed /\ script.kind = "files" /\ script.default]]

\* render_template, and _get_path_prefix.
Path(t, option, template) ==
  [dir |-> IF t.opts[option].default THEN "automation" ELSE "",
   name |-> template.name,
   key |-> [i \in template.uses |-> t.cats[i]]]

\* _get_first_file and stdci_load: the first of the paths that is there.
FirstFile(t, option, project) ==
  LET paths == [k \in DOMAIN t.opts[option].templates |-> Path(t, option, t.opts[option].templates[k])]
      there == SelectSeq(paths, LAMBDA p : p \in project)
  IN IF there = <<>> THEN Missing ELSE Found(there[1])

ResolveScript(t, project) ==
  LET script == t.opts["script"]
      file == FirstFile(t, "script", project)
  IN CASE script = Malformed -> SyntaxErr
       [] script.kind = "inline" -> Found(script.value)
       [] OTHER -> IF file = Missing /\ ~t.opts["ignore_if_missing_script"]
                   THEN NotFoundErr ELSE file

\* The other files a thread uses may be missing under their default names.
ResolveYum(t, project) ==
  LET yum == t.opts["yumrepos"]
      file == FirstFile(t, "yumrepos", project)
  IN CASE yum = Malformed -> SyntaxErr
       [] yum.kind = "inline" -> Found(yum.value)
       [] OTHER -> IF file = Missing /\ ~yum.default THEN NotFoundErr ELSE file

\* packages, repos and mounts.
ResolveList(t, option, project) ==
  LET list == t.opts[option]
      file == FirstFile(t, option, project)
  IN CASE list = Malformed -> SyntaxErr
       [] list.kind = "inline" -> Found(list.value)
       [] file # Missing -> file
       [] OTHER -> IF list.default THEN Found("empty") ELSE NotFoundErr

\* A mapping with no fromfile is itself the environment.
ResolveYaml(t, project) ==
  LET yaml == t.opts["environment"]
      file == FirstFile(t, "environment", project)
  IN CASE yaml = Malformed -> SyntaxErr
       [] yaml.kind = "inline" -> Found(yaml.value)
       [] file # Missing -> file
       [] OTHER -> IF yaml.default THEN Found("empty") ELSE NotFoundErr

Unlimited == [n |-> 0, unit |-> "never"]

\* _normalize_timeout: seconds, from one number and one unit.
TimeoutSeconds(timeout) ==
  CASE timeout = Unlimited -> Found(None)
    [] timeout = Malformed -> SyntaxErr
    [] OTHER -> Found(timeout.n * (CASE timeout.unit = "s" -> 1
                                     [] timeout.unit = "m" -> 60
                                     [] timeout.unit = "h" -> 3600))

\* What each requirement may be called, and the value it stands for.
Translations == [
  isolationlevel |-> [container |-> "container", containarized |-> "container",
    virtual |-> "virtual", vm |-> "virtual", virtualmachine |-> "virtual",
    physical |-> "physical", bm |-> "physical", baremetal |-> "physical"],
  hostdistro |-> [same |-> "same", newer |-> "newer", better |-> "newer",
    el8 |-> "el8", centos8 |-> "el8", el8stream |-> "el8stream",
    centos8stream |-> "el8stream", el9stream |-> "el9stream", centos9stream |-> "el9stream"],
  supportnestinglevel |-> ("0" :> 0) @@ ("1" :> 1) @@ ("2" :> 2)
    @@ [w \in {"vm", "vms", "virtualmachine", "virtualmachines"} |-> 1]
    @@ [w \in {"nestedvm", "nestedvms", "nestedvirtualmachine", "nestedvirtualmachines", "vmonvm",
               "vmsonvms", "virtualmachineonvirtualmachine", "virtualmachinesonvirtualmachines"} |-> 2],
  sriovnic |-> ("1" :> TRUE) @@ ("true" :> TRUE) @@ ("0" :> FALSE) @@ ("false" :> FALSE),
  jenkinsmaster |-> ("psi.redhat.com" :> "psi") @@ ("psi" :> "psi") @@ ("ovirt.org" :> "upstream")
    @@ ("us" :> "upstream") @@ ("upstream" :> "upstream") @@ ("all" :> "all") @@ ("both" :> "all")]

DefaultRequirements == [supportnestinglevel |-> 0, hostdistro |-> "any",
  isolationlevel |-> "virtual", sriovnic |-> FALSE, jenkinsmaster |-> "all"]

\* _normalize_runtime_requirements: an unknown word is the default, silently.
Requirements(written) ==
  IF written = Malformed THEN SyntaxErr
  ELSE Found([r \in DOMAIN Translations |->
                IF r \in DOMAIN written /\ written[r] \in DOMAIN Translations[r]
                THEN Translations[r][written[r]] ELSE DefaultRequirements[r]])

Styles == [default |-> "default", classic |-> "classic", stdci |-> "stdci", standardci |-> "stdci",
           plain |-> "plain", plaintext |-> "plain", blueocean |-> "blueocean"]

Reporting(style) == IF style \in DOMAIN Styles THEN Styles[style] ELSE "default"

\* any() and all() over answers "yes", "no" and "error" stop at the first one
\* that is not the neutral answer.
FirstOther(neutral, answers) ==
  LET others == SelectSeq(answers, LAMBDA r : r # neutral)
  IN IF others = <<>> THEN neutral ELSE Head(others)

\* _resolve_changed_files: a pattern is the set of the files it matches.
FileChanged(patterns, modified) ==
  CASE patterns = Malformed -> "error"
    [] \E k \in DOMAIN patterns : patterns[k] = Malformed -> "error"
    [] \E k \in DOMAIN patterns : patterns[k] \cap modified # {} -> "yes"
    [] OTHER -> "no"

\* The conditions of runif: a sequence of operators with their arguments, of
\* which one has to hold.  A key that is no operator is an error.
RECURSIVE Conditions(_, _)
Conditions(conditions, modified) ==
  LET each(args) == [k \in DOMAIN args |-> Conditions(args[k], modified)]
      negated(r) == CASE r = "yes" -> "no" [] r = "no" -> "yes" [] OTHER -> r
      answer(c) == CASE c.op = "any" -> FirstOther("no", each(c.args))
                     [] c.op = "all" -> FirstOther("yes", each(c.args))
                     [] c.op = "not" -> negated(Conditions(c.args, modified))
                     [] c.op = "filechanged" -> FileChanged(c.args, modified)
                     [] OTHER -> "error"
  IN FirstOther("no", [k \in DOMAIN conditions |-> answer(conditions[k])])
=============================================================================
