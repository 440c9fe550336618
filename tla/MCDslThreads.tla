---------------------------- MODULE MCDslThreads ----------------------------
EXTENDS DslThreads

build == "build"  sub == "sub"  el7 == "el7"  fc30 == "fc30"  x86_64 == "x86_64"  ppc == "ppc"

Sec(opts, cats) == [opts |-> opts, cats |-> cats]
Plain(v) == [value |-> v, under |-> <<>>]
Deep(v, sec) == [value |-> v, under |-> <<sec>>]
Plains(vs) == [k \in DOMAIN vs |-> Plain(vs[k])]

Packages(v) == [packages |-> Inline(v)]
Branches(v) == [releasebranches |-> Inline(v)]
Upstream(v) == [upstreamsources |-> Inline(v)]
OnlyIf(c) == [runif |-> <<c>>]
Changed(f) == [op |-> "filechanged", args |-> <<{f}>>]
Not(c) == [op |-> "not", args |-> c]
All(cs) == [op |-> "all", args |-> cs]
AnyOf(cs) == [op |-> "any", args |-> cs]
Image(i) == [image |-> i]
Conts(cs) == [kind |-> "list", value |-> cs]
Secure == [image |-> "secure", securityContext |-> "root"]

MCSecureImages == {"secure"}

MCConfigs == {
  \* nothing at all, two distros, and options at two levels
  Sec(<<>>, <<>>),
  Sec(Packages("t"), Distro :> Plains(<<el7, fc30>>) @@ Arch :> Plains(<<x86_64, ppc>>)),
  Sec(Packages("t"), Distro :> <<Plain(el7), Deep(fc30, Sec(Packages("f"), <<>>))>>
                     @@ Arch :> <<Deep(x86_64, Sec([timeout |-> [n |-> 5, unit |-> "m"]], <<>>))>>),
  \* global options in several sections
  Sec(<<>>, Stage :> <<Deep(CurrentStage, Sec(Branches("s"), <<>>)), Plain(build)>>
            @@ Distro :> <<Deep(el7, Sec(Branches("d") @@ Upstream("u"), <<>>)), Plain(fc30)>>),
  Sec(Upstream("top"), Stage :> <<Deep(build, Sec(Upstream("b"), Arch :> Plains(<<x86_64, ppc>>)))>>
            @@ Substage :> <<Plain(sub), Plain("default")>>),
  \* three categories whose sections all have options
  Sec(<<>>, Stage :> <<Deep(CurrentStage, Sec(Packages("s"), <<>>))>>
            @@ Distro :> <<Deep(el7, Sec(Packages("d"), <<>>))>>
            @@ Arch :> <<Deep(x86_64, Sec([timeout |-> Unlimited], <<>>))>>),
  Sec(<<>>, Distro :> <<Plain(el7), Deep(fc30, NotMapping)>>),
  Sec(<<>>, Stage :> <<Deep(CurrentStage, Sec(<<>>, Distro :> <<Plain(el7), Deep(el7, Sec(Packages("d"), Arch :> Plains(<<x86_64>>)))>>
                                                   @@ Stage :> Plains(<<build>>)))>>
            @@ Arch :> Plains(<<ppc>>)),
  \* conditions
  Sec(OnlyIf(AnyOf(<< <<Changed("f")>>, <<Not(<<Changed("g")>>)>> >>)), Distro :> Plains(<<el7>>)),
  Sec(<<>>, Distro :> <<Deep(el7, Sec(OnlyIf(All(<< <<Changed("f")>>, <<Changed("g")>> >>)), <<>>)),
                        Deep(fc30, Sec(OnlyIf([op |-> "unless", args |-> <<>>]), <<>>))>>),
  \* scripts, and options that fail
  Sec([script |-> Files(<<[name |-> "own", uses |-> {Distro}]>>, FALSE)], Distro :> Plains(<<el7, fc30>>)),
  Sec([script |-> Inline("i"), yumrepos |-> Files(<<[name |-> "own", uses |-> {}]>>, FALSE)], Distro :> Plains(<<el7>>)),
  Sec(<<>>, Substage :> <<Plain(sub), Deep("default", Sec([scriptsdirectory |-> "dir"], <<>>))>>),
  Sec([script |-> Inline("i"), environment |-> Malformed], <<>>),
  Sec([script |-> Inline("i"), runtimerequirements |-> [hostdistro |-> "better", isolationlevel |-> "odd"]], <<>>),
  \* containers
  Sec([script |-> Inline("i"), decorate |-> TRUE], Distro :> <<
       Deep(el7, Sec([containers |-> Conts(<<Image("any"), Secure>>)], <<>>)),
       Deep(fc30, Sec([containers |-> [kind |-> "one", value |-> [scalar |-> "any"]],
                       runtimerequirements |-> [supportnestinglevel |-> "vmonvm"]], <<>>))>>),
  Sec([script |-> Inline("i")], Distro :> <<
       Deep(el7, Sec([containers |-> Conts(<<Secure, Image("any")>>)], <<>>)),
       Deep(fc30, Sec([containers |-> Conts(<<Secure @@ [command |-> <<"c">>]>>)], <<>>))>>),
  Sec([script |-> Inline("i"), containers |-> Conts(<<[image |-> "any", securityContext |-> "root"]>>)], <<>>),
  Sec([script |-> Inline("i"), containers |-> Conts(<<[args |-> <<"a">>]>>)], <<>>) }

At(name, cats) == [dir |-> "automation", name |-> name, key |-> cats]
MCProjects == {
  {At("script", Stage :> CurrentStage)},
  {At("script", Stage :> CurrentStage @@ Distro :> "el7"), At("packages", Stage :> CurrentStage @@ Substage :> "default"),
   [dir |-> "", name |-> "own", key |-> Distro :> "el7"]} }
MCChanges == {{}, {"f"}, {"f", "g"}}

\* Rankings of the categories: by some category first, None least or greatest.
Names == <<CurrentStage, build, "default", sub, "el7", "fc30", "x86_64", "ppc">>
Code(v, none) == IF v = None THEN none ELSE CHOOSE i \in DOMAIN Names : Names[i] = v
LexHash(p, none) ==
  [c \in [Positions -> ToSet(Names) \cup {None}] |->
     1000 * Code(c[p[1]], none) + 100 * Code(c[p[2]], none) + 10 * Code(c[p[3]], none) + Code(c[p[4]], none)]
MCHashes == {LexHash(p, none) : p \in {<<1, 2, 3, 4>>, <<4, 3, 2, 1>>, <<3, 1, 4, 2>>}, none \in {0, 9}}
=============================================================================
