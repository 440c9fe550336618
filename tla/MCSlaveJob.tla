----------------------------- MODULE MCSlaveJob -----------------------------
EXTENDS SlaveJob

\* Images: one kept, on an untagged one that others use, on a base.
MCParent == [base |-> "none", mid |-> "base", kept |-> "mid", app |-> "mid",
             step |-> "kept", top |-> "step"]
Tag(reg, repo) == [registry |-> reg, repo |-> repo]
MCTags == [base |-> <<>>, mid |-> <<>>, kept |-> <<Tag("docker.io", "centos")>>,
           app |-> <<Tag("docker.io", "app"), Tag("docker.io", "centos")>>,
           step |-> <<>>, top |-> <<Tag("quay.io", "centos")>>]
Box(i, v) == [image |-> i, volume |-> v]
MCLeavings == {
  [images |-> {}, tags |-> MCTags, containers |-> Empty],
  [images |-> {"base", "mid", "app"}, tags |-> MCTags,
   containers |-> "c" :> Box("mid", "v") @@ "d" :> Box("app", "v")],
  [images |-> {"base", "mid", "kept", "step", "top"}, tags |-> MCTags, containers |-> "c" :> Box("top", "w")]}

File(x) == [kind |-> "file", data |-> x]
Link(p) == [kind |-> "link", data |-> p]
P(name) == <<"", name>>
MCUpstreamFiles == [
  l1 |-> P("a") :> File("1") @@ P("b") :> File("2"),
  l2 |-> P("a") :> File("3") @@ P("m") :> Link(P("a")),
  k1 |-> P("c") :> File("4") @@ P("a") :> File("5")]
Files(filter) == [name |-> "files", dir |-> "", filter |-> filter]
Source(url, commit, dir, formats) == [url |-> url, commit |-> commit, dir |-> dir, formats |-> formats]

\* Requests and secrets: one for all projects stands behind those of ours.
MCSecretsFile == <<
  [projects |-> {"other"}, branches |-> {"master", "4.3"}, names |-> {"token"}, data |-> [key |-> "other's"]],
  [projects |-> {"ours"}, branches |-> {"4.3"}, names |-> {"token", "login"}, data |-> [key |-> "4.3's"]],
  [projects |-> {"ours", "other"}, branches |-> {"master"}, names |-> {"token"}, data |-> [key |-> "master's"]],
  [projects |-> {"ours", "other"}, branches |-> {"master", "4.3"}, names |-> {"token", "pass"},
   data |-> [key |-> "all's", user |-> "u"]]>>
Secret(name, secret, key) == [name |-> name, provider |-> "secretKeyRef", secret |-> secret, key |-> key]
Variable(name, variable) == [name |-> name, provider |-> "runtimeEnv", variable |-> variable]
Optional == [optional |-> TRUE]
Default(v) == [default |-> v]
Requests1 == <<Secret("t", "token", "key"), [name |-> "u", value |-> "own"],
               Secret("u", "login", "key") @@ Default("d") @@ Optional, Variable("t", "_x") @@ Optional,
               [name |-> "bw", value |-> "mine"]>>
Requests2 == <<Secret("t", "login", "key") @@ Optional, Variable("w", "bw") @@ Default("d")>>
Bad1 == <<Secret("t", "token", "user") @@ Default("d")>>
Bad2 == <<Variable("w", "bw")>>
Bad3 == <<Secret("t", "login", "key") @@ Default("d") @@ [optional |-> FALSE]>>
Bad4 == <<[value |-> "v"], [name |-> "t"], [name |-> "u", provider |-> "vault"]>>
MCHwVars == <<"bw", "nested">>
Known(v) == [value |-> v, safe |-> TRUE]
MCRuntimes == {"_x" :> [value |-> "x", safe |-> FALSE],
               "_x" :> [value |-> "x", safe |-> FALSE] @@ "bw" :> Known("1")}

\* Dockerfiles: the first follows two tags, the second one of them and none
\* where a comment comes between.
Ref(repo, tag) == [registry |-> "reg", repo |-> repo, tag |-> tag]
Ubi == Ref("ubi", "8")
Go == [registry |-> "reg:5000", repo |-> "go", tag |-> "1"]
From(i) == [kind |-> "FROM", image |-> i]
Old(repo) == [registry |-> "reg", repo |-> repo, tag |-> <<"0", "1">>]
Follow(ref) == [kind |-> "decorator", name |-> "follow_tag", args |-> ref]
Other == [kind |-> "decorator", name |-> "keep", args |-> Go]
Comment == [kind |-> "comment"]
MCDockerfiles ==
  "one" :> <<Follow(Go), Follow(Ubi), Other, From(Old("ubi")), [kind |-> "RUN"], Follow(Go), From(Old("go"))>> @@
  "two" :> <<Follow(Ubi), From(Old("ubi")), Follow(Go), Comment, From(Old("go")), From(Old("ubi"))>> @@
  "bad" :> <<[kind |-> "garbled"], From(Old("ubi"))>>
Says(version, release, digest) == [ok |-> TRUE, digest |-> digest,
                                   labels |-> [version |-> version, release |-> release]]
NoRelease == [ok |-> TRUE, digest |-> "b", labels |-> [version |-> "1"]]
MCRegistries == {Ubi :> Says("0", "1", "a") @@ Go :> Says("0", "2", "c"),
                 Ubi :> Says("0", "2", "b") @@ Go :> NoRelease}

MCUris == {<<"http", "all">>, <<"file", "all">>, <<"file", "none">>, <<"ftp", "all">>}

Project(sources) ==
  [sources |-> sources, project |-> "ours", branch |-> "master", requests |-> Requests1,
   dockerfiles |-> Unknown, order |-> <<>>, uris |-> {},
   files |-> P("x") :> Link(P("a")) @@ P("y") :> Link(P("x")) @@ P("c") :> File("own") @@ P("z") :> Link(P("m"))]
Lib(commit) == Source("lib", commit, "", <<Files({})>>)
App == Source("app", "k1", "d", <<Files({}), [name |-> "source_repos", dir |-> "", filter |-> {}],
                                  [name |-> "branch", dir |-> "", filter |-> {}]>>)
\* One whose jobs may be told of mirrors.
MC1 == [Project(<<Lib("l1")>>) EXCEPT !.uris = MCUris]
MC2 == Project(<<Lib("l2")>>)
MC3 == Project(<<Lib("l1"), App>>)
MC4 == Project(<<Source("lib", "l2", "", <<Files({P("a")})>>), Source("lib", "l1", "d", <<Files({P("q")})>>)>>)
Small(branch, requests, order) ==
  [sources |-> <<>>, files |-> Empty, project |-> "ours", branch |-> branch, requests |-> requests,
   dockerfiles |-> MCDockerfiles, order |-> order, uris |-> {}]
MCSmall == {Small("4.3", Requests1, <<>>), Small("master", Requests2, <<>>)}
           \cup {Small("master", r, <<>>) : r \in {Bad1, Bad2, Bad3} \cup {<<b>> : b \in ToSet(Bad4)}}
           \cup {Small("master", <<>>, order) :
                   order \in {<<"two", "one">>, <<"one", "bad">>, <<"one", "gone">>}}
MC5 == [MC2 EXCEPT !.files = P("a") :> File("mine") @@ @]
\* Two links that lead to each other, and a patch that leaves them alone.
MC6 == [MC2 EXCEPT !.files = P("x") :> Link(P("y")) @@ P("y") :> Link(P("x")) @@ @]
MC7 == [MC6 EXCEPT !.files = P("c") :> File("new") @@ @]
MCPatches == {<<MC1, MC2>>, <<MC2, MC1>>, <<MC1, MC3>>, <<MC3, MC4>>, <<MC2, MC5>>, <<MC5, MC2>>,
              <<MC2, MC6>>, <<MC6, MC7>>}
             \cup {<<c, c>> : c \in MCSmall}
MCUpdated == MC1 :> [MC2 EXCEPT !.uris = MCUris] @@ MC3 :> Project(<<Lib("l2"), App>>)

El(stem) == <<stem, "el7">>
Fc(stem) == <<stem, "fc29">>
MCNames == <<El("base"), El("extra"), Fc("base"), El("updates"), El("virt")>>
Main == [NoMirrors EXCEPT
  !.repos = El("updates") :> <<"", "updates/1">> @@ Fc("base") :> <<"", "fc/1">>,
  !.before = El("base") :> <<[name |-> El("virt"), url |-> <<"", "virt/1">>]>>,
  !.include = <<<<"", "more">>>>,
  !.includeBefore = <<[stem |-> "base", uri |-> <<"data", "new">>]>>]
More == [NoMirrors EXCEPT
  !.repos = El("updates") :> <<"", "updates/2">> @@ El("base") :> <<"", "base/2">>,
  !.before = El("base") :> <<[name |-> El("extra"), url |-> <<"", "extra/2">>]>>]
New == [NoMirrors EXCEPT !.repos = El("extra") :> <<"", "extra/3">> @@ Fc("extra") :> <<"", "fc/3">>]
Ok(m) == [status |-> "ok", mirrors |-> m]
Bad == [status |-> "garbage"]
Down == [status |-> "down"]
Web(main, more) ==
  <<"http", "all">> :> main @@ <<"file", "all">> :> <<Ok(Main)>> @@ <<"http", "more">> :> more
  @@ <<"file", "more">> :> <<Ok(More)>> @@ <<"data", "new">> :> <<Ok(New)>>
  @@ <<"file", "none">> :> <<Down>> @@ <<"ftp", "all">> :> <<Ok(Main)>>
Always(answer) == <<answer, answer, answer>>
MCWebs == {Web(<<Bad, Bad, Ok(Main)>>, <<Bad, Ok(More), Down>>), Web(Always(Ok(Main)), Always(Down)),
           Web(Always(Bad), Always(Bad))}
Section(name, options) == [name |-> name, options |-> options]
MCConfig == <<
  Section(El("base"), [metalink |-> "meta"]), Section(El("updates"), [mirrorlist |-> "list", proxy |-> "p"]),
  Section(El("extra"), [baseurl |-> "extra"]), Section(Fc("base"), [baseurl |-> "fc"])>>
\* A proxied one.
MCMockConfig == <<
  Section(<<"main", "">>, [proxy |-> "p"]), Section(El("base"), [baseurl |-> "base"]),
  Section(El("updates"), [mirrorlist |-> "list"])>>
=============================================================================
