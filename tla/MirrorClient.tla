---------------------------- MODULE MirrorClient ----------------------------
(***************************************************************************)
(* What a job learns of mirrors and makes of its yum configurations         *)
(* (stdci_libs/mirror_client.py).  The name of a repository is its stem and *)
(* its distribution, <<"updates", "el7">>.  Mirrors are a record: repos, a  *)
(* function from names to URLs; before, a function from sections to         *)
(* sequences of [name, url], the "before:..." keys; include, a sequence of  *)
(* URIs, and includeBefore, one of [stem, uri].  A URL is <<place, path>>,  *)
(* a relative one has the place "".                                         *)
(***************************************************************************)
EXTENDS Integers, SequencesExt

CONSTANTS Names,     \* the names of repositories, sorted
          OldDistros, \* el7, el8 ... and fc28 and before
          Retries    \* HTTP_RETRIES

Empty == [x \in {} |-> x]
NoMirrors == [repos |-> Empty, before |-> Empty, include |-> <<>>, includeBefore |-> <<>>]
Error == [error |-> TRUE]
Failed(m) == "error" \in DOMAIN m

\* urljoin
Join(base, url) == IF url[1] = "" THEN <<base[1], url[2]>> ELSE url

\* normalize_mirror_urls
Normalized(m, base) ==
  [repos |-> [r \in DOMAIN m.repos |-> Join(base, m.repos[r])],
   before |-> [s \in DOMAIN m.before |->
                 [i \in DOMAIN m.before[s] |-> [m.before[s][i] EXCEPT !.url = Join(base, @)]]],
   include |-> [i \in DOMAIN m.include |-> Join(base, m.include[i])],
   includeBefore |-> [i \in DOMAIN m.includeBefore |->
                        [m.includeBefore[i] EXCEPT !.uri = Join(base, @)]]]

\* mirrors_from_http: what does not parse is asked for again; a server that
\* does not answer or answers with an error has no mirrors.
FromHttp(answers) ==
  LET parsed == {i \in 1..Retries : answers[i].status # "garbage"}
      last == CHOOSE i \in parsed : \A k \in parsed : i <= k
  IN IF parsed = {} THEN Error
     ELSE IF answers[last].status = "ok" THEN answers[last].mirrors ELSE NoMirrors

\* mirrors_from_file
FromFile(answer) == IF answer.status = "ok" THEN answer.mirrors ELSE Error

\* mirrors_from_data_url: other data than JSON has no mirrors.
FromData(answer) ==
  CASE answer.status = "ok" -> answer.mirrors
    [] answer.status = "garbage" -> Error
    [] OTHER -> NoMirrors

\* What goes before sections: b's after a's.
BothBefore(a, b) ==
  LET of(m, s) == IF s \in DOMAIN m.before THEN m.before[s] ELSE <<>>
  IN [s \in DOMAIN a.before \cup DOMAIN b.before |-> of(a, s) \o of(b, s)]

\* A slip: the last to name a repository wins.
MutMerged(a, b) == [a EXCEPT !.repos = b.repos @@ @, !.before = BothBefore(a, b)]

\* merge_mirrors: the first to name a repository wins.
MergedMirrors(a, b) == [a EXCEPT !.repos = @ @@ b.repos, !.before = BothBefore(a, b)]

\* mirrors_to_inserts: its repositories go before the section of the same
\* distribution, after what was to go there.
Inserts(m, stem) ==
  LET names == SelectSeq(Names, LAMBDA r : r \in DOMAIN m.repos)
      to(d) == SelectSeq(names, LAMBDA r : r[2] = d)
      keys == {<<stem, r[2]>> : r \in DOMAIN m.repos}
      added == [s \in keys |-> [i \in DOMAIN to(s[2]) |->
                                  [name |-> to(s[2])[i], url |-> m.repos[to(s[2])[i]]]]]
  IN [NoMirrors EXCEPT !.before = BothBefore(m, [before |-> added])]

\* mirrors_from_uri of a URI whose data names no others.
Fetched(uri, web) ==
  LET answer == web[uri]
      m == CASE uri[1] = "http" -> FromHttp(answer)
             [] uri[1] = "file" -> FromFile(answer[1])
             [] uri[1] = "data" -> FromData(answer[1])
             [] OTHER -> Error   \* UnboundLocalError
  IN IF Failed(m) THEN m ELSE Normalized(m, uri)

\* One turn of the loops of parse_mirror_includes: what an included document
\* says is merged after what is known; if it fails so does all.
WithIncluded(m, got, document) ==
  IF Failed(m) THEN m ELSE IF Failed(got) THEN got ELSE MergedMirrors(m, document)

\* parse_mirror_includes: first the whole include list, then the other one.
\* got has what mirrors_from_uri makes of each URI.
Included(m, got) ==
  LET plain == FoldLeft(LAMBDA all, uri : WithIncluded(all, got[uri], got[uri]),
                        [m EXCEPT !.include = <<>>, !.includeBefore = <<>>], m.include)
  IN FoldLeft(LAMBDA all, e : WithIncluded(all, got[e.uri], Inserts(got[e.uri], e.stem)),
              plain, m.includeBefore)

\* mirrors_from_uri; Python's stack ends after depth includes of includes.
FromUri(uri, web, depth) ==
  LET from[d \in 0..depth] ==
        [u \in DOMAIN web |->
           LET m == Fetched(u, web)
           IN IF d = 0 THEN Error ELSE IF Failed(m) THEN m ELSE Included(m, from[d - 1])]
  IN from[depth][uri]
-----------------------------------------------------------------------------
\* A configuration is a sequence of [name, options], options a function.
\* copy_section: the options of a section, over those it has.
Copied(old, new, section) ==
  LET from == SelectSeq(old, LAMBDA s : s.name = section)
      isIt(s) == s.name = section
  IN IF from = <<>> THEN new
     ELSE IF ~\E i \in DOMAIN new : isIt(new[i]) THEN Append(new, from[1])
     ELSE [i \in DOMAIN new |-> IF isIt(new[i]) THEN [new[i] EXCEPT !.options = from[1].options @@ @]
                                ELSE new[i]]

\* none_value_by_repo_name
NoneValue(section) == IF section[2] \in OldDistros THEN "_none_" ELSE "None"

\* mk_injected_section
Injected(old, new, section, url, allowProxy) ==
  LET copied == Copied(old, new, section)
      has == \E i \in DOMAIN copied : copied[i].name = section
      all == IF has THEN copied ELSE Append(copied, [name |-> section, options |-> Empty])
      set == IF allowProxy THEN [baseurl |-> url] ELSE [baseurl |-> url, proxy |-> NoneValue(section)]
      kept(options) == [o \in DOMAIN options \ {"mirrorlist", "metalink"} |-> options[o]]
  IN [i \in DOMAIN all |-> IF all[i].name = section THEN [all[i] EXCEPT !.options = set @@ kept(@)]
                           ELSE all[i]]

\* inject_yum_mirrors
InjectedConfig(mirrors, old, allowProxy) ==
  FoldLeft(LAMBDA new, s :
             LET first == IF s.name \in DOMAIN mirrors.before THEN mirrors.before[s.name] ELSE <<>>
                 opened == FoldLeft(LAMBDA c, e : Injected(old, c, e.name, e.url, allowProxy), new, first)
             IN IF s.name \in DOMAIN mirrors.repos
                THEN Injected(old, opened, s.name, mirrors.repos[s.name], allowProxy)
                ELSE Copied(old, opened, s.name),
           <<>>, old)
=============================================================================
