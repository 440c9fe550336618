----------------------------- MODULE SourceFiles -----------------------------
(***************************************************************************)
(* The files of a project and of its upstream sources (stdci_tools/usrc.py  *)
(* get and changed-files).  A commit of a project is [sources, files]; files*)
(* are functions from paths, <<directory, name>>, to contents [kind, data]; *)
(* the data of a "link" is where it leads.  A source is [url, commit, dir,  *)
(* formats], formats a sequence of [name, dir, filter]; no filter is {}.    *)
(***************************************************************************)
EXTENDS Integers, SequencesExt, Maps

CONSTANTS UpstreamFiles   \* of each commit of an upstream

NoFiles == [p \in {} |-> p]

\* A format's own directory, or that of its source.
DestDir(source, format) == IF format.dir = "" THEN source.dir ELSE format.dir

\* A slip: files that are gone upstream stay.
MutFilesHandler(at, source, format) ==
  LET files == UpstreamFiles[source.commit]
      in(p) == <<DestDir(source, format) \o p[1], p[2]>>
  IN [at EXCEPT !.tree = Over([q \in {in(p) : p \in DOMAIN files} |->
                                 files[CHOOSE p \in DOMAIN files : in(p) = q]], @)]

\* _files_format_handler: git checkout from the cache repository of the URL,
\* with the work tree in the project.  It writes the files of the commit and
\* removes those in the cache's index that the commit does not have.  With
\* paths it takes these alone; a filter that matches nothing gives no paths.
FilesHandler(at, source, format) ==
  LET files == UpstreamFiles[source.commit]
      index == at.indexes[source.url]
      in(p) == <<DestDir(source, format) \o p[1], p[2]>>
      wanted == DOMAIN files \cap format.filter
      taken == IF wanted = {} THEN DOMAIN files ELSE wanted
      gone == IF wanted = {} THEN {in(p) : p \in DOMAIN index \ DOMAIN files} ELSE {}
      written == [q \in {in(p) : p \in taken} |-> files[CHOOSE p \in taken : in(p) = q]]
  IN [at EXCEPT !.tree = Over(written, Without(@, gone)),
                !.indexes[source.url] = IF wanted = {} THEN files
                                        ELSE Over([p \in wanted |-> files[p]], index)]

\* _source_repos_format_handler appends the source to a file.
SourceReposHandler(at, source, format) ==
  LET path == <<DestDir(source, format), "source-repos">>
      lines == IF path \in DOMAIN at.tree THEN at.tree[path].data ELSE <<>>
  IN [at EXCEPT !.tree = Over(Entry(path, [kind |-> "file", data |-> Append(lines, source.commit)]), @)]

\* _branch_format_handler pushes the commit to a branch of the project.
BranchHandler(at, source, format) == [at EXCEPT !.pushed = @ \cup {source.commit}]

\* _call_format_handlers
Handled(at, source, format) ==
  CASE format.name = "files" -> FilesHandler(at, source, format)
    [] format.name = "branch" -> BranchHandler(at, source, format)
    [] format.name = "source_repos" -> SourceReposHandler(at, source, format)
Formatted(at, source) ==
  LET after[n \in 0..Len(source.formats)] ==
        IF n = 0 THEN at ELSE Handled(after[n - 1], source, source.formats[n])
  IN after[Len(source.formats)]

\* git reset --hard at the end of get_upstream_sources
ResetHard(at, commit) == [at EXCEPT !.tree = Over(commit.files, @)]
-----------------------------------------------------------------------------
\* ls_all_files: the last source that has a file, and over all the project.
AllFiles(commit) ==
  Over(commit.files, FoldLeft(LAMBDA all, s : Over(UpstreamFiles[s.commit], all), NoFiles, commit.sources))

\* files_diff
FilesDiff(old, new) ==
  {p \in DOMAIN old \cup DOMAIN new :
     ~(p \in DOMAIN old /\ p \in DOMAIN new) \/ old[p] # new[p]}

\* get_files_to_links_map
LinksMap(files) ==
  LET links == {p \in DOMAIN files : files[p].kind = "link"}
  IN [t \in {files[l].data : l \in links} |-> {l \in links : files[l].data = t}]

\* A slip: links to links are forgotten.
MutLinksTo(file, linksMap) ==
  [endless |-> FALSE, links |-> IF file \in DOMAIN linksMap THEN linksMap[file] ELSE {}]

\* get_links_to_file calls itself for each link, and does not know where it
\* has been: when links lead to it in more steps than there are files with
\* links, it comes to the same files again and again.
LinksTo(file, linksMap) ==
  LET deepest == Cardinality(DOMAIN linksMap)
      to[n \in 0..(deepest + 1)] ==   \* the links that lead to it in n steps
        IF n = 0 THEN {file} ELSE UNION {linksMap[f] : f \in to[n - 1] \cap DOMAIN linksMap}
  IN [endless |-> to[deepest + 1] # {}, links |-> UNION {to[n] : n \in 1..deepest}]

\* Python's stack ends.
RecursionError == [error |-> TRUE]

\* get_modified_files with --resolve-links
ModifiedFiles(new, old) ==
  LET changed == FilesDiff(AllFiles(old), AllFiles(new))
      linked == {LinksTo(f, LinksMap(AllFiles(new))) : f \in changed}
  IN IF \E l \in linked : l.endless THEN RecursionError
     ELSE [files |-> changed \cup UNION {l.links : l \in linked}]
=============================================================================
