----------------------------- MODULE StaticPath -----------------------------
(***************************************************************************)
(* From a request path to what is sent for it: sanitize_path and the path  *)
(* predicates (src/fs/path.rs), the metadata of files and index files      *)
(* (src/fs/meta.rs, get_composed_file_metadata), the checks and replies of *)
(* static_files::handle, and the entries of a directory listing            *)
(* (src/directory_listing/dir.rs).  Pure operators on a file system;       *)
(* Directory runs them.                                                    *)
(*                                                                         *)
(* A path is a sequence of names.  The file system is the set of the paths *)
(* that exist; what kind of thing a path is never changes.                 *)
(***************************************************************************)
EXTENDS Naturals, FiniteSets, SequencesExt

CONSTANTS Kind,         \* Kind[p]: "file", "dir" or "link", of every path there may be
          Target,       \* Target[p]: where the link p leads, never another link
          Root,         \* base_path, the directory that is served
          IndexFiles,   \* index_files, in order
          DotNames,     \* names that begin with a dot
          MaxLinks,     \* links the system follows in one path (ELOOP)
          Missing       \* no such file

\* The one index file the memory cache knows.
AutoIndex == "index.html"

Paths == DOMAIN Kind
Links == {p \in Paths : Kind[p] = "link"}

ASSUME StaticPathAssumption ==
    /\ Paths \subseteq Seq(STRING)
    /\ \A p \in Paths : /\ Kind[p] \in {"file", "dir", "link"}
                        /\ Len(p) > 0 /\ \A i \in 1 .. Len(p) : p[i] \notin {".", ".."}
                        /\ Len(p) > 1 => Front(p) \in Paths /\ Kind[Front(p)] = "dir"
    /\ DOMAIN Target = Links /\ \A p \in Links : Target[p] \in Paths \ Links
    /\ Root \in Paths /\ Kind[Root] = "dir"
    /\ IndexFiles \in Seq(STRING) /\ Len(IndexFiles) > 0 /\ AutoIndex \in STRING
    /\ MaxLinks \in Nat /\ Missing \notin Paths /\ Missing # <<>>

\* A file system: nothing without its parent, and the root is there.
FileSystem(tree) ==
    /\ Root \in tree
    /\ \A p \in tree : Len(p) > 1 => Front(p) \in tree

Children(tree, dir) == {p \in tree : Len(p) = Len(dir) + 1 /\ IsPrefix(dir, p)}

\* Where one more name leads from a place: to one place, or to none.
Enter(tree, at, name) ==
    LET q == Append(at.path, name) IN
    IF q \in tree \ Links THEN {[path |-> q, links |-> at.links]}
    ELSE IF q \in tree /\ at.links < MaxLinks /\ Target[q] \in tree
    THEN {[path |-> Target[q], links |-> at.links + 1]}
    ELSE {}

\* Where a path leads, all links followed (canonicalize).
Real(tree, p) ==
    LET walk[i \in 0 .. Len(p)] ==
            IF i = 0 THEN {[path |-> <<>>, links |-> 0]}
            ELSE UNION {Enter(tree, at, p[i]) : at \in walk[i - 1]}
        ends == {at.path : at \in walk[Len(p)]}
    IN  IF ends = {} THEN Missing ELSE CHOOSE q \in ends : TRUE

\* try_metadata
Exists(tree, p) == Real(tree, p) # Missing
IsDir(tree, p)  == Exists(tree, p) /\ Kind[Real(tree, p)] = "dir"
IsFile(tree, p) == Exists(tree, p) /\ Kind[Real(tree, p)] = "file"

\* symlink_metadata: what the name itself is.
Lstat(tree, p) ==
    LET dir == Real(tree, Front(p)) IN
    IF dir = Missing \/ Append(dir, Last(p)) \notin tree THEN Missing
    ELSE Kind[Append(dir, Last(p))]

-----------------------------------------------------------------------------
\* sanitize_path: normal components are pushed onto the base, all others dropped.
Sanitize(segments) ==
    LET path[i \in 0 .. Len(segments)] ==
            IF i = 0 THEN Root
            ELSE IF segments[i] \in {".", ".."} THEN path[i - 1]
            ELSE Append(path[i - 1], segments[i])
    IN  path[Len(segments)]

IsHiddenName(name) == name \in DotNames

\* is_hidden, of a path relative to the root.
IsHidden(p) == \E i \in Len(Root) + 1 .. Len(p) : IsHiddenName(p[i])

\* contains_symlink
ContainsSymlink(tree, p) ==
    \E i \in Len(Root) + 1 .. Len(p) : Lstat(tree, SubSeq(p, 1, i)) = "link"

WithSuffix(p, suffix) == Append(Front(p), Last(p) \o suffix)

\* precompressed_variant; gz is whether compression-static is on and the client
\* accepts the coding.
Precompressed(tree, p, gz) == gz /\ IsFile(tree, WithSuffix(p, ".gz"))

\* What get_composed_file_metadata returns: Ok, or Err if there is nothing.
Composed(p, isDir, variant) == [ok |-> TRUE, path |-> p, isDir |-> isDir, variant |-> variant]
NotComposed == [ok |-> FALSE]

\* Mutant: the loop over the index files has no break.
ComposeDirLastIndex(tree, dir, gz) ==
    LET index(i) == Append(dir, IndexFiles[i])
        hits     == {i \in DOMAIN IndexFiles : Exists(tree, index(i))}
    IN  IF hits = {} THEN Composed(index(Len(IndexFiles)), TRUE, FALSE)
        ELSE Composed(index(CHOOSE i \in hits : \A j \in hits : j <= i), TRUE, FALSE)

\* get_composed_file_metadata of a directory: for each index file its
\* pre-compressed variant, the file itself, then the directory's own name with
\* .html; the last index file if there is nothing.
ComposeDir(tree, dir, gz) ==
    LET index(i) == Append(dir, IndexFiles[i])
        html     == WithSuffix(dir, ".html")
        hits     == {i \in DOMAIN IndexFiles :
                        \/ Precompressed(tree, index(i), gz)
                        \/ Exists(tree, index(i))
                        \/ Exists(tree, html)}
        first    == index(CHOOSE i \in hits : \A j \in hits : i <= j)
    IN  IF hits = {} THEN Composed(index(Len(IndexFiles)), TRUE, FALSE)
        ELSE IF Precompressed(tree, first, gz) THEN Composed(first, FALSE, TRUE)
        ELSE IF Exists(tree, first) THEN Composed(first, TRUE, FALSE)
        ELSE Composed(html, TRUE, Precompressed(tree, html, gz))

\* get_composed_file_metadata
Compose(tree, p, gz) ==
    IF IsDir(tree, p) THEN ComposeDir(tree, p, gz)
    ELSE IF Exists(tree, p) THEN Composed(p, FALSE, Precompressed(tree, p, gz))
    ELSE IF Precompressed(tree, p, gz) THEN Composed(p, FALSE, TRUE)
    ELSE IF Exists(tree, WithSuffix(p, ".html"))
    THEN Composed(WithSuffix(p, ".html"), FALSE, FALSE)
    ELSE NotComposed

-----------------------------------------------------------------------------
\* The settings of the file server, and a request: the segments of its path,
\* does it end with a slash, does it ask for a download that is enabled, gz as above.
Options == [disableSymlinks : BOOLEAN, ignoreHidden : BOOLEAN,
            redirectSlash   : BOOLEAN, listing      : BOOLEAN, memoryCache : BOOLEAN]

Error(status) == [status |-> status, kind |-> "none", path |-> Root]
Reply(kind, p) == [status |-> 200, kind |-> kind, path |-> p]

\* The checks of static_files::handle on the path that was found; of a
\* directory request they are made on the directory.
Denied(tree, opts, p) ==
    IF ~IsPrefix(Root, p) \/ ~Exists(tree, p) THEN 404
    ELSE IF ~IsPrefix(Root, Real(tree, p)) THEN 404
    ELSE IF opts.disableSymlinks /\ ContainsSymlink(tree, p) THEN 403
    ELSE IF opts.ignoreHidden /\ IsHidden(p) THEN 404
    ELSE 200

\* file_reply: the variant or the file, if it can be opened.
FileReply(tree, found) ==
    LET p == IF found.variant THEN WithSuffix(found.path, ".gz") ELSE found.path
    IN  IF Exists(tree, p) THEN Reply("file", p) ELSE Error(404)

\* With the memory cache a path that ends with a slash is taken for that of an
\* index file, before anything is looked up.
Pushed(opts, req) == opts.memoryCache /\ opts.redirectSlash /\ req.slash

\* The path that handle looks up; what the cache itself answers is FileServing's.
Lookup(opts, req) ==
    LET path == Sanitize(req.segments)
    IN  IF Pushed(opts, req) THEN Append(path, AutoIndex) ELSE path

\* static_files::handle
Handle(tree, opts, req) ==
    LET found == Compose(tree, Lookup(opts, req), req.gz)
        dir   == Front(found.path)
        deny  == Denied(tree, opts, IF found.isDir THEN dir ELSE found.path)
    IN  IF req.method \notin {"GET", "HEAD", "OPTIONS"} THEN Error(405)
        ELSE IF ~found.ok THEN Error(404)
        ELSE IF deny # 200 THEN Error(deny)
        ELSE IF found.isDir /\ opts.redirectSlash /\ ~req.slash THEN Error(308)
        ELSE IF req.method = "OPTIONS" THEN Error(204)
        ELSE IF found.isDir /\ opts.listing /\ ~Exists(tree, found.path)
        THEN Reply(IF req.download THEN "archive" ELSE "listing", dir)
        ELSE FileReply(tree, found)

\* Mutant: a link is listed wherever it leads.
ListedAnywhere(tree, opts, dir) ==
    {n \in {Last(p) : p \in Children(tree, Real(tree, dir))} :
        /\ ~(opts.ignoreHidden /\ IsHiddenName(n))
        /\ Lstat(tree, Append(dir, n)) = "link" => ~opts.disableSymlinks}

\* read_dir_entries: the names a listing of the directory shows.
Listed(tree, opts, dir) ==
    {n \in {Last(p) : p \in Children(tree, Real(tree, dir))} :
        /\ ~(opts.ignoreHidden /\ IsHiddenName(n))
        /\ Lstat(tree, Append(dir, n)) = "link" =>
              /\ ~opts.disableSymlinks
              /\ Exists(tree, Append(dir, n))
              /\ IsPrefix(Root, Real(tree, Append(dir, n)))}

\* The link of an entry: relative to the page, which ends with the directory's
\* name when the request had no slash.
Href(req, name) ==
    IF req.slash \/ req.segments = <<>> THEN <<name>> ELSE <<Last(req.segments), name>>
=============================================================================
