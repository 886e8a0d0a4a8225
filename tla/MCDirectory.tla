---------------------------- MODULE MCDirectory ----------------------------
(* A site with one directory, links to it, out of the site and from the     *)
(* directory to itself, a hidden file, and every combination of index files.*)
EXTENDS Directory, TLC

top   == <<"site">>
sub   == <<"site", "d">>
x     == <<"site", "d", "x">>
dot   == <<"site", "d", ".h">>
index == <<"site", "d", "index.html">>
gz    == <<"site", "d", "index.html.gz">>
home  == <<"site", "d", "home">>
html  == <<"site", "d.html">>
deep  == <<"site", "d", "e">>
y     == <<"site", "d", "e", "y">>
alias == <<"site", "alias">>
away  == <<"site", "d", "away">>
loop  == <<"site", "d", "loop">>
out   == <<"out">>
file  == <<"out", "f">>

MCTarget == alias :> sub @@ away :> out @@ loop :> sub

MCKind == [p \in {top, sub, deep, out} |-> "dir"]
            @@ [p \in {alias, away, loop} |-> "link"]
            @@ [p \in {x, y, dot, index, gz, home, html, file} |-> "file"]

\* The second in the list is the one the memory cache looks for.
MCIndexFiles == <<"home", "index.html">>

Site == {top, sub, out, file}

MCTrees == {Site \cup s : s \in SUBSET {index, gz, home, html}}
             \cup {Site \cup {alias} \cup s : s \in 
                     {{}, {x, dot}, {x, away}, {dot, away}, {x, loop}, {x, deep, y}, {dot, deep}}}

MCVolatile == {x, y, deep, file}

\* Listings with every setting of links and hidden files, redirects without, and
\* the memory cache with redirects.
MCOptions == {o \in Options : o.listing /\ ~o.redirectSlash /\ ~o.memoryCache} \cup
             {o \in Options : ~o.listing /\ o.redirectSlash /\ o.disableSymlinks = o.ignoreHidden}
                \cup {o \in Options : o.listing /\ o.redirectSlash /\ o.memoryCache
                                      /\ ~o.disableSymlinks /\ ~o.ignoreHidden}

MCRequests ==
    {[segments |-> s, slash |-> sl, method |-> "GET", download |-> FALSE, gz |-> g] :
        s \in {<<>>, <<"d">>, <<"alias">>, <<"d", "..">>, <<"alias", "x">>},
        sl \in BOOLEAN, g \in BOOLEAN}
    \cup {[segments |-> <<"d">>, slash |-> TRUE, method |-> m, download |-> TRUE, gz |-> FALSE] :
        m \in {"GET", "HEAD", "OPTIONS", "POST"}}
=============================================================================
