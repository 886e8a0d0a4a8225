--------------------------- MODULE MCProxyRouting ---------------------------
(* Instance of ProxyRouting for TLC: catch-alls of three depths, an exact    *)
(* source, sources of equal length with different wildcards, a host filter   *)
(* a prefix to strip, a source of the file that is no path, and targets with *)
(* and without a path of their own.                                          *)
EXTENDS ProxyRouting

Slash == <<"/">>
A     == <<"/", "a">>
ASlash == <<"/", "a", "/">>
AB    == <<"/", "a", "/", "b">>

Base   == <<"/", "v">>
Slashed == <<"/", "v", "/", "/">>

Def(n, lit, stars, host, strip, base) ==
    [name |-> n, lit |-> lit, stars |-> stars, host |-> host, strip |-> strip, base |-> base]

MCDefs == { Def("all",    <<>>,   2, None, None, Slash),
            Def("root",   Slash,  2, None, None, Base),
            Def("deep",   ASlash, 2, None, A, Slashed),
            Def("hosted", ASlash, 2, "h1", None, Base),
            Def("again",  ASlash, 2, None, None, <<>>),
            Def("star",   ASlash, 1, None, None, Base),
            Def("exact",  AB,     0, None, A, Slash),
            Def("loose",  A,      1, None, A, Base) }
MCPaths == {Slash, A, ASlash, AB, <<"/", "a", "b">>, <<"/", "b">>}
=============================================================================
