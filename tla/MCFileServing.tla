--------------------------- MODULE MCFileServing ---------------------------
(* Instances of FileServing for TLC.                                       *)
EXTENDS FileServing

CONSTANTS c1, c2

Get  == [method |-> "GET", gzip |-> FALSE, range |-> NoRange, date |-> "none"]
Part == [Get EXCEPT !.range = RangeSpec("from", 1, 0)]

\* The i-th file is deployed in second i.
MCMtime == [i \in 1 .. MaxFiles |-> i]

\* The original may shrink and grow.
MCLengths == [orig |-> {1, 2}, gz |-> {2}]

\* One client asks for everything, the other one only for the file: together
\* they race to fill the cache.
MCAsks == [c \in Conns |->
              IF c = c2 THEN {Get}
              ELSE {Get, Part, [Part EXCEPT !.date = "ifRange"], [Get EXCEPT !.gzip = TRUE],
                    [Get EXCEPT !.date = "modifiedSince"], [Get EXCEPT !.date = "unmodifiedSince"],
                    [Get EXCEPT !.method = "HEAD"], [Get EXCEPT !.method = "OPTIONS"]}]
=============================================================================
