--------------------------- MODULE MCProxyForward ---------------------------
(* Instance of ProxyForward for TLC.                                        *)
EXTENDS ProxyForward, TLC

CONSTANTS NumTargets  \* targets of every rule in this instance

MCTargets == [r \in Rules |-> NumTargets]
MCSymmetry == Permutations(Conns)
=============================================================================
