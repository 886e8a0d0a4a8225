---------------------------- MODULE TunnelLimit ----------------------------
(***************************************************************************)
(* What `max-upgrade-tunnels` promises, said without the proxy: at most    *)
(* Limit protocol upgrades are admitted at a time; one more is turned away *)
(* exactly when the limit is reached; an admitted one gives its place back *)
(* once.  Limit = 0 stands for "unlimited" (settings/file.rs,              *)
(* `max-upgrade-tunnels`), in which nobody needs a place.                  *)
(* ProxyForward is shown to implement this specification.                  *)
(***************************************************************************)
EXTENDS Naturals, FiniteSets

CONSTANTS Conns,  \* the client connections that may ask for an upgrade
          Limit   \* number of places, 0 when the limit is off

VARIABLES admitted,  \* the connections that hold a place
          refused    \* the connections whose last upgrade was turned away

limitVars == <<admitted, refused>>

LimitInit == admitted = {} /\ refused = {}

Admit(c) == /\ c \notin admitted
            /\ Cardinality(admitted) < Limit
            /\ admitted' = admitted \cup {c}
            /\ UNCHANGED refused

Refuse(c) == /\ c \notin admitted
             /\ Limit > 0
             /\ Cardinality(admitted) = Limit
             /\ refused' = refused \cup {c}
             /\ UNCHANGED admitted

Leave(c) == /\ c \in admitted
            /\ admitted' = admitted \ {c}
            /\ UNCHANGED refused

\* The refused client gives up or asks for something else.
Forget(c) == /\ c \in refused
             /\ refused' = refused \ {c}
             /\ UNCHANGED admitted

LimitNext == \E c \in Conns : Admit(c) \/ Refuse(c) \/ Leave(c) \/ Forget(c)

LimitSpec == LimitInit /\ [][LimitNext]_limitVars
=============================================================================
