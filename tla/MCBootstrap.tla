---------------------------- MODULE MCBootstrap ----------------------------
(* Instances of Bootstrap for TLC: one document of each kind, and two that  *)
(* are good.  One gateway in every configuration; two that share a snapshot *)
(* on a machine that loses power.                                           *)
EXTENDS Bootstrap

MCDocs  == {"good", "newer", "empty", "badversion", "badtarget"}
MCValid == MCDocs \ {"badversion"}
MCSound == MCDocs \ {"badtarget"}
MCEmpty == {"empty"}

One  == CHOOSE g \in Gateways : TRUE

MCAlone  == {c \in Deployment : /\ c.gateways = {One} /\ ~c.powerLoss
                                /\ c.answers = Docs}
MCShared == {c \in Deployment : /\ c.gateways = Gateways /\ c.powerLoss
                                /\ c.mode = "cache-then-file" /\ c.cachePath = "plain"
                                /\ c.toml = "sound"
                                /\ c.answers = {"good", "newer", "badversion"}}

MCConfigs  == MCAlone \cup MCShared
MCPoisoned == {c \in MCAlone :
                                  c.mode = "cache-then-file" /\ c.cachePath = "plain" /\ c.toml = "sound"}
=============================================================================
