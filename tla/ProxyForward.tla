---------------------------- MODULE ProxyForward ----------------------------
(***************************************************************************)
(* Forwarding of matched requests to an upstream (src/proxy.rs): ordinary  *)
(* HTTP, protocol upgrades under the tunnel semaphore, the detached task   *)
(* that copies bytes once the upstream switched protocols, and the         *)
(* round-robin balancer of every rule (src/settings/mod.rs).               *)
(*                                                                         *)
(* A member of Conns is a client connection; it carries one request at a   *)
(* time.  The code between two awaits runs on some worker thread, so the   *)
(* two accesses to shared atomics (the semaphore and the balancer counter) *)
(* are steps of their own.  A handler future is dropped when its client    *)
(* goes away while the future is suspended at an await, and dropping it    *)
(* drops the permit it owns.                                               *)
(***************************************************************************)
EXTENDS Naturals, FiniteSets

CONSTANTS Conns,       \* client connections
          Rules,       \* compiled proxy rules
          Targets,     \* Targets[rule]: number of upstream targets of a rule
          CounterSize, \* the balancer counter is a usize: it wraps at CounterSize
          MaxTunnels   \* `max-upgrade-tunnels`; 0 means no semaphore at all

ASSUME ProxyAssumption ==
    /\ IsFiniteSet(Conns)
    /\ Targets \in [Rules -> Nat \ {0}]    \* ProxyBalancer::new refuses an empty list
    /\ CounterSize \in Nat \ {0}
    /\ MaxTunnels \in Nat

VARIABLES pc,        \* where the handling of the connection's request stands
          upgrade,   \* is_protocol_upgrade(req)
          rule,      \* the rule find_rule returned for it
          status,    \* the response the client got (or is about to get)
          available, \* permits left in upgrade_tunnel_semaphore
          holding,   \* connections whose future or tunnel task owns a permit
          next,      \* ProxyBalancer::next of every rule
          picks      \* ghost: picks[r][i] = times target i was picked by r
                     \* since r's counter last wrapped

vars == <<pc, upgrade, rule, status, available, holding, next, picks>>

\* idle      no request being proxied on the connection
\* acquire   forward_upgrade, before try_acquire_owned
\* choose    before upstream_uri_for_rule
\* upstream  suspended in client.request(..).await
\* joining   tunnel task spawned, waiting for both OnUpgrade futures
\* copying   tunnel task inside copy_bidirectional
PCs == {"idle", "acquire", "choose", "upstream", "joining", "copying"}

\* "none" before any answer; "gone" when the client left before one
Statuses == {"none", "upstream", "101", "502", "503", "gone"}

Limited == MaxTunnels > 0

Indices(r) == 0 .. Targets[r] - 1

-----------------------------------------------------------------------------
Init ==
    /\ pc        = [c \in Conns |-> "idle"]
    /\ upgrade   = [c \in Conns |-> FALSE]
    /\ rule      \in [Conns -> Rules]
    /\ status    = [c \in Conns |-> "none"]
    /\ available = MaxTunnels
    /\ holding   = {}
    /\ next      = [r \in Rules |-> 0]
    /\ picks     = [r \in Rules |-> [i \in Indices(r) |-> 0]]

-----------------------------------------------------------------------------
\* Mutant: the drop of an OwnedSemaphorePermit forgets to give it back.
DropPermitLeaks(c) ==
    /\ holding' = holding \ {c}
    /\ UNCHANGED available

\* Mutant: a permit is given back for every request, upgrade or not.
DropPermitTwice(c) ==
    /\ holding' = holding \ {c}
    /\ available' = available + 1

\* Dropping `Option<OwnedSemaphorePermit>` at the end of its owner.
DropPermit(c) ==
    /\ holding' = holding \ {c}
    /\ available' = IF c \in holding THEN available + 1 ELSE available

\* pre_process found rule r for the request on connection c.
Forward(c, r, isUpgrade) ==
    /\ pc[c] = "idle"
    /\ pc' = [pc EXCEPT ![c] = IF isUpgrade THEN "acquire" ELSE "choose"]
    /\ upgrade' = [upgrade EXCEPT ![c] = isUpgrade]
    /\ rule' = [rule EXCEPT ![c] = r]
    /\ status' = [status EXCEPT ![c] = "none"]
    /\ UNCHANGED <<available, holding, next, picks>>

\* Mutant: a semaphore that lets one more in.
TryAcquireOffByOne(c) ==
    /\ pc[c] = "acquire"
    /\ Limited => Cardinality(holding) <= MaxTunnels
    /\ pc' = [pc EXCEPT ![c] = "choose"]
    /\ available' = IF Limited /\ available > 0 THEN available - 1 ELSE available
    /\ holding' = IF Limited THEN holding \cup {c} ELSE holding
    /\ UNCHANGED <<upgrade, rule, status, next, picks>>

\* forward_upgrade: no semaphore, or a permit was free.
TryAcquire(c) ==
    /\ pc[c] = "acquire"
    /\ Limited => available > 0
    /\ pc' = [pc EXCEPT ![c] = "choose"]
    /\ available' = IF Limited THEN available - 1 ELSE available
    /\ holding' = IF Limited THEN holding \cup {c} ELSE holding
    /\ UNCHANGED <<upgrade, rule, status, next, picks>>

\* Mutant: the limit is one too small.
RejectUpgradeEarly(c) ==
    /\ pc[c] = "acquire"
    /\ Limited /\ available <= 1
    /\ pc' = [pc EXCEPT ![c] = "idle"]
    /\ status' = [status EXCEPT ![c] = "503"]
    /\ UNCHANGED <<upgrade, rule, available, holding, next, picks>>

\* forward_upgrade: try_acquire_owned failed, 503 without touching an upstream.
RejectUpgrade(c) ==
    /\ pc[c] = "acquire"
    /\ Limited /\ available = 0
    /\ pc' = [pc EXCEPT ![c] = "idle"]
    /\ status' = [status EXCEPT ![c] = "503"]
    /\ UNCHANGED <<upgrade, rule, available, holding, next, picks>>

\* The ghost picks of rule r after target idx was picked; a wrapping counter
\* starts the count again.
Count(r, idx, wraps) ==
    picks' = [picks EXCEPT ![r] = [i \in Indices(r) |->
                IF wraps THEN 0 ELSE picks[r][i] + (IF i = idx THEN 1 ELSE 0)]]

\* Mutant: the counter is read and bumped twice.
NextIndexTwice(r) ==
    LET after == (next[r] + 2) % CounterSize
    IN  /\ next' = [next EXCEPT ![r] = after]
        /\ Count(r, next[r] % Targets[r], after < next[r])

\* ProxyBalancer::next_index: fetch_add on the wrapping counter, then % len.
NextIndex(r) ==
    LET after == (next[r] + 1) % CounterSize
    IN  /\ next' = [next EXCEPT ![r] = after]
        /\ Count(r, next[r] % Targets[r], after = 0)

\* upstream_uri_for_rule picked a target and built its URI; the request is sent.
SendUpstream(c) ==
    /\ pc[c] = "choose"
    /\ NextIndex(rule[c])
    /\ pc' = [pc EXCEPT ![c] = "upstream"]
    /\ UNCHANGED <<upgrade, rule, status, available, holding>>

\* upstream_uri_for_rule, or building the upstream request, failed: the target
\* is used up all the same, the permit (if any) is dropped and the handler
\* turns the error into a 502.
BuildFails(c) ==
    /\ pc[c] = "choose"
    /\ NextIndex(rule[c])
    /\ DropPermit(c)
    /\ pc' = [pc EXCEPT ![c] = "idle"]
    /\ status' = [status EXCEPT ![c] = "502"]
    /\ UNCHANGED <<upgrade, rule>>

\* Mutant: the error path of client.request keeps the permit alive.
UpstreamFailsKeepingPermit(c) ==
    /\ pc[c] = "upstream"
    /\ pc' = [pc EXCEPT ![c] = "idle"]
    /\ status' = [status EXCEPT ![c] = "502"]
    /\ UNCHANGED <<upgrade, rule, available, holding, next, picks>>

\* client.request(..).await returned an error.
UpstreamFails(c) ==
    /\ pc[c] = "upstream"
    /\ DropPermit(c)
    /\ pc' = [pc EXCEPT ![c] = "idle"]
    /\ status' = [status EXCEPT ![c] = "502"]
    /\ UNCHANGED <<upgrade, rule, next, picks>>

\* Plain HTTP, or an upgrade the upstream answered without switching protocols:
\* the response is passed on and the permit dropped with the future.
UpstreamAnswers(c) ==
    /\ pc[c] = "upstream"
    /\ DropPermit(c)
    /\ pc' = [pc EXCEPT ![c] = "idle"]
    /\ status' = [status EXCEPT ![c] = "upstream"]
    /\ UNCHANGED <<upgrade, rule, next, picks>>

\* Mutant: the permit stays with the handler instead of moving into the task.
UpstreamSwitchesEarlyDrop(c) ==
    /\ pc[c] = "upstream"
    /\ upgrade[c]
    /\ DropPermit(c)
    /\ pc' = [pc EXCEPT ![c] = "joining"]
    /\ status' = [status EXCEPT ![c] = "101"]
    /\ UNCHANGED <<upgrade, rule, next, picks>>

\* The upstream switched protocols: the tunnel task is spawned and takes the
\* permit over, the 101 goes back to the client.
UpstreamSwitches(c) ==
    /\ pc[c] = "upstream"
    /\ upgrade[c]
    /\ pc' = [pc EXCEPT ![c] = "joining"]
    /\ status' = [status EXCEPT ![c] = "101"]
    /\ UNCHANGED <<upgrade, rule, available, holding, next, picks>>

\* The client goes away while the handler is suspended: the future is dropped.
ClientLeaves(c) ==
    /\ pc[c] = "upstream"
    /\ DropPermit(c)
    /\ pc' = [pc EXCEPT ![c] = "idle"]
    /\ status' = [status EXCEPT ![c] = "gone"]
    /\ UNCHANGED <<upgrade, rule, next, picks>>

\* try_join! of both OnUpgrade futures succeeded.
BothUpgraded(c) ==
    /\ pc[c] = "joining"
    /\ pc' = [pc EXCEPT ![c] = "copying"]
    /\ UNCHANGED <<upgrade, rule, status, available, holding, next, picks>>

\* One side never completed its upgrade, or copy_bidirectional ended (EOF in
\* both directions or an I/O error): the task ends and drops the permit.
TunnelEnds(c) ==
    /\ pc[c] \in {"joining", "copying"}
    /\ DropPermit(c)
    /\ pc' = [pc EXCEPT ![c] = "idle"]
    /\ UNCHANGED <<upgrade, rule, status, next, picks>>

\* The steps a scheduled future or task takes by itself.
Step(c) == \/ TryAcquire(c) \/ RejectUpgrade(c)
           \/ SendUpstream(c) \/ BuildFails(c)

\* What happens to a suspended future or to an open tunnel.
Settle(c) == \/ UpstreamFails(c) \/ UpstreamAnswers(c) \/ UpstreamSwitches(c)
             \/ ClientLeaves(c)
             \/ BothUpgraded(c) \/ TunnelEnds(c)

Next == \E c \in Conns :
           \/ \E r \in Rules, isUpgrade \in BOOLEAN : Forward(c, r, isUpgrade)
           \/ Step(c)
           \/ Settle(c)

Spec == Init /\ [][Next]_vars

\* The runtime polls a ready future or task again, and every peer eventually
\* answers, hangs up or closes the tunnel: the code has no timeout of its own.
FairSpec == /\ Spec
            /\ \A c \in Conns : WF_vars(Step(c)) /\ WF_vars(Settle(c))

-----------------------------------------------------------------------------
TypeOK ==
    /\ pc \in [Conns -> PCs]
    /\ upgrade \in [Conns -> BOOLEAN]
    /\ rule \in [Conns -> Rules]
    /\ status \in [Conns -> Statuses]
    /\ available \in 0 .. MaxTunnels
    /\ holding \subseteq Conns
    /\ next \in [Rules -> 0 .. CounterSize - 1]
    /\ DOMAIN picks = Rules
    /\ \A r \in Rules : picks[r] \in [Indices(r) -> Nat]

Tunnels == {c \in Conns : pc[c] \in {"joining", "copying"}}

\* Every permit that is not in the semaphore belongs to an upgrade that is in
\* flight or to an open tunnel, on every path out of forward_upgrade_inner,
\* errors and dropped futures included: none is lost and none is counted twice.
PermitsAccounted ==
    /\ available + Cardinality(holding) = MaxTunnels
    /\ holding = {c \in Conns : /\ Limited /\ upgrade[c]
                                /\ pc[c] \notin {"idle", "acquire"}}

\* "Max concurrent protocol-upgrade tunnels" (settings/file.rs): the detached
\* tunnel tasks never outnumber the limit, although nothing counts them.
TunnelBound == Limited => Cardinality(Tunnels) <= MaxTunnels

\* forward_upgrade answers 503 only to an upgrade that finds MaxTunnels others
\* in flight, and never when the limit is off.
RefusedOnlyWhenFull ==
    [][\A c \in Conns :
         status'[c] = "503" /\ status[c] # "503"
           => Limited /\ Cardinality(holding) = MaxTunnels]_vars

\* Until its counter wraps, a balancer spreads requests evenly over its targets
\* whatever the interleaving, the failures and the cancellations of the
\* requests that asked for one.
EvenSpread ==
    \A r \in Rules : \A i, j \in Indices(r) : picks[r][i] <= picks[r][j] + 1

\* Whoever takes a permit gives it back, if every peer eventually lets go.
PermitReturned == \A c \in Conns : c \in holding ~> c \notin holding

\* Admission control as TunnelLimit specifies it.
Abs == INSTANCE TunnelLimit WITH
           Limit    <- MaxTunnels,
           admitted <- holding,
           refused  <- {c \in Conns : status[c] = "503"}
ImplementsTunnelLimit == Abs!LimitSpec
=============================================================================
