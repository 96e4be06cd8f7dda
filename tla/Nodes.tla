---------------------------------- MODULE Nodes ----------------------------------
(***************************************************************************)
(* Model nodes: registration (api.py), the health probes of the monitor    *)
(* thread and of operators (node_monitor.py), placement of a model call    *)
(* (compute.py) and the quarantine of a node that used more than it was    *)
(* admitted for (model_proxy.py).  Probes, calls and a restart of the      *)
(* daemon interleave; time passes in ticks.  The spending of a call is in  *)
(* Admission.                                                              *)
(***************************************************************************)
EXTENDS Integers

CONSTANTS
  Node, Manager, Org,
  NodeInfo,      \* node -> [org, tier, airgapped, allowed, paid, source]: its
                 \* owner, tier and privacy classes, and where its health is
                 \* read: "url", a manager, or None
  Allowlisted,   \* compute.secret_sensitive_allowed_node_ids
  Prober, Monitor,  \* threads that probe; the monitor is one of them
  Call, Request, \* model calls in flight; the [org, privacy] of their tasks
  MaxAge,        \* ticks in three health intervals
  MaxLag,        \* ticks a probe or a placement may take, of HTTP timeouts and locks
  Conditions,    \* the conditions a node may get into: a bound
  MaxChanges,    \* changes of the nodes' conditions and of shares, and
                 \* operators' probes: a bound
  MaxFaults,     \* failures of the store and restarts: a bound
  None

Privacy == {"public", "low_sensitive", "repo_sensitive", "secret_sensitive"}
Tier == {"local_only", "private_rented", "external"}
Condition == {"good", "full", "bad", "absent"}

\* what register_node lets into the registry
ASSUME NodesAssumption ==
  /\ NodeInfo \in [Node -> [org : Org, tier : Tier, airgapped : BOOLEAN, allowed : SUBSET Privacy,
                            paid : BOOLEAN, source : Manager \cup {"url", None}]]
  /\ \A n \in Node :
       /\ NodeInfo[n].tier # "local_only" => NodeInfo[n].source # None
       /\ NodeInfo[n].tier = "local_only" => NodeInfo[n].source \notin Manager
  /\ Allowlisted \subseteq Node /\ Conditions \subseteq Condition
  /\ Monitor \in Prober
  /\ Request \subseteq [org : Org, privacy : Privacy]
  /\ MaxAge \in Nat /\ MaxLag \in Nat /\ MaxChanges \in Nat /\ MaxFaults \in Nat
  /\ Manager \cap (Node \cup {"url", None}) = {} /\ None # "url" /\ None \notin Node

VARIABLES
  registered, healthy, age,  \* compute_nodes: the rows, the healthy ones, and
                             \* the ticks since last_health_at
  shares,                    \* registry_shares: <<node, organization>>
  allow,                     \* nodes on their manager's allowed_node_ids
  condition,                 \* what a node's source would report of it
  probe,                     \* what each prober is doing
  call,                      \* what each call is doing
  quarantined, quiet,        \* history: nodes in quarantine; ticks since a node
                             \* was last good and allowed
  changes, faults

rows == <<registered, healthy, age>>
bounds == <<changes, faults>>
vars == <<rows, shares, allow, condition, probe, call, quarantined, quiet, bounds>>

Stale == MaxAge + MaxLag + 1           \* or never checked
Long == MaxAge + 2 * MaxLag + 1        \* as long as anyone asks
Source(n) == NodeInfo[n].source
Monitored == {n \in Node : Source(n) # None}

ProbeRow == [pc : {"idle", "probing", "report", "dead"}, todo : SUBSET (Node \cup Manager),
             covers : SUBSET Node, good : SUBSET Node, lag : 0 .. MaxLag]
CallRow == [pc : {"idle", "read", "choose", "infer", "over"}, rows : SUBSET Node,
            request : Request \cup {None}, node : Node \cup {None}, lag : 0 .. MaxLag]

\* a call under way has chosen among registered nodes
CallsPlaced ==
  \A c \in Call :
    /\ call[c].rows \subseteq registered
    /\ call[c].pc \in {"infer", "over"} => call[c].node \in registered

TypeOK ==
  /\ registered \subseteq Node /\ healthy \subseteq Node /\ age \in [Node -> 0 .. Stale]
  /\ shares \subseteq Node \X Org /\ allow \subseteq Node /\ condition \in [Node -> Condition]
  /\ probe \in [Prober -> ProbeRow]
  /\ call \in [Call -> CallRow] /\ CallsPlaced
  /\ quarantined \subseteq Node /\ quiet \in [Node -> 0 .. Long]
  /\ changes \in 0 .. MaxChanges /\ faults \in 0 .. MaxFaults

NoProbe == [pc |-> "idle", todo |-> {}, covers |-> {}, good |-> {}, lag |-> 0]
NoCall == [pc |-> "idle", rows |-> {}, request |-> None, node |-> None, lag |-> 0]

Init ==
  /\ registered = {} /\ healthy = {} /\ age = [n \in Node |-> Stale]
  /\ shares = {} /\ allow = {n \in Node : Source(n) \in Manager}
  /\ condition \in [Node -> {"good", "bad"}]
  /\ probe = [p \in Prober |-> NoProbe] /\ call = [c \in Call |-> NoCall]
  /\ quarantined = {} /\ quiet = [n \in Node |-> IF condition[n] = "good" THEN 0 ELSE Long]
  /\ changes = 0 /\ faults = 0

-----------------------------------------------------------------------------
(* The registry.                                                           *)

Listed(n) == Source(n) \in Manager => n \in allow

Change == changes < MaxChanges /\ changes' = changes + 1

\* POST /compute/nodes: only a local node without a health URL starts healthy
Register(n) ==
  /\ n \notin registered
  /\ Listed(n)
  /\ registered' = registered \cup {n}
  /\ healthy' = IF NodeInfo[n].tier = "local_only" /\ Source(n) # "url" THEN healthy \cup {n} ELSE healthy
  /\ UNCHANGED <<age, shares, allow, condition, probe, call, quarantined, quiet, bounds>>

\* grant_share and revoke_share of a registered node
Share(n, o) ==
  /\ n \in registered /\ NodeInfo[n].org # o
  /\ shares' = IF <<n, o>> \in shares THEN shares \ {<<n, o>>} ELSE shares \cup {<<n, o>>}
  /\ Change
  /\ UNCHANGED <<rows, allow, condition, probe, call, quarantined, quiet, faults>>

visible_to(n, o) == NodeInfo[n].org = o \/ <<n, o>> \in shares

-----------------------------------------------------------------------------
(* Probes.                                                                 *)

\* A node that deserves calls as far as its source knows.
Deserving(n) == condition[n] = "good" /\ Listed(n)

\* The node, or its manager's view of it, changes.
Become(n, how) ==
  /\ condition[n] # how
  /\ condition' = [condition EXCEPT ![n] = how]
  /\ quiet' = [quiet EXCEPT ![n] = IF how = "good" /\ Listed(n) THEN 0 ELSE @]
  /\ Change
  /\ UNCHANGED <<rows, shares, allow, probe, call, quarantined, faults>>

\* poll_once: every node with a health URL, then every manager (in any order)
Poll(p) ==
  /\ p = Monitor /\ probe[p].pc = "idle"
  /\ LET todo == {n \in registered : Source(n) = "url"} \cup Manager
     IN  todo # {} /\ probe' = [probe EXCEPT ![p].pc = "probing", ![p].todo = todo]
  /\ UNCHANGED <<rows, shares, allow, condition, call, quarantined, quiet, bounds>>

\* POST /compute/nodes/{node}/probe
probe_node(p, n) ==
  /\ p # Monitor /\ probe[p].pc = "idle" /\ n \in registered \cap Monitored
  /\ probe' = [probe EXCEPT ![p].pc = "probing",
                            ![p].todo = {IF Source(n) = "url" THEN n ELSE Source(n)}]
  /\ Change
  /\ UNCHANGED <<rows, shares, allow, condition, call, quarantined, quiet, faults>>

\* The rows a target's report is about, and which of them it makes healthy.  An
\* approved entry of a manager that is not healthy spoils its whole report; a
\* node missing from it, full, or without its model is unhealthy alone.
Covers(t) ==
  IF t \in Node THEN {t} ELSE {n \in registered : Source(n) = t} \cap allow
Reported_Unchecked(t) == Covers(t)   \* Mutated form: status and slots unread.
Reported(t) ==
  IF t \in Manager /\ \E n \in Covers(t) : condition[n] = "bad" THEN {}
  ELSE {n \in Covers(t) : condition[n] = "good"}

\* the request to the node or the manager is answered, or fails
Observe(p, t) ==
  /\ probe[p].pc = "probing" /\ t \in probe[p].todo
  /\ probe' = [probe EXCEPT ![p] = [pc |-> "report", todo |-> @.todo \ {t}, covers |-> Covers(t),
                                    good |-> Reported(t), lag |-> 0]]
  /\ UNCHANGED <<rows, shares, allow, condition, call, quarantined, quiet, bounds>>

\* Mutated form: last_health_at is not written.
Write_Unstamped(p) ==
  /\ probe[p].pc = "report"
  /\ healthy' = (healthy \ probe[p].covers) \cup probe[p].good
  /\ probe' = [probe EXCEPT ![p] =
       [NoProbe EXCEPT !.pc = IF probe[p].todo = {} THEN "idle" ELSE "probing", !.todo = probe[p].todo]]
  /\ quarantined' = IF p = Monitor THEN quarantined ELSE quarantined \ probe[p].good
  /\ UNCHANGED <<registered, age, shares, allow, condition, call, quiet, bounds>>

\* The report is written with the time of writing.  (The stamp of an unhealthy
\* row is not read.)  An operator's probe is a review of a quarantined node.
Write(p) ==
  /\ probe[p].pc = "report"
  /\ LET covers == probe[p].covers
         good == probe[p].good
     IN  /\ healthy' = (healthy \ covers) \cup good
         /\ age' = [n \in Node |-> IF n \in good THEN 0 ELSE IF n \in covers THEN Stale ELSE age[n]]
         /\ quarantined' = IF p = Monitor THEN quarantined ELSE quarantined \ good
  /\ probe' = [probe EXCEPT ![p] =
       [NoProbe EXCEPT !.pc = IF probe[p].todo = {} THEN "idle" ELSE "probing", !.todo = probe[p].todo]]
  /\ UNCHANGED <<registered, shares, allow, condition, call, quiet, bounds>>

Fault == faults < MaxFaults /\ faults' = faults + 1

\* A statement of a probe fails: run_until has no handler, so the monitor's
\* thread ends; an operator's request is answered with an error.
StoreFails(p) ==
  /\ probe[p].pc # "dead" /\ (p = Monitor \/ probe[p].pc # "idle") /\ Fault
  /\ probe' = [probe EXCEPT ![p] = IF p = Monitor THEN [NoProbe EXCEPT !.pc = "dead"] ELSE NoProbe]
  /\ UNCHANGED <<rows, shares, allow, condition, call, quarantined, quiet, changes>>

\* The daemon dies and starts again, with nodes taken off an allowlist or not;
\* the model proxy is another process and goes on.
Restart(gone) ==
  /\ Fault
  /\ allow' = allow \ gone
  /\ probe' = [p \in Prober |-> NoProbe]
  /\ UNCHANGED <<rows, shares, condition, call, quarantined, quiet, changes>>

-----------------------------------------------------------------------------
(* Placement and calls.                                                    *)

eligible_tiers(privacy) ==
  IF privacy = "repo_sensitive" THEN {"local_only", "private_rented"} ELSE Tier

Preference == <<"local_only", "private_rented", "external">>

\* Mutated form: without the check of last_health_at.
Fresh_Always(n, lag) == n \in Node

\* the last report is within three intervals of the time place started
Fresh(n, lag) == Source(n) # None => age[n] <= MaxAge + lag

\* Mutated form: an allowlisted node takes what it is not allowed.
Admits_Allowlist(n, privacy) ==
  /\ NodeInfo[n].tier \in eligible_tiers(privacy)
  /\ privacy \in NodeInfo[n].allowed

Admits(n, privacy) ==
  /\ NodeInfo[n].tier \in eligible_tiers(privacy)
  /\ privacy \in NodeInfo[n].allowed
  /\ privacy = "secret_sensitive" =>
       n \in Allowlisted \/ (NodeInfo[n].tier = "local_only" /\ NodeInfo[n].airgapped)

\* chat begins: place takes the time it measures freshness from
Begin(c) ==
  /\ call[c].pc = "idle"
  /\ call' = [call EXCEPT ![c].pc = "read"]
  /\ UNCHANGED <<rows, shares, allow, condition, probe, quarantined, quiet, bounds>>

\* the healthy rows are read, with their last_health_at
ReadNodes(c) ==
  /\ call[c].pc = "read"
  /\ LET seen == {n \in registered \cap healthy : Fresh(n, call[c].lag)}
     IN  call' = [call EXCEPT ![c] = [NoCall EXCEPT !.pc = "choose", !.rows = seen]]
  /\ UNCHANGED <<rows, shares, allow, condition, probe, quarantined, quiet, bounds>>

\* Mutated form: no node is no error.
Choose_Silently(c, r) ==
  /\ call[c].pc = "choose"
  /\ LET fit == {n \in call[c].rows : visible_to(n, r.org) /\ Admits(n, r.privacy)}
     IN  call' = [call EXCEPT ![c] =
           [NoCall EXCEPT !.pc = "infer", !.request = r,
                          !.node = IF fit = {} THEN None ELSE CHOOSE n \in fit : TRUE]]
  /\ UNCHANGED <<rows, shares, allow, condition, probe, quarantined, quiet, bounds>>

\* The shares are read and a node of the first tier that has one is returned for
\* the task's organization and privacy class, or the call is refused.
Choose(c, r) ==
  /\ call[c].pc = "choose"
  /\ LET fit == {n \in call[c].rows : visible_to(n, r.org) /\ Admits(n, r.privacy)}
         first == {n \in fit : \A i, j \in 1 .. 3 :
                     i < j /\ NodeInfo[n].tier = Preference[j] => \A o \in fit : NodeInfo[o].tier # Preference[i]}
     IN  \/ fit = {} /\ call' = [call EXCEPT ![c] = NoCall]
         \/ \E n \in first :
               call' = [call EXCEPT ![c] = [NoCall EXCEPT !.pc = "infer", !.request = r, !.node = n]]
  /\ UNCHANGED <<rows, shares, allow, condition, probe, quarantined, quiet, bounds>>

\* the node answers or fails; a paid node may report more than it was admitted for
Infer(c, beyond) ==
  /\ call[c].pc = "infer" /\ (beyond => NodeInfo[call[c].node].paid)
  /\ call' = [call EXCEPT ![c] = IF beyond THEN [@ EXCEPT !.pc = "over"] ELSE NoCall]
  /\ UNCHANGED <<rows, shares, allow, condition, probe, quarantined, quiet, bounds>>

\* "model usage violated the registered token bound"
Quarantine(c) ==
  /\ call[c].pc = "over"
  /\ healthy' = healthy \ {call[c].node}
  /\ age' = [age EXCEPT ![call[c].node] = Stale]
  /\ quarantined' = quarantined \cup {call[c].node}
  /\ call' = [call EXCEPT ![c] = NoCall]
  /\ UNCHANGED <<registered, shares, allow, condition, probe, quiet, bounds>>

Older(a, cap) == IF a < cap THEN a + 1 ELSE cap

\* A tick passes, if no probe is longer between answer and write, and no
\* placement between clock and read, than MaxLag.
Tick ==
  /\ \A p \in Prober : probe[p].pc = "report" => probe[p].lag < MaxLag
  /\ \A c \in Call : call[c].pc = "read" => call[c].lag < MaxLag
  /\ age' = [n \in Node |-> Older(age[n], Stale)]
  /\ quiet' = [n \in Node |-> IF Deserving(n) THEN 0 ELSE Older(quiet[n], Long)]
  /\ probe' = [p \in Prober |-> IF probe[p].pc = "report" THEN [probe[p] EXCEPT !.lag = @ + 1] ELSE probe[p]]
  /\ call' = [c \in Call |-> IF call[c].pc = "read" THEN [call[c] EXCEPT !.lag = @ + 1] ELSE call[c]]
  /\ UNCHANGED <<registered, healthy, shares, allow, condition, quarantined, bounds>>

Probing(p) == Poll(p) \/ Write(p) \/ \E t \in Node \cup Manager : Observe(p, t)

Next ==
  \/ \E n \in Node : Register(n) \/ Restart({n})
  \/ \E n \in Node, o \in Org : Share(n, o)
  \/ \E n \in Node, how \in Conditions : Become(n, how)
  \/ \E p \in Prober : Probing(p) \/ StoreFails(p) \/ \E n \in Node : probe_node(p, n)
  \/ \E c \in Call :
       \/ Begin(c) \/ ReadNodes(c) \/ Quarantine(c)
       \/ \E r \in Request : Choose(c, r)
       \/ \E beyond \in BOOLEAN : Infer(c, beyond)
  \/ Tick

Spec == Init /\ [][Next]_vars

\* The monitor polls for ever while it lives, and placement is not suspended.
FairSpec ==
  /\ Spec /\ WF_vars(Tick)
  /\ \A p \in Prober : WF_vars(Probing(p))
  /\ \A c \in Call : WF_vars(ReadNodes(c))

-----------------------------------------------------------------------------
(* Properties.                                                             *)

\* A call is placed only on a node whose own source found it healthy, and whose
\* allowlist named it, within the last three intervals and the time a probe and
\* a placement take, though the monitor died, probes overlap or the list shrank
\* ("within the last three polling intervals before placement", README).
PlacementIsRecent ==
  [][\A c \in Call : call[c].pc = "read" /\ call'[c].pc = "choose" =>
       \A n \in call'[c].rows \cap Monitored : quiet[n] <= MaxAge + 2 * MaxLag]_vars

\* A secret reaches an air-gapped local node or one an operator has named, a
\* repository no external node, and a task only nodes of its organization or
\* shared with it when the node was chosen (place, visible_to).
PlacedIsPermitted ==
  [][\A c \in Call : call[c].pc = "choose" /\ call'[c].pc = "infer" =>
       LET n == NodeInfo[call'[c].node]
           r == call'[c].request
       IN  /\ r.privacy = "secret_sensitive" /\ call'[c].node \notin Allowlisted =>
                n.airgapped /\ n.tier = "local_only"
           /\ r.privacy = "repo_sensitive" => n.tier # "external"
           /\ n.org # r.org => <<call'[c].node, r.org>> \in shares]_vars

\* A node that stays good, in a report nothing spoils, is offered to calls again
\* and again while the monitor lives, whatever happened to it before.
GoodIsServed ==
  \A n \in Monitored :
    <>[](/\ n \in registered /\ n \in Reported(IF Source(n) = "url" THEN n ELSE Source(n))
         /\ probe[Monitor].pc # "dead")
    => []<>(n \in healthy /\ age[n] <= MaxAge)

\* What a placement relies on: a pending report is as old as its probe, a row that
\* may be placed on is as old as its stamp and the longest probe, only a node's own
\* source is asked, and a node that deserves calls is never counted out.
ReportsAreYoung ==
  \A p \in Prober : probe[p].pc = "report" => \A n \in probe[p].good : quiet[n] <= probe[p].lag
HealthIsVouched ==
  \A n \in Monitored \cap healthy : age[n] < Stale => quiet[n] <= age[n] + MaxLag
OwnSource == \A p \in Prober : \A n \in probe[p].todo \cap Node : Source(n) = "url"
QuietIsTrue == \A n \in Node : Deserving(n) => quiet[n] = 0
NodesInvariant == ReportsAreYoung /\ HealthIsVouched /\ OwnSource /\ QuietIsTrue

\* A node in quarantine ("It quarantines a node if upstream usage exceeds the
\* admitted bound", README) is not offered again until an operator probes it.
QuarantineHolds == quarantined \cap healthy = {}
=============================================================================
