------------------------------- MODULE NodesProofs -------------------------------
(***************************************************************************)
(* A call is placed on a monitored node only if its own source reported it *)
(* healthy within three health intervals and the time the probe and the    *)
(* placement took: for any nodes, managers, probers and calls.             *)
(***************************************************************************)
EXTENDS Nodes, TLAPS

\* Ticks are natural numbers, and those the code compares are below the caps.
LEMMA Ticks ==
  /\ MaxAge \in Nat /\ MaxLag \in Nat /\ Stale \in Nat /\ Long \in Nat
  /\ Stale = MaxAge + MaxLag + 1 /\ Long = MaxAge + 2 * MaxLag + 1
BY NodesAssumption DEF NodesAssumption, Stale, Long

LEMMA OlderType == ASSUME NEW cap \in Nat, NEW a \in 0 .. cap PROVE Older(a, cap) \in 0 .. cap
BY DEF Older

\* What the actions write has the type of the row it is written to.
LEMMA NoProbeType == NoProbe \in ProbeRow
BY Ticks DEF NoProbe, ProbeRow

LEMMA NoCallType == NoCall \in CallRow
BY Ticks DEF NoCall, CallRow

LEMMA TypeInit == Init => TypeOK
<1> SUFFICES ASSUME Init PROVE TypeOK
  OBVIOUS
<1>1. condition \in [Node -> Condition]
  BY DEF Init, Condition
<1>2. quiet \in [Node -> 0 .. Long] /\ age \in [Node -> 0 .. Stale]
  BY Ticks DEF Init
<1>3. probe \in [Prober -> ProbeRow] /\ call \in [Call -> CallRow]
  BY NoProbeType, NoCallType DEF Init
<1>4. CallsPlaced
  BY DEF Init, CallsPlaced, NoCall
<1>5. changes \in 0 .. MaxChanges /\ faults \in 0 .. MaxFaults
  BY NodesAssumption DEF NodesAssumption, Init
<1> QED
  BY <1>1, <1>2, <1>3, <1>4, <1>5 DEF Init, TypeOK

\* A call's rows stay registered when calls do not move.
LEMMA PlacedKept ==
  ASSUME CallsPlaced, registered \subseteq registered', call' = call PROVE CallsPlaced'
BY DEF CallsPlaced

LEMMA TypeStep == TypeOK /\ [Next]_vars => TypeOK'
<1> SUFFICES ASSUME TypeOK, [Next]_vars PROVE TypeOK'
  OBVIOUS
<1> USE DEF TypeOK
<1>0. MaxChanges \in Nat /\ MaxFaults \in Nat
  BY NodesAssumption DEF NodesAssumption
<1>1. ASSUME NEW n \in Node, Register(n) PROVE TypeOK'
  BY <1>1, PlacedKept DEF Register, bounds
<1>2. ASSUME NEW n \in Node, Restart({n}) PROVE TypeOK'
  BY <1>2, <1>0, PlacedKept, NoProbeType DEF Restart, Fault, rows
<1>3. ASSUME NEW n \in Node, NEW o \in Org, Share(n, o) PROVE TypeOK'
  BY <1>3, <1>0, PlacedKept DEF Share, Change, rows
<1>4. ASSUME NEW n \in Node, NEW how \in Conditions, Become(n, how) PROVE TypeOK'
  <2>1. condition' \in [Node -> Condition] /\ quiet' \in [Node -> 0 .. Long]
    BY <1>4, Ticks, NodesAssumption DEF Become, NodesAssumption
  <2> QED
    BY <2>1, <1>4, <1>0, PlacedKept DEF Become, Change, rows
<1>5. ASSUME NEW p \in Prober, Poll(p) PROVE TypeOK'
  <2> PICK todo \in SUBSET (Node \cup Manager) :
        probe' = [probe EXCEPT ![p].pc = "probing", ![p].todo = todo]
    BY <1>5 DEF Poll
  <2>1. probe' \in [Prober -> ProbeRow]
    BY DEF ProbeRow
  <2> QED
    BY <2>1, <1>5, PlacedKept DEF Poll, rows, bounds
<1>6. ASSUME NEW p \in Prober, NEW n \in Node, probe_node(p, n) PROVE TypeOK'
  <2> DEFINE t == IF Source(n) = "url" THEN n ELSE Source(n)
  <2>1. t \in Node \cup Manager
    BY <1>6, NodesAssumption DEF probe_node, Monitored, Source, NodesAssumption
  <2> HIDE DEF t
  <2>2. probe' = [probe EXCEPT ![p].pc = "probing", ![p].todo = {t}]
    BY <1>6 DEF probe_node, t
  <2>3. probe' \in [Prober -> ProbeRow]
    BY <2>1, <2>2 DEF ProbeRow
  <2> QED
    BY <2>3, <1>6, <1>0, PlacedKept DEF probe_node, Change, rows
<1>7. ASSUME NEW p \in Prober, NEW t \in Node \cup Manager, Observe(p, t) PROVE TypeOK'
  <2>1. Covers(t) \subseteq Node /\ Reported(t) \subseteq Node
    BY DEF Covers, Reported
  <2>2. probe[p].todo \ {t} \subseteq Node \cup Manager
    BY DEF ProbeRow
  <2>3. [pc |-> "report", todo |-> probe[p].todo \ {t}, covers |-> Covers(t), good |-> Reported(t),
         lag |-> 0] \in ProbeRow
    BY <2>1, <2>2, Ticks DEF ProbeRow
  <2> QED
    BY <2>3, <1>7, PlacedKept DEF Observe, rows, bounds
<1>8. ASSUME NEW p \in Prober, Write(p) PROVE TypeOK'
  <2>0. probe[p].covers \subseteq Node /\ probe[p].good \subseteq Node
    BY DEF ProbeRow
  <2>1. healthy' \subseteq Node /\ age' \in [Node -> 0 .. Stale] /\ quarantined' \subseteq Node
    BY <2>0, <1>8, Ticks DEF Write
  <2>2. [NoProbe EXCEPT !.pc = IF probe[p].todo = {} THEN "idle" ELSE "probing",
                        !.todo = probe[p].todo] \in ProbeRow
    BY NoProbeType DEF ProbeRow
  <2> QED
    BY <2>1, <2>2, <1>8, PlacedKept DEF Write, bounds
<1>9. ASSUME NEW p \in Prober, StoreFails(p) PROVE TypeOK'
  <2>1. [NoProbe EXCEPT !.pc = "dead"] \in ProbeRow
    BY NoProbeType DEF ProbeRow
  <2> QED
    BY <2>1, NoProbeType, <1>9, <1>0, PlacedKept DEF StoreFails, Fault, rows
<1>10. ASSUME NEW c \in Call, NEW row \in CallRow, call' = [call EXCEPT ![c] = row],
              row.rows \subseteq registered,
              row.pc \in {"infer", "over"} => row.node \in registered,
              registered' = registered
       PROVE  call' \in [Call -> CallRow] /\ CallsPlaced'
  BY <1>10 DEF CallsPlaced
<1>11. ASSUME NEW c \in Call, Begin(c) PROVE TypeOK'
  <2>1. [call[c] EXCEPT !.pc = "read"] \in CallRow
    BY DEF CallRow
  <2>2. call' \in [Call -> CallRow] /\ CallsPlaced'
    BY <2>1, <1>10, <1>11 DEF Begin, CallsPlaced, CallRow, rows
  <2> QED
    BY <2>2, <1>11 DEF Begin, rows, bounds
<1>12. ASSUME NEW c \in Call, ReadNodes(c) PROVE TypeOK'
  <2> PICK seen \in SUBSET registered : call' = [call EXCEPT ![c] = [NoCall EXCEPT !.pc = "choose", !.rows = seen]]
    BY <1>12 DEF ReadNodes
  <2>1. [NoCall EXCEPT !.pc = "choose", !.rows = seen] \in CallRow
    BY NoCallType DEF CallRow
  <2>2. call' \in [Call -> CallRow] /\ CallsPlaced'
    BY <2>1, <1>10, <1>12 DEF ReadNodes, NoCall, rows
  <2> QED
    BY <2>2, <1>12 DEF ReadNodes, rows, bounds
<1>13. ASSUME NEW c \in Call, call' = [call EXCEPT ![c] = NoCall], registered' = registered
       PROVE  call' \in [Call -> CallRow] /\ CallsPlaced'
  BY <1>13, <1>10, NoCallType DEF NoCall
<1>14. ASSUME NEW c \in Call, NEW r \in Request, Choose(c, r) PROVE TypeOK'
  <2>1. call' \in [Call -> CallRow] /\ CallsPlaced'
    <3>1. CASE call' = [call EXCEPT ![c] = NoCall]
      BY <3>1, <1>13, <1>14 DEF Choose, rows
    <3>2. ASSUME NEW n \in call[c].rows,
                 call' = [call EXCEPT ![c] = [NoCall EXCEPT !.pc = "infer", !.request = r, !.node = n]]
          PROVE  call' \in [Call -> CallRow] /\ CallsPlaced'
      <4>1. n \in registered /\ n \in Node
        BY <3>2 DEF CallsPlaced
      <4>2. [NoCall EXCEPT !.pc = "infer", !.request = r, !.node = n] \in CallRow
        BY <4>1, NoCallType DEF CallRow
      <4> QED
        BY <3>2, <4>1, <4>2, <1>10, <1>14 DEF Choose, NoCall, rows
    <3> QED
      BY <3>1, <3>2, <1>14 DEF Choose
  <2> QED
    BY <2>1, <1>14 DEF Choose, rows, bounds
<1>15. ASSUME NEW c \in Call, NEW beyond \in BOOLEAN, Infer(c, beyond) PROVE TypeOK'
  <2>1. call[c].node \in registered /\ call[c].rows \subseteq registered
    BY <1>15 DEF Infer, CallsPlaced
  <2>2. [call[c] EXCEPT !.pc = "over"] \in CallRow
    BY DEF CallRow
  <2>3. call' \in [Call -> CallRow] /\ CallsPlaced'
    BY <2>1, <2>2, <1>10, <1>13, <1>15 DEF Infer, CallRow, rows
  <2> QED
    BY <2>3, <1>15 DEF Infer, rows, bounds
<1>16. ASSUME NEW c \in Call, Quarantine(c) PROVE TypeOK'
  <2>1. call[c].node \in Node
    BY <1>16 DEF Quarantine, CallsPlaced
  <2>2. call' \in [Call -> CallRow] /\ CallsPlaced'
    BY <1>13, <1>16 DEF Quarantine
  <2>3. healthy' \subseteq Node /\ age' \in [Node -> 0 .. Stale] /\ quarantined' \subseteq Node
    BY <2>1, <1>16, Ticks DEF Quarantine
  <2> QED
    BY <2>2, <2>3, <1>16 DEF Quarantine, bounds
<1>17. ASSUME Tick PROVE TypeOK'
  <2>1. age' \in [Node -> 0 .. Stale] /\ quiet' \in [Node -> 0 .. Long]
    BY <1>17, Ticks, OlderType DEF Tick
  <2>2. ASSUME NEW p \in Prober, probe[p].pc = "report" PROVE [probe[p] EXCEPT !.lag = @ + 1] \in ProbeRow
    <3>1. probe[p] \in ProbeRow /\ probe[p].lag \in 0 .. MaxLag /\ probe[p].lag < MaxLag
      BY <1>17, <2>2 DEF Tick, ProbeRow
    <3>2. probe[p].lag + 1 \in 0 .. MaxLag
      BY <3>1, Ticks
    <3> QED
      BY <3>1, <3>2 DEF ProbeRow
  <2>3. ASSUME NEW c \in Call, call[c].pc = "read" PROVE [call[c] EXCEPT !.lag = @ + 1] \in CallRow
    <3>1. call[c] \in CallRow /\ call[c].lag \in 0 .. MaxLag /\ call[c].lag < MaxLag
      BY <1>17, <2>3 DEF Tick, CallRow
    <3>2. call[c].lag + 1 \in 0 .. MaxLag
      BY <3>1, Ticks
    <3> QED
      BY <3>1, <3>2 DEF CallRow
  <2>4. probe' \in [Prober -> ProbeRow] /\ call' \in [Call -> CallRow]
    BY <1>17, <2>2, <2>3 DEF Tick
  <2>5. CallsPlaced'
    BY <1>17 DEF Tick, CallsPlaced, CallRow
  <2> QED
    BY <2>1, <2>4, <2>5, <1>17 DEF Tick, bounds
<1>18. CASE UNCHANGED vars
  BY <1>18, PlacedKept DEF vars, rows, bounds
<1> QED
  BY <1>1, <1>2, <1>3, <1>4, <1>5, <1>6, <1>7, <1>8, <1>9, <1>11, <1>12, <1>14, <1>15, <1>16, <1>17, <1>18
  DEF Next, Probing

\* Every row, probe and call keeps its type.
THEOREM TypeCorrect == Spec => []TypeOK
<1>1. Init => TypeOK
  BY TypeInit
<1>2. TypeOK /\ [Next]_vars => TypeOK'
  BY TypeStep
<1> QED
  BY <1>1, <1>2, PTL DEF Spec

-----------------------------------------------------------------------------
(* The age of what a placement relies on.                                  *)

LEMMA InvariantInit == Init => NodesInvariant
<1> SUFFICES ASSUME Init PROVE NodesInvariant
  OBVIOUS
<1>1. ReportsAreYoung /\ OwnSource
  BY DEF Init, NoProbe, ReportsAreYoung, OwnSource
<1>2. HealthIsVouched /\ QuietIsTrue
  BY DEF Init, HealthIsVouched, QuietIsTrue, Deserving
<1> QED
  BY <1>1, <1>2 DEF NodesInvariant

\* A report is about nodes their own source has just called good.
LEMMA ReportIsOwn ==
  ASSUME NEW t \in Node \cup Manager, t \in Node => Source(t) = "url", NEW n \in Reported(t)
  PROVE  Deserving(n)
<1>1. CASE t \in Manager
  <2>1. n \in allow /\ condition[n] = "good"
    BY <1>1, NodesAssumption DEF NodesAssumption, Reported, Covers
  <2> QED
    BY <2>1 DEF Deserving, Listed
<1>2. CASE t \in Node
  <2>1. t \notin Manager /\ Source(t) \notin Manager
    BY <1>2, NodesAssumption DEF NodesAssumption
  <2>2. n = t /\ condition[n] = "good"
    BY <1>2, <2>1 DEF Reported, Covers
  <2> QED
    BY <2>1, <2>2 DEF Deserving, Listed
<1> QED
  BY <1>1, <1>2

\* The invariant is kept by steps that touch neither probes nor health, nor make
\* a node deserving.
LEMMA InvariantKept ==
  ASSUME NodesInvariant, UNCHANGED <<probe, healthy, age, quiet, condition, allow>>
  PROVE  NodesInvariant'
<1>1. ReportsAreYoung' /\ OwnSource'
  BY DEF NodesInvariant, ReportsAreYoung, OwnSource
<1>2. HealthIsVouched' /\ QuietIsTrue'
  BY DEF NodesInvariant, HealthIsVouched, QuietIsTrue, Deserving, Listed
<1> QED
  BY <1>1, <1>2 DEF NodesInvariant

\* In a tick every age grows by one until its cap, and so does every lag.
LEMMA TickKeeps == ASSUME TypeOK, NodesInvariant, Tick PROVE NodesInvariant'
<1>1. ASSUME NEW n \in Node PROVE /\ quiet[n] \in Nat /\ age[n] \in Nat /\ age[n] <= Stale
                                  /\ quiet'[n] <= quiet[n] + 1
                                  /\ age'[n] < Stale => age'[n] = age[n] + 1
  <2>1. quiet[n] \in 0 .. Long /\ age[n] \in 0 .. Stale
    BY DEF TypeOK
  <2>2. quiet'[n] \in {0, Older(quiet[n], Long)} /\ age'[n] = Older(age[n], Stale)
    BY DEF Tick
  <2> QED
    BY <2>1, <2>2, Ticks DEF Older
<1>2. ReportsAreYoung'
  <2> SUFFICES ASSUME NEW p \in Prober, probe'[p].pc = "report", NEW n \in probe'[p].good
               PROVE  quiet'[n] <= probe'[p].lag
    BY DEF ReportsAreYoung
  <2>1. probe[p] \in ProbeRow
    BY DEF TypeOK
  <2>2. probe[p].pc = "report" /\ probe'[p] = [probe[p] EXCEPT !.lag = @ + 1]
    BY <2>1 DEF Tick, TypeOK, ProbeRow
  <2>3. probe'[p].lag = probe[p].lag + 1 /\ n \in probe[p].good /\ n \in Node /\ probe[p].lag \in Nat
    BY <2>1, <2>2, Ticks DEF ProbeRow
  <2>4. quiet[n] <= probe[p].lag
    BY <2>2, <2>3 DEF NodesInvariant, ReportsAreYoung
  <2>5. quiet'[n] \in Int
    BY TypeStep, <2>3, Ticks DEF Next, TypeOK
  <2> QED
    BY <2>3, <2>4, <2>5, <1>1
<1>3. HealthIsVouched'
  <2> SUFFICES ASSUME NEW n \in Monitored, n \in healthy, age'[n] < Stale
               PROVE  quiet'[n] <= age'[n] + MaxLag
    BY DEF HealthIsVouched, Tick
  <2>1. n \in Node
    BY DEF Monitored
  <2>2. age'[n] = age[n] + 1 /\ age[n] < Stale
    BY <1>1, <2>1, Ticks
  <2>3. quiet[n] <= age[n] + MaxLag
    BY <2>2 DEF NodesInvariant, HealthIsVouched
  <2>4. quiet'[n] \in Int
    BY TypeStep, <2>1, Ticks DEF Next, TypeOK
  <2> QED
    BY <1>1, <2>1, <2>2, <2>3, <2>4, Ticks
<1>4. OwnSource'
  BY DEF Tick, NodesInvariant, OwnSource, TypeOK, ProbeRow
<1>5. QuietIsTrue'
  BY DEF Tick, QuietIsTrue, Deserving, Listed
<1> QED
  BY <1>2, <1>3, <1>4, <1>5 DEF NodesInvariant

LEMMA InvariantStep == TypeOK /\ NodesInvariant /\ [Next]_vars => NodesInvariant'
<1> SUFFICES ASSUME TypeOK, NodesInvariant, [Next]_vars PROVE NodesInvariant'
  OBVIOUS
<1>1. ASSUME NEW n \in Node, Register(n) PROVE NodesInvariant'
  <2>1. \A m \in Monitored \cap healthy' : m \in healthy
    BY <1>1, NodesAssumption DEF Register, Monitored, Source, NodesAssumption
  <2>2. HealthIsVouched'
    BY <2>1, <1>1 DEF Register, NodesInvariant, HealthIsVouched
  <2> QED
    BY <2>2, <1>1 DEF Register, NodesInvariant, ReportsAreYoung, OwnSource, QuietIsTrue, Deserving, Listed
<1>2. ASSUME NEW n \in Node, Restart({n}) PROVE NodesInvariant'
  <2>1. ReportsAreYoung' /\ OwnSource'
    BY <1>2 DEF Restart, NoProbe, ReportsAreYoung, OwnSource
  <2>2. HealthIsVouched' /\ QuietIsTrue'
    BY <1>2 DEF Restart, rows, NodesInvariant, HealthIsVouched, QuietIsTrue, Deserving, Listed
  <2> QED
    BY <2>1, <2>2 DEF NodesInvariant
<1>3. ASSUME NEW n \in Node, NEW o \in Org, Share(n, o) PROVE NodesInvariant'
  BY <1>3, InvariantKept DEF Share, rows
<1>4. ASSUME NEW n \in Node, NEW how \in Conditions, Become(n, how) PROVE NodesInvariant'
  <2>1. \A m \in Node : quiet'[m] = quiet[m] \/ quiet'[m] = 0
    BY <1>4 DEF Become, TypeOK
  <2>2. \A m \in Node : quiet[m] \in Nat /\ age[m] \in Nat
    BY Ticks DEF TypeOK
  <2>3. HealthIsVouched'
    BY <1>4, <2>1, <2>2, Ticks DEF Become, rows, NodesInvariant, HealthIsVouched, Monitored
  <2>4. ReportsAreYoung'
    <3> SUFFICES ASSUME NEW p \in Prober, probe[p].pc = "report", NEW m \in probe[p].good
                 PROVE  quiet'[m] <= probe[p].lag
      BY <1>4 DEF Become, ReportsAreYoung
    <3>1. m \in Node /\ probe[p].lag \in Nat
      BY Ticks DEF TypeOK, ProbeRow
    <3> QED
      BY <3>1, <2>1, <2>2 DEF NodesInvariant, ReportsAreYoung
  <2>5. QuietIsTrue'
    BY <1>4 DEF Become, NodesInvariant, QuietIsTrue, Deserving, Listed, TypeOK
  <2>6. OwnSource'
    BY <1>4 DEF Become, NodesInvariant, OwnSource
  <2> QED
    BY <2>3, <2>4, <2>5, <2>6 DEF NodesInvariant
<1>5. ASSUME NEW p \in Prober, UNCHANGED <<healthy, age, quiet, condition, allow>>,
             NEW row \in ProbeRow, probe' = [probe EXCEPT ![p] = row],
             row.pc = "report" => \A n \in row.good : quiet[n] <= row.lag,
             \A n \in row.todo \cap Node : Source(n) = "url"
      PROVE  NodesInvariant'
  <2>1. ReportsAreYoung' /\ OwnSource'
    BY <1>5 DEF NodesInvariant, ReportsAreYoung, OwnSource, TypeOK
  <2>2. HealthIsVouched' /\ QuietIsTrue'
    BY <1>5 DEF NodesInvariant, HealthIsVouched, QuietIsTrue, Deserving, Listed
  <2> QED
    BY <2>1, <2>2 DEF NodesInvariant
<1>6. ASSUME NEW p \in Prober, NEW todo \in SUBSET (Node \cup Manager),
             probe' = [probe EXCEPT ![p].pc = "probing", ![p].todo = todo],
             UNCHANGED <<healthy, age, quiet, condition, allow>>,
             \A n \in todo \cap Node : Source(n) = "url"
      PROVE  NodesInvariant'
  <2> DEFINE row == [probe[p] EXCEPT !.pc = "probing", !.todo = todo]
  <2>1. row \in ProbeRow /\ row.pc = "probing" /\ row.todo = todo
    BY DEF TypeOK, ProbeRow
  <2>2. probe' = [probe EXCEPT ![p] = row]
    BY <1>6
  <2> HIDE DEF row
  <2> QED
    BY <2>1, <2>2, <1>5, <1>6
<1>7. ASSUME NEW p \in Prober, Poll(p) PROVE NodesInvariant'
  <2> DEFINE todo == {n \in registered : Source(n) = "url"} \cup Manager
  <2>1. todo \in SUBSET (Node \cup Manager) /\ \A n \in todo \cap Node : Source(n) = "url"
    BY NodesAssumption DEF NodesAssumption, TypeOK
  <2>2. probe' = [probe EXCEPT ![p].pc = "probing", ![p].todo = todo]
    BY <1>7 DEF Poll
  <2> HIDE DEF todo
  <2> QED
    BY <2>1, <2>2, <1>6, <1>7 DEF Poll, rows
<1>8. ASSUME NEW p \in Prober, NEW n \in Node, probe_node(p, n) PROVE NodesInvariant'
  <2> DEFINE t == IF Source(n) = "url" THEN n ELSE Source(n)
  <2>1. t \in Node \cup Manager /\ (t \in Node => Source(t) = "url")
    BY <1>8, NodesAssumption DEF probe_node, Monitored, Source, NodesAssumption
  <2>2. probe' = [probe EXCEPT ![p].pc = "probing", ![p].todo = {t}]
    BY <1>8 DEF probe_node
  <2> HIDE DEF t
  <2>3. {t} \in SUBSET (Node \cup Manager) /\ \A m \in {t} \cap Node : Source(m) = "url"
    BY <2>1
  <2>4. UNCHANGED <<healthy, age, quiet, condition, allow>>
    BY <1>8 DEF probe_node, rows
  <2> QED
    BY <2>2, <2>3, <2>4, <1>6
<1>9. ASSUME NEW p \in Prober, NEW t \in Node \cup Manager, Observe(p, t) PROVE NodesInvariant'
  <2> DEFINE row == [pc |-> "report", todo |-> probe[p].todo \ {t}, covers |-> Covers(t),
                     good |-> Reported(t), lag |-> 0]
  <2>1. Covers(t) \subseteq Node /\ Reported(t) \subseteq Node /\ probe[p].todo \subseteq Node \cup Manager
    BY DEF Covers, Reported, TypeOK, ProbeRow
  <2>2. row \in ProbeRow
    BY <2>1, Ticks DEF ProbeRow
  <2>3. \A n \in row.todo \cap Node : Source(n) = "url"
    BY DEF NodesInvariant, OwnSource
  <2>4. t \in Node => Source(t) = "url"
    BY <1>9 DEF Observe, NodesInvariant, OwnSource
  <2>5. \A n \in row.good : quiet[n] <= row.lag
    BY <2>1, <2>4, ReportIsOwn DEF NodesInvariant, QuietIsTrue
  <2>6. probe' = [probe EXCEPT ![p] = row]
    BY <1>9 DEF Observe
  <2> HIDE DEF row
  <2> QED
    BY <2>2, <2>3, <2>5, <2>6, <1>5, <1>9 DEF Observe, rows
<1>10. ASSUME NEW p \in Prober, Write(p) PROVE NodesInvariant'
  <2> DEFINE row == [NoProbe EXCEPT !.pc = IF probe[p].todo = {} THEN "idle" ELSE "probing",
                                    !.todo = probe[p].todo]
  <2>1. row.pc # "report" /\ row.todo = probe[p].todo
    BY DEF NoProbe
  <2>2. probe' = [probe EXCEPT ![p] = row]
    BY <1>10 DEF Write
  <2> HIDE DEF row
  <2>3. ReportsAreYoung' /\ OwnSource'
    BY <2>1, <2>2, <1>10 DEF Write, NodesInvariant, ReportsAreYoung, OwnSource, TypeOK
  <2>4. HealthIsVouched'
    <3> SUFFICES ASSUME NEW n \in Monitored, n \in healthy', age'[n] < Stale
                 PROVE  quiet[n] <= age'[n] + MaxLag
      BY <1>10 DEF Write, HealthIsVouched
    <3>1. n \in Node
      BY DEF Monitored
    <3>2. CASE n \in probe[p].good
      <4>1. age'[n] = 0 /\ quiet[n] <= probe[p].lag /\ probe[p].pc = "report"
        BY <1>10, <3>1, <3>2 DEF Write, NodesInvariant, ReportsAreYoung
      <4>2. probe[p].lag \in 0 .. MaxLag /\ quiet[n] \in 0 .. Long
        BY <3>1 DEF TypeOK, ProbeRow
      <4> QED
        BY <4>1, <4>2, Ticks
    <3>3. CASE n \notin probe[p].good
      <4>1. n \in healthy /\ age'[n] = age[n]
        BY <1>10, <3>1, <3>3 DEF Write
      <4> QED
        BY <4>1 DEF NodesInvariant, HealthIsVouched
    <3> QED
      BY <3>2, <3>3
  <2>5. QuietIsTrue'
    BY <1>10 DEF Write, NodesInvariant, QuietIsTrue, Deserving, Listed
  <2> QED
    BY <2>3, <2>4, <2>5 DEF NodesInvariant
<1>11. ASSUME NEW p \in Prober, StoreFails(p) PROVE NodesInvariant'
  <2>1. PICK row \in {NoProbe, [NoProbe EXCEPT !.pc = "dead"]} : probe' = [probe EXCEPT ![p] = row]
    BY <1>11 DEF StoreFails
  <2>2. row \in ProbeRow /\ row.pc # "report" /\ row.todo = {}
    BY <2>1, NoProbeType DEF NoProbe, ProbeRow
  <2> QED
    BY <2>1, <2>2, <1>5, <1>11 DEF StoreFails, rows
<1>12. ASSUME NEW c \in Call, \/ Begin(c) \/ ReadNodes(c)
                              \/ \E r \in Request : Choose(c, r)
                              \/ \E beyond \in BOOLEAN : Infer(c, beyond)
       PROVE  NodesInvariant'
  BY <1>12, InvariantKept DEF Begin, ReadNodes, Choose, Infer, rows
<1>13. ASSUME NEW c \in Call, Quarantine(c) PROVE NodesInvariant'
  <2>1. HealthIsVouched'
    BY <1>13 DEF Quarantine, NodesInvariant, HealthIsVouched, TypeOK
  <2>2. ReportsAreYoung' /\ OwnSource' /\ QuietIsTrue'
    BY <1>13 DEF Quarantine, NodesInvariant, ReportsAreYoung, OwnSource, QuietIsTrue, Deserving, Listed
  <2> QED
    BY <2>1, <2>2 DEF NodesInvariant
<1>14. CASE Tick
  BY <1>14, TickKeeps
<1>15. CASE UNCHANGED vars
  BY <1>15, InvariantKept DEF vars, rows
<1> QED
  BY <1>1, <1>2, <1>3, <1>4, <1>7, <1>8, <1>9, <1>10, <1>11, <1>12, <1>13, <1>14, <1>15
  DEF Next, Probing

\* What a placement relies on: reports are as old as their probes, rows as old as
\* their stamps and the longest probe, and every report is its own source's.
THEOREM InvariantHolds == Spec => []NodesInvariant
<1>1. Init => TypeOK /\ NodesInvariant
  BY TypeInit, InvariantInit
<1>2. TypeOK /\ NodesInvariant /\ [Next]_vars => (TypeOK /\ NodesInvariant)'
  BY TypeStep, InvariantStep
<1> QED
  BY <1>1, <1>2, PTL DEF Spec

\* For any number of nodes, managers, probes and calls, a call is placed only on
\* nodes found healthy within three intervals and what a probe and a placement
\* take (compute.py's check of last_health_at).
THEOREM PlacedWhileVouched == Spec => PlacementIsRecent
<1>1. TypeOK /\ NodesInvariant /\ [Next]_vars =>
        [\A c \in Call : call[c].pc = "read" /\ call'[c].pc = "choose" =>
           \A n \in call'[c].rows \cap Monitored : quiet[n] <= MaxAge + 2 * MaxLag]_vars
  <2> SUFFICES ASSUME TypeOK, NodesInvariant, Next, NEW c \in Call,
                      call[c].pc = "read", call'[c].pc = "choose",
                      NEW n \in call'[c].rows \cap Monitored
               PROVE  quiet[n] <= MaxAge + 2 * MaxLag
    OBVIOUS
  <2>0. call \in [Call -> CallRow] /\ call'[c] # call[c]
    BY DEF TypeOK
  <2>1. ReadNodes(c)
    <3>1. ASSUME NEW d \in Call, Begin(d) \/ Quarantine(d) PROVE FALSE
      BY <2>0, <3>1 DEF Begin, Quarantine, NoCall
    <3>2. ASSUME NEW d \in Call, NEW beyond \in BOOLEAN, Infer(d, beyond) PROVE FALSE
      BY <2>0, <3>2 DEF Infer, NoCall
    <3>3. ASSUME NEW d \in Call, NEW r \in Request, Choose(d, r) PROVE FALSE
      BY <2>0, <3>3 DEF Choose, NoCall
    <3>4. ASSUME NEW d \in Call, ReadNodes(d) PROVE d = c
      BY <2>0, <3>4 DEF ReadNodes
    <3>5. ASSUME Tick PROVE FALSE
      BY <2>0, <3>5 DEF Tick, CallRow
    <3>6. call' # call
      BY <2>0
    <3> QED
      BY <3>1, <3>2, <3>3, <3>4, <3>5, <3>6
      DEF Next, Probing, Register, Restart, Share, Become, Poll, Observe, Write, StoreFails, probe_node
  <2>2. n \in Node /\ n \in healthy /\ age[n] <= MaxAge + call[c].lag
    BY <2>0, <2>1 DEF ReadNodes, Fresh, Monitored, Source, NoCall
  <2>3. call[c].lag \in 0 .. MaxLag /\ age[n] \in 0 .. Stale /\ quiet[n] \in 0 .. Long
    BY <2>0, <2>2 DEF TypeOK, CallRow
  <2>4. quiet[n] <= age[n] + MaxLag
    BY <2>2, <2>3, Ticks DEF NodesInvariant, HealthIsVouched
  <2> QED
    BY <2>2, <2>3, <2>4, Ticks
<1> QED
  BY <1>1, TypeCorrect, InvariantHolds, PTL DEF Spec, PlacementIsRecent

\* The test the code makes of a node says what the README promises of privacy.
LEMMA AdmittedIsPrivate ==
  ASSUME NEW n, NEW privacy, Admits(n, privacy)
  PROVE  /\ privacy = "secret_sensitive" /\ n \notin Allowlisted =>
              NodeInfo[n].airgapped /\ NodeInfo[n].tier = "local_only"
         /\ privacy = "repo_sensitive" => NodeInfo[n].tier # "external"
BY DEF Admits, eligible_tiers

\* For any registry, shares and requests, and whatever is registered, shared or
\* withdrawn between the reads of a placement, the node a call gets is permitted
\* for its privacy class and its organization (place, visible_to).
THEOREM PlacedWherePermitted == Spec => PlacedIsPermitted
<1>1. TypeOK /\ [Next]_vars =>
        [\A c \in Call : call[c].pc = "choose" /\ call'[c].pc = "infer" =>
           LET n == NodeInfo[call'[c].node]
               r == call'[c].request
           IN  /\ r.privacy = "secret_sensitive" /\ call'[c].node \notin Allowlisted =>
                    n.airgapped /\ n.tier = "local_only"
               /\ r.privacy = "repo_sensitive" => n.tier # "external"
               /\ n.org # r.org => <<call'[c].node, r.org>> \in shares]_vars
  <2> SUFFICES ASSUME TypeOK, Next, NEW c \in Call,
                      call[c].pc = "choose", call'[c].pc = "infer"
               PROVE  /\ call'[c].request.privacy = "secret_sensitive"
                           /\ call'[c].node \notin Allowlisted =>
                              /\ NodeInfo[call'[c].node].airgapped
                              /\ NodeInfo[call'[c].node].tier = "local_only"
                      /\ call'[c].request.privacy = "repo_sensitive" =>
                           NodeInfo[call'[c].node].tier # "external"
                      /\ NodeInfo[call'[c].node].org # call'[c].request.org =>
                           <<call'[c].node, call'[c].request.org>> \in shares
    OBVIOUS
  <2>0. call \in [Call -> CallRow] /\ call'[c] # call[c]
    BY DEF TypeOK
  <2>1. \E r \in Request : Choose(c, r)
    <3>1. ASSUME NEW d \in Call, Begin(d) \/ ReadNodes(d) \/ Quarantine(d) PROVE FALSE
      BY <2>0, <3>1 DEF Begin, ReadNodes, Quarantine, NoCall
    <3>2. ASSUME NEW d \in Call, NEW beyond \in BOOLEAN, Infer(d, beyond) PROVE FALSE
      BY <2>0, <3>2 DEF Infer, NoCall
    <3>3. ASSUME NEW d \in Call, NEW r \in Request, Choose(d, r) PROVE d = c
      BY <2>0, <3>3 DEF Choose
    <3>4. ASSUME Tick PROVE FALSE
      BY <2>0, <3>4 DEF Tick
    <3>5. call' # call
      BY <2>0
    <3> QED
      BY <3>1, <3>2, <3>3, <3>4, <3>5
      DEF Next, Probing, Register, Restart, Share, Become, Poll, Observe, Write, StoreFails, probe_node
  <2>2. PICK r \in Request : Choose(c, r)
    BY <2>1
  <2>3. PICK n \in Node : /\ visible_to(n, r.org) /\ Admits(n, r.privacy)
                          /\ call' = [call EXCEPT ![c] =
                               [NoCall EXCEPT !.pc = "infer", !.request = r, !.node = n]]
    <3>1. PICK n : /\ n \in call[c].rows /\ visible_to(n, r.org) /\ Admits(n, r.privacy)
                   /\ call' = [call EXCEPT ![c] =
                        [NoCall EXCEPT !.pc = "infer", !.request = r, !.node = n]]
      <4>1. call' # [call EXCEPT ![c] = NoCall]
        BY <2>0 DEF NoCall
      <4> QED
        BY <2>2, <4>1 DEF Choose
    <3>2. call[c].rows \subseteq Node
      BY <2>0 DEF CallRow
    <3> QED
      BY <3>1, <3>2
  <2>4. call'[c].request = r /\ call'[c].node = n
    BY <2>0, <2>3 DEF NoCall
  <2> QED
    BY <2>3, <2>4, AdmittedIsPrivate DEF visible_to
<1> QED
  BY <1>1, TypeCorrect, PTL DEF Spec, PlacedIsPermitted
=============================================================================
