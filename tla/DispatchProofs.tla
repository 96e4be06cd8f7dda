---------------------------- MODULE DispatchProofs ----------------------------
(***************************************************************************)
(* Proofs about Dispatch, for any number of dispatchers, workers, tasks    *)
(* and steps, any tree and any timeouts the slacks leave room for, and     *)
(* about the Router it walks the tree with.                                *)
(***************************************************************************)
EXTENDS Dispatch, TLAPS

-----------------------------------------------------------------------------
(* Whatever the tree in the registry and whatever the classifier answers,  *)
(* a resolved route is a path of the tree.  Nothing is assumed of the      *)
(* tree: it may loop, skip a hop number or dangle.                         *)

OptionsOf(tree) ==
  UNION {{tree.nodes[n].options[k] : k \in DOMAIN tree.nodes[n].options} :
           n \in DOMAIN tree.nodes}

HopRecord(tree) == [node : DOMAIN tree.nodes, option : OptionsOf(tree)]

\* one recorded hop
SoundHop(tree, answers, h, number) ==
  /\ h.node \in DOMAIN tree.nodes
  /\ tree.nodes[h.node].hop = number
  /\ \E k \in DOMAIN tree.nodes[h.node].options :
       h.option = tree.nodes[h.node].options[k]
  /\ answers[h.node].confident
  /\ h.option.id = answers[h.node].choice

\* where the next hop starts
Standing(tree, r) ==
  IF r.hops = <<>> THEN r.at = tree.root
  ELSE r.hops[1].node = tree.root /\ r.at = r.hops[Len(r.hops)].option.next

\* what a walk that is not denied keeps true after at most k hops
SoundWalk(tree, answers, r, k) ==
  /\ r.status \in {"walking", "resolved"}
  /\ r.hops \in Seq(HopRecord(tree))
  /\ Len(r.hops) <= k
  /\ \A i \in 1..Len(r.hops) : SoundHop(tree, answers, r.hops[i], i)
  /\ \A i \in 1 .. Len(r.hops) - 1 : r.hops[i + 1].node = r.hops[i].option.next
  /\ \A i \in 1..Len(r.hops) :
       r.hops[i].option.next = Leaf <=> i = Len(r.hops) /\ r.status = "resolved"
  /\ r.status = "resolved" => Len(r.hops) >= 2
  /\ Standing(tree, r)

\* The loop starts sound.
LEMMA StartIsSound ==
  ASSUME NEW tree, NEW answers
  PROVE  SoundWalk(tree, answers, Start(tree), 0)
PROOF BY DEF SoundWalk, Standing, Start

\* One hop keeps the walk sound, or denies it.
LEMMA HopIsSound ==
  ASSUME NEW tree, NEW answers, NEW r, NEW k \in Nat,
         SoundWalk(tree, answers, r, k),
         NEW r2, r2 = Hop(tree, answers, r), r2.status # "denied"
  PROVE  SoundWalk(tree, answers, r2, k + 1)
<1>1. CASE r.status # "walking"
  <2>1. r2 = r
    BY <1>1 DEF Hop
  <2> QED
    BY <2>1 DEF SoundWalk
<1>2. CASE r.status = "walking"
  <2> DEFINE node == tree.nodes[r.at]
             option == Chosen(node, answers[r.at])
             new == [node |-> r.at, option |-> option]
             hops == Append(r.hops, new)
             n == Len(r.hops)
  <2>1. Passable(tree, answers, r)
    BY <1>2 DEF Hop, Denied
  <2>2. /\ r2 = [status |-> IF option.next = Leaf THEN "resolved" ELSE "walking",
                 at |-> option.next, hops |-> hops]
        /\ option.next = Leaf => Len(hops) >= 2
    BY <1>2, <2>1 DEF Hop, Denied
  <2>3. PICK i \in DOMAIN node.options : Matches(node, answers[r.at]) = {i}
    BY <2>1 DEF Passable
  <2>4. option = node.options[i] /\ option.id = answers[r.at].choice
    BY <2>3 DEF Chosen, Matches
  <2>5. new \in HopRecord(tree) /\ SoundHop(tree, answers, new, n + 1)
    <3>1. option \in OptionsOf(tree)
      BY <2>1, <2>4 DEF OptionsOf, Passable
    <3> QED
      BY <2>1, <2>4, <3>1 DEF HopRecord, SoundHop, Passable
  <2>6. /\ r.hops \in Seq(HopRecord(tree)) /\ n \in Nat /\ n <= k
        /\ \A j \in 1..n : SoundHop(tree, answers, r.hops[j], j)
        /\ \A j \in 1 .. n - 1 : r.hops[j + 1].node = r.hops[j].option.next
        /\ \A j \in 1..n : r.hops[j].option.next # Leaf
        /\ Standing(tree, r)
    BY <1>2 DEF SoundWalk
  <2> HIDE DEF new, option, node
  <2>7. /\ hops \in Seq(HopRecord(tree)) /\ Len(hops) = n + 1
        /\ hops[n + 1] = new /\ \A j \in 1..n : hops[j] = r.hops[j]
    BY <2>5, <2>6
  <2>8. new.node = r.at /\ new.option = option
    BY DEF new
  <2> HIDE DEF hops, n
  <2>9. r2.hops = hops /\ r2.at = option.next
        /\ r2.status = IF option.next = Leaf THEN "resolved" ELSE "walking"
    BY <2>2
  <2>10. \A j \in 1 .. n + 1 : SoundHop(tree, answers, hops[j], j)
    BY <2>5, <2>6, <2>7
  <2>11. \A j \in 1..n : hops[j + 1].node = hops[j].option.next
    <3>1. ASSUME NEW j \in 1..n, j < n  PROVE hops[j + 1].node = hops[j].option.next
      BY <3>1, <2>6, <2>7
    <3>2. ASSUME n \in 1..n  PROVE hops[n + 1].node = hops[n].option.next
      BY <3>2, <2>6, <2>7, <2>8 DEF Standing, n
    <3> QED
      BY <3>1, <3>2, <2>6
  <2>12. \A j \in 1 .. n + 1 :
           hops[j].option.next = Leaf <=> j = n + 1 /\ r2.status = "resolved"
    BY <2>6, <2>7, <2>8, <2>9
  <2>13. Standing(tree, r2)
    BY <2>6, <2>7, <2>8, <2>9 DEF Standing, n
  <2> QED
    BY <2>2, <2>6, <2>7, <2>9, <2>10, <2>11, <2>12, <2>13 DEF SoundWalk
<1> QED
  BY <1>1, <1>2

\* A denied walk stays denied.
LEMMA DeniedStays ==
  ASSUME NEW tree, NEW answers, NEW r, r.status = "denied"
  PROVE  Hop(tree, answers, r).status = "denied"
PROOF BY DEF Hop

\* A resolved route is a path of the registry's tree: it starts at the root,
\* goes by the tree's own links over two or three distinct nodes, and ends in
\* the leaf whose tool the worker gets; at every node of it the classifier was
\* sure of the option taken (traverse, TypedDecisionRouter.route).
THEOREM RouteIsPath ==
  ASSUME NEW tree, NEW answers, NEW r, r = Decide(tree, answers),
         r.status = "resolved"
  PROVE  /\ IsPath(tree, r.hops)
         /\ FollowsAnswers(answers, r.hops)
         /\ LeafOf(r).next = Leaf
<1> DEFINE r0 == Start(tree)
           r1 == Hop(tree, answers, r0)
           r2 == Hop(tree, answers, r1)
           r3 == Hop(tree, answers, r2)
<1>1. r = r3 /\ r3.status = "resolved"
  BY DEF Decide, Traverse, Denied
<1>2. r1.status # "denied" /\ r2.status # "denied" /\ r3.status # "denied"
  BY <1>1, DeniedStays
<1>3. SoundWalk(tree, answers, r3, 3)
  <2>1. SoundWalk(tree, answers, r0, 0)
    BY StartIsSound
  <2> HIDE DEF r0
  <2>2. SoundWalk(tree, answers, r1, 1)
    BY <2>1, <1>2, HopIsSound, 0 \in Nat, 0 + 1 = 1
  <2> HIDE DEF r1
  <2>3. SoundWalk(tree, answers, r2, 2)
    BY <2>2, <1>2, HopIsSound, 1 \in Nat, 1 + 1 = 2
  <2> HIDE DEF r2
  <2> QED
    BY <2>3, <1>2, HopIsSound, 2 \in Nat, 2 + 1 = 3
<1> HIDE DEF r3
<1>4. SoundWalk(tree, answers, r, 3) /\ r.status = "resolved"
  BY <1>1, <1>3
<1>5. Len(r.hops) \in 2..3 /\ Standing(tree, r) /\ r.hops # <<>>
  <2>1. /\ r.hops \in Seq(HopRecord(tree)) /\ Len(r.hops) <= 3 /\ Len(r.hops) >= 2
        /\ Standing(tree, r)
    BY <1>4 DEF SoundWalk
  <2>2. Len(r.hops) \in Nat
    BY <2>1
  <2>3. r.hops # <<>>
    <3>1. Len(<<>>) = 0
      OBVIOUS
    <3> QED
      BY <2>1, <3>1
  <2>4. ASSUME NEW n \in Nat, n <= 3, n >= 2  PROVE n \in 2..3
    BY <2>4
  <2>5. Len(r.hops) \in 2..3
    BY <2>1, <2>2, <2>4, Zenon
  <2> QED
    BY <2>1, <2>3, <2>5
<1>6. \A i, j \in 1..Len(r.hops) : i # j => r.hops[i].node # r.hops[j].node
  BY <1>4 DEF SoundWalk, SoundHop
<1>7. IsPath(tree, r.hops)
  <2>1. r.hops[1].node = tree.root
    BY <1>5 DEF Standing
  <2>2. \A i \in 1..Len(r.hops) :
          /\ r.hops[i].node \in DOMAIN tree.nodes
          /\ \E k \in DOMAIN tree.nodes[r.hops[i].node].options :
               r.hops[i].option = tree.nodes[r.hops[i].node].options[k]
    BY <1>4 DEF SoundWalk, SoundHop
  <2>3. /\ \A i \in 1 .. Len(r.hops) - 1 : r.hops[i + 1].node = r.hops[i].option.next
        /\ \A i \in 1..Len(r.hops) : r.hops[i].option.next = Leaf <=> i = Len(r.hops)
    BY <1>4 DEF SoundWalk
  <2> QED
    BY <1>5, <1>6, <2>1, <2>2, <2>3 DEF IsPath, MaxHops
<1>8. FollowsAnswers(answers, r.hops)
  BY <1>4 DEF SoundWalk, SoundHop, FollowsAnswers
<1>9. LeafOf(r).next = Leaf
  BY <1>5, <1>7 DEF IsPath, LeafOf
<1> QED
  BY <1>7, <1>8, <1>9

-----------------------------------------------------------------------------
(* What a dispatcher carries, and what its worker may still do.            *)

\* the step is leased to d's worker for at least n ticks more
HeldFor(d, n) ==
  /\ steps[req[d].step].status = "claimed"
  /\ steps[req[d].step].token = req[d].worker
  /\ steps[req[d].step].ttl >= n

\* what a dispatcher carries from one request to the next
Carried(d) ==
  /\ pc[d] = "idle" => req[d] = NoReq
  /\ pc[d] # "idle" =>
       /\ req[d].by \in Caller /\ req[d].task \in Task /\ req[d].step \in Step
       /\ req[d].worker \in Token /\ req[d].timeout \in Timeouts
  /\ pc[d] \notin {"launch", "run"} => req[d].clock = 0
  /\ pc[d] \in {"claim", "launch"} => req[d].tool \in Usable
  /\ pc[d] \in {"session", "route", "claim", "launch"} =>
       runs[req[d].worker].state = "none"
  /\ pc[d] \in {"route", "claim", "launch", "run", "complete"} =>
       sessions[req[d].worker].task # None
  /\ pc[d] \in {"route", "claim", "launch"} =>
       sessions[req[d].worker].left <= req[d].timeout + SessionSlack - req[d].clock

\* how much of its lease it still has
Leased(d) ==
  /\ pc[d] = "launch" =>
       /\ req[d].clock <= ReplyLag
       /\ HeldFor(d, req[d].timeout + LeaseSlack - req[d].clock)
  /\ pc[d] = "run" =>
       /\ req[d].clock <= req[d].timeout
       /\ HeldFor(d, req[d].timeout - req[d].clock + LeaseSlack - ReplyLag)

\* what it knows of its worker's end
Reported(d) ==
  /\ pc[d] = "run" => runs[req[d].worker].state \in {"running", "over"}
  /\ pc[d] = "complete" =>
       /\ req[d].outcome \in {"done", "failed"}
       /\ req[d].outcome = "done" =>
            /\ runs[req[d].worker].state = "over"
            /\ runs[req[d].worker].report = "completed"

\* where its tool comes from
Routed(d) ==
  req[d].tree # None =>
    /\ pc[d] = "claim"
    /\ IsPath(req[d].tree, req[d].path)
    /\ req[d].tool = req[d].path[Len(req[d].path)].option.tool

Ready(d) == Carried(d) /\ Leased(d) /\ Reported(d) /\ Routed(d)

\* a worker process, supervised or not
Lingers(w) ==
  /\ runs[w].state # "none" => sessions[w].task # None
  /\ runs[w].state = "running" =>
       /\ runs[w].step \in Step /\ runs[w].tool \in Tool /\ runs[w].turns < MaxTurns
       /\ sessions[w].left > 0 =>
            sessions[w].left <= runs[w].lease + (SessionSlack - LeaseSlack)

\* no two dispatchers ever drive one worker
OwnWorker(d, e) ==
  d # e /\ pc[d] # "idle" /\ pc[e] # "idle" => req[d].worker # req[e].worker

DispatchInvariant ==
  /\ TypeOK
  /\ \A d \in Dispatcher : Ready(d)
  /\ \A d, e \in Dispatcher : OwnWorker(d, e)
  /\ \A w \in Token : Lingers(w)

-----------------------------------------------------------------------------
(* Frames: who a step leaves alone.                                        *)

\* A dispatcher whose own request, worker, session and leased step a step of
\* the system leaves alone stays ready.
LEMMA ReadyKept ==
  ASSUME NEW d, Ready(d), pc'[d] = pc[d], req'[d] = req[d],
         pc[d] # "idle" => /\ runs'[req[d].worker] = runs[req[d].worker]
                           /\ sessions'[req[d].worker] = sessions[req[d].worker],
         pc[d] \in {"launch", "run"} => steps'[req[d].step] = steps[req[d].step]
  PROVE  Ready(d)'
<1>1. Carried(d)'
  BY DEF Ready, Carried
<1>2. Leased(d)'
  BY DEF Ready, Leased, HeldFor
<1>3. Reported(d)'
  BY DEF Ready, Reported
<1>4. Routed(d)'
  BY DEF Ready, Routed
<1> QED
  BY <1>1, <1>2, <1>3, <1>4 DEF Ready

\* A dispatcher that gives up holds nothing.
LEMMA ReadyIdle ==
  ASSUME NEW d, pc'[d] = "idle", req'[d] = NoReq
  PROVE  Ready(d)'
<1>1. req'[d].clock = 0 /\ req'[d].tree = None
  BY DEF NoReq
<1> QED
  BY <1>1 DEF Ready, Carried, Leased, Reported, Routed

\* A worker whose process and session a step leaves alone lingers as before.
LEMMA LingersKept ==
  ASSUME NEW w, Lingers(w), runs'[w] = runs[w], sessions'[w] = sessions[w]
  PROVE  Lingers(w)'
PROOF BY DEF Lingers

\* Only a fresh worker has no session.
LEMMA FreshWorker ==
  ASSUME DispatchInvariant, NEW w \in Token, sessions[w] = NoSession
  PROVE  runs[w].state = "none"
PROOF BY DEF DispatchInvariant, Lingers, NoSession

\* The slack left at the start and during a run is positive.
LEMMA SlackLeft ==
  ASSUME NEW n \in Timeouts
  PROVE  /\ n \in Nat /\ n > 0 /\ n < MaxLease /\ MaxLease \in Nat
         /\ ReplyLag \in Nat /\ LeaseSlack \in Nat /\ SessionSlack \in Nat
         /\ ReplyLag < LeaseSlack /\ LeaseSlack <= SessionSlack
         /\ n + LeaseSlack <= MaxLease /\ n + SessionSlack <= MaxSession
         /\ MaxSession \in Nat
         /\ LeaseFor(n) = n + LeaseSlack /\ SessionFor(n) = n + SessionSlack
<1>1. /\ n \in Nat /\ n > 0 /\ MaxLease \in Nat /\ MaxSession \in Nat
      /\ ReplyLag \in Nat /\ LeaseSlack \in Nat /\ SessionSlack \in Nat
      /\ ReplyLag < LeaseSlack /\ LeaseSlack <= SessionSlack
      /\ n + LeaseSlack <= MaxLease /\ n + SessionSlack <= MaxSession
  BY SlackAssumption, TaskRowsAssumption, AuthAssumption
<1> QED
  BY <1>1 DEF LeaseFor, SessionFor

\* A leased step is nobody else's to claim.
LEMMA LeasedNotClaimable ==
  ASSUME NEW d \in Dispatcher, TypeOK, Carried(d), Leased(d),
         pc[d] \in {"launch", "run"}
  PROVE  /\ steps[req[d].step].ttl > 0
         /\ ~Ledger!Claimable(steps[req[d].step], 0)
<1>1. req[d].timeout \in Timeouts /\ req[d].step \in Step
  BY DEF Carried
<1>2. steps[req[d].step].ttl \in Int /\ req[d].clock \in Int
  BY <1>1, TaskRowsAssumption
    DEF TypeOK, StepRow, Ttl, LongExpired, Request
<1> QED
  BY <1>1, <1>2, SlackLeft DEF Leased, HeldFor, Ledger!Claimable

\* A step that moves one dispatcher, and touches no other's worker, session or
\* leased step, keeps every other ready.
LEMMA OthersReady ==
  ASSUME DispatchInvariant, NEW d \in Dispatcher, NEW e \in Dispatcher, e # d,
         pc'[e] = pc[e], req'[e] = req[e],
         \A w \in Token : (pc[d] # "idle" => w # req[d].worker)
                            => runs'[w] = runs[w] /\ sessions'[w] = sessions[w],
         pc[e] \in {"launch", "run"} => steps'[req[e].step] = steps[req[e].step]
  PROVE  Ready(e)'
<1>1. Ready(e) /\ Carried(e) /\ OwnWorker(d, e)
  BY DEF DispatchInvariant, Ready
<1>2. pc[e] # "idle" => /\ req[e].worker \in Token
                        /\ pc[d] # "idle" => req[e].worker # req[d].worker
  BY <1>1 DEF Carried, OwnWorker
<1> QED
  BY <1>1, <1>2, ReadyKept

-----------------------------------------------------------------------------
(* One lemma per action.                                                   *)

LEMMA InitReady == Init => DispatchInvariant
<1> SUFFICES ASSUME Init PROVE DispatchInvariant
  OBVIOUS
<1>1. TypeOK
  <2>1. AuthTypeOK
    <3>1. NoUser \in [org : Org \cup {None}, role : DOMAIN Rank, active : BOOLEAN]
      BY DEF NoUser, Rank
    <3>2. NoSession \in [task : Task \cup {None}, left : 0..MaxSession]
      BY AuthAssumption DEF NoSession
    <3> QED
      BY <3>1, <3>2 DEF Init, AuthInit, AuthTypeOK
  <2>2. tasks \in [Task -> TaskRow] /\ steps \in [Step -> StepRow]
    BY DispatchAssumption, TaskRowsAssumption
      DEF Init, TaskRow, StepRow, NewTask, Pending, Ttl, LongExpired
  <2>3. pc \in [Dispatcher -> Place] /\ setting \in Settings
    BY DEF Init, Place
  <2>4. req \in [Dispatcher -> Request]
    <3>1. <<>> \in Paths
      BY DEF Paths
    <3> QED
      BY <3>1, TaskRowsAssumption DEF Init, NoReq, Request
  <2>5. runs \in [Token -> Run]
    BY TaskRowsAssumption, SlackAssumption, DispatchAssumption
      DEF Init, NoRun, Run, Stale
  <2> QED
    BY <2>1, <2>2, <2>3, <2>4, <2>5 DEF TypeOK
<1>2. \A d \in Dispatcher : Ready(d)
  BY DEF Init, NoReq, Ready, Carried, Leased, Reported, Routed
<1>3. \A d, e \in Dispatcher : OwnWorker(d, e)
  BY DEF Init, OwnWorker
<1>4. \A w \in Token : Lingers(w)
  BY DEF Init, NoRun, Lingers
<1> QED
  BY <1>1, <1>2, <1>3, <1>4 DEF DispatchInvariant

\* Operators come and go: no dispatcher's own state changes.
LEMMA OperatorsKeep ==
  ASSUME DispatchInvariant, Operators, UNCHANGED <<tables, setting, pc, req, runs>>
  PROVE  DispatchInvariant'
<1>1. UNCHANGED sessions
  BY DEF Operators, Genesis, RevokeOperator, CreateOperator
<1>2. AuthTypeOK'
  <2>1. AuthTypeOK
    BY DEF DispatchInvariant, TypeOK
  <2>2. CASE Genesis
    BY <2>1, <2>2 DEF AuthTypeOK, Genesis
  <2>3. ASSUME NEW who \in Caller, NEW u \in User, RevokeOperator(who, u)
        PROVE  AuthTypeOK'
    BY <2>1, <2>3 DEF AuthTypeOK, RevokeOperator
  <2>4. ASSUME NEW who \in Caller, NEW u \in User, NEW org \in Org, NEW role \in Role,
               CreateOperator(who, u, org, role)
        PROVE  AuthTypeOK'
    BY <2>1, <2>4, AuthAssumption DEF AuthTypeOK, CreateOperator
  <2> QED
    BY <2>2, <2>3, <2>4 DEF Operators
<1>3. TypeOK'
  BY <1>2 DEF DispatchInvariant, TypeOK, tables
<1>4. \A d \in Dispatcher : Ready(d)'
  BY <1>1, ReadyKept DEF DispatchInvariant, tables
<1>5. \A w \in Token : Lingers(w)'
  BY <1>1, LingersKept DEF DispatchInvariant
<1>6. \A d, e \in Dispatcher : OwnWorker(d, e)'
  BY DEF DispatchInvariant, OwnWorker
<1> QED
  BY <1>3, <1>4, <1>5, <1>6 DEF DispatchInvariant

LEMMA RunStepKeeps ==
  ASSUME DispatchInvariant, NEW d \in Dispatcher, NEW by \in Caller, NEW t \in Task,
         NEW s \in Step, NEW w \in Token, NEW n \in Timeouts,
         RunStep(d, by, t, s, w, n)
  PROVE  DispatchInvariant'
<1>1. /\ pc'[d] = "session"
      /\ \A e \in Dispatcher : e # d => pc'[e] = pc[e] /\ req'[e] = req[e]
      /\ UNCHANGED <<tasks, steps, setting, runs, users, genesis, sessions>>
      /\ Unused(w)
  BY DEF RunStep, Goto, tables, authVars, DispatchInvariant, TypeOK
<1>2. /\ req'[d].by = by /\ req'[d].task = t /\ req'[d].step = s
      /\ req'[d].worker = w /\ req'[d].timeout = n
      /\ req'[d].clock = 0 /\ req'[d].tree = None
  <2>1. req[d].clock = 0 /\ req[d].tree = None
    BY DEF RunStep, DispatchInvariant, Ready, Carried, NoReq
  <2> QED
    BY <2>1 DEF RunStep, DispatchInvariant, TypeOK, Request
<1>3. TypeOK'
  <2>1. pc' \in [Dispatcher -> Place]
    BY DEF RunStep, Goto, Place, DispatchInvariant, TypeOK
  <2>2. req[d] \in Request /\ req \in [Dispatcher -> Request]
    BY DEF DispatchInvariant, TypeOK
  <2> DEFINE r == [req[d] EXCEPT !.by = by, !.task = t, !.step = s, !.worker = w,
                                 !.timeout = n]
  <2>3. r \in Request
    <3>1. [req[d] EXCEPT !.by = by] \in Request
      BY <2>2 DEF Request
    <3>2. [req[d] EXCEPT !.by = by, !.task = t] \in Request
      BY <3>1 DEF Request
    <3>3. [req[d] EXCEPT !.by = by, !.task = t, !.step = s] \in Request
      BY <3>2 DEF Request
    <3>4. [req[d] EXCEPT !.by = by, !.task = t, !.step = s, !.worker = w] \in Request
      BY <3>3 DEF Request
    <3> QED
      BY <3>4 DEF Request
  <2>4. req' = [req EXCEPT ![d] = r]
    BY <2>2 DEF RunStep
  <2>5. req' \in [Dispatcher -> Request]
    BY <2>2, <2>3, <2>4
  <2> QED
    BY <1>1, <2>1, <2>5 DEF DispatchInvariant, TypeOK, AuthTypeOK
<1>4. \A e \in Dispatcher : Ready(e)'
  <2>1. Ready(d)'
    <3>1. runs[w].state = "none"
      BY <1>1, FreshWorker DEF Unused
    <3> QED
      BY <1>1, <1>2, <3>1 DEF Ready, Carried, Leased, Reported, Routed
  <2>2. ASSUME NEW e \in Dispatcher, e # d PROVE Ready(e)'
    BY <1>1, <2>2, ReadyKept DEF DispatchInvariant
  <2> QED
    BY <2>1, <2>2
<1>5. \A e, f \in Dispatcher : OwnWorker(e, f)'
  BY <1>1, <1>2 DEF DispatchInvariant, OwnWorker, Unused
<1>6. \A v \in Token : Lingers(v)'
  BY <1>1, LingersKept DEF DispatchInvariant
<1> QED
  BY <1>3, <1>4, <1>5, <1>6 DEF DispatchInvariant

LEMMA IssueSessionKeeps ==
  ASSUME DispatchInvariant, NEW d \in Dispatcher, IssueSession(d)
  PROVE  DispatchInvariant'
<1> DEFINE r == req[d]
           new == [task |-> r.task, left |-> SessionFor(r.timeout)]
<1>1. /\ pc[d] = "session" /\ pc'[d] = "route" /\ req' = req
      /\ \A e \in Dispatcher : e # d => pc'[e] = pc[e]
      /\ UNCHANGED <<tasks, steps, setting, runs, users, genesis>>
      /\ sessions[r.worker] = NoSession
      /\ sessions' = [sessions EXCEPT ![r.worker] = new]
      /\ pc' = [pc EXCEPT ![d] = "route"]
  BY DEF IssueSession, IssueWorker, Goto, tables, DispatchInvariant, TypeOK
<1>2. Carried(d) /\ Routed(d) /\ TypeOK
  BY DEF DispatchInvariant, Ready
<1>3. r.worker \in Token /\ r.task \in Task /\ r.timeout \in Timeouts /\ r.clock = 0
      /\ runs[r.worker].state = "none" /\ r.tree = None
  BY <1>1, <1>2 DEF Carried, Routed
<1>4. new \in [task : Task \cup {None}, left : 0..MaxSession]
      /\ new.task # None /\ new.left = r.timeout + SessionSlack
  BY <1>3, SlackLeft, TaskRowsAssumption
<1>5. sessions'[r.worker] = new
      /\ \A w \in Token : w # r.worker => sessions'[w] = sessions[w]
  BY <1>1, <1>2, <1>3 DEF TypeOK, AuthTypeOK
<1>6. TypeOK'
  <2>1. sessions' \in [Token -> [task : Task \cup {None}, left : 0..MaxSession]]
    BY <1>1, <1>2, <1>4 DEF TypeOK, AuthTypeOK
  <2> QED
    BY <1>1, <1>2, <2>1 DEF TypeOK, AuthTypeOK, Place
<1>7. \A e \in Dispatcher : Ready(e)'
  <2>1. Ready(d)'
    <3>1. r.timeout + SessionSlack <= r.timeout + SessionSlack - 0
      BY <1>3, SlackLeft
    <3> QED
      BY <1>1, <1>2, <1>3, <1>4, <1>5, <3>1
        DEF Ready, Carried, Leased, Reported, Routed
  <2>2. ASSUME NEW e \in Dispatcher, e # d PROVE Ready(e)'
    BY <1>1, <1>3, <1>5, <2>2, OthersReady
  <2> QED
    BY <2>1, <2>2
<1>8. \A e, f \in Dispatcher : OwnWorker(e, f)'
  BY <1>1 DEF DispatchInvariant, OwnWorker
<1>9. ASSUME NEW w \in Token PROVE Lingers(w)'
  <2>1. CASE w = r.worker
    BY <1>1, <1>3, <2>1 DEF Lingers
  <2>2. CASE w # r.worker
    BY <1>1, <1>5, <2>2, LingersKept DEF DispatchInvariant
  <2> QED
    BY <2>1, <2>2
<1> QED
  BY <1>6, <1>7, <1>8, <1>9 DEF DispatchInvariant

\* Giving up, as Abandon does it, with the task's row changed or not.
LEMMA GivingUpKeeps ==
  ASSUME DispatchInvariant, NEW d \in Dispatcher,
         pc' = [pc EXCEPT ![d] = "idle"], req' = [req EXCEPT ![d] = NoReq],
         tasks' \in [Task -> TaskRow],
         UNCHANGED <<steps, setting, runs, users, genesis, sessions>>
  PROVE  DispatchInvariant'
<1>1. /\ pc'[d] = "idle" /\ req'[d] = NoReq
      /\ \A e \in Dispatcher : e # d => pc'[e] = pc[e] /\ req'[e] = req[e]
  BY DEF DispatchInvariant, TypeOK
<1>2. TypeOK'
  <2>1. NoReq \in Request
    <3>1. <<>> \in Paths
      BY DEF Paths
    <3> QED
      BY <3>1, TaskRowsAssumption DEF NoReq, Request
  <2>2. pc' \in [Dispatcher -> Place] /\ req' \in [Dispatcher -> Request]
    BY <2>1 DEF Place, DispatchInvariant, TypeOK
  <2> QED
    BY <2>2 DEF DispatchInvariant, TypeOK, AuthTypeOK
<1>3. \A e \in Dispatcher : Ready(e)'
  <2>1. Ready(d)'
    BY <1>1, ReadyIdle
  <2>2. ASSUME NEW e \in Dispatcher, e # d PROVE Ready(e)'
    BY <1>1, <2>2, ReadyKept DEF DispatchInvariant
  <2> QED
    BY <2>1, <2>2
<1>4. \A e, f \in Dispatcher : OwnWorker(e, f)'
  BY <1>1 DEF DispatchInvariant, OwnWorker
<1>5. \A w \in Token : Lingers(w)'
  BY LingersKept DEF DispatchInvariant
<1> QED
  BY <1>2, <1>3, <1>4, <1>5 DEF DispatchInvariant

LEMMA AbandonKeeps ==
  ASSUME DispatchInvariant, NEW d \in Dispatcher, Abandon(d)
  PROVE  DispatchInvariant'
<1>1. tasks' \in [Task -> TaskRow]
  BY DEF Abandon, tables, DispatchInvariant, TypeOK
<1> QED
  BY <1>1, GivingUpKeeps DEF Abandon, Goto, tables, authVars

\* Going on to the claim with a usable tool, found by routing or named.
LEMMA ToolKeeps ==
  ASSUME DispatchInvariant, NEW d \in Dispatcher, pc[d] = "route",
         pc' = [pc EXCEPT ![d] = "claim"],
         req' \in [Dispatcher -> Request],
         \A e \in Dispatcher : e # d => req'[e] = req[e],
         /\ req'[d].by = req[d].by /\ req'[d].task = req[d].task
         /\ req'[d].step = req[d].step /\ req'[d].worker = req[d].worker
         /\ req'[d].timeout = req[d].timeout /\ req'[d].clock = req[d].clock,
         req'[d].tool \in Usable,
         req'[d].tree # None =>
           /\ IsPath(req'[d].tree, req'[d].path)
           /\ req'[d].tool = req'[d].path[Len(req'[d].path)].option.tool,
         tasks' \in [Task -> TaskRow],
         UNCHANGED <<steps, setting, runs, users, genesis, sessions>>
  PROVE  DispatchInvariant'
<1>1. pc'[d] = "claim" /\ \A e \in Dispatcher : e # d => pc'[e] = pc[e]
  BY DEF DispatchInvariant, TypeOK
<1>2. TypeOK'
  BY DEF Place, DispatchInvariant, TypeOK, AuthTypeOK
<1>3. \A e \in Dispatcher : Ready(e)'
  <2>1. Ready(d)'
    BY <1>1 DEF DispatchInvariant, Ready, Carried, Leased, Reported, Routed
  <2>2. ASSUME NEW e \in Dispatcher, e # d PROVE Ready(e)'
    BY <1>1, <2>2, ReadyKept DEF DispatchInvariant
  <2> QED
    BY <2>1, <2>2
<1>4. \A e, f \in Dispatcher : OwnWorker(e, f)'
  BY <1>1 DEF DispatchInvariant, OwnWorker
<1>5. \A w \in Token : Lingers(w)'
  BY LingersKept DEF DispatchInvariant
<1> QED
  BY <1>2, <1>3, <1>4, <1>5 DEF DispatchInvariant

LEMMA NamedToolKeeps ==
  ASSUME DispatchInvariant, NEW d \in Dispatcher, NEW tool \in Usable,
         NamedTool(d, tool)
  PROVE  DispatchInvariant'
<1>1. /\ pc[d] = "route" /\ pc' = [pc EXCEPT ![d] = "claim"]
      /\ req' = [req EXCEPT ![d].tool = tool]
      /\ UNCHANGED <<tasks, steps, setting, runs, users, genesis, sessions>>
  BY DEF NamedTool, Prepared, Goto, tables, authVars
<1>2. TypeOK /\ Routed(d) /\ tool \in Tool
  BY DispatchAssumption DEF DispatchInvariant, Ready
<1>3. req' \in [Dispatcher -> Request]
  BY <1>1, <1>2 DEF TypeOK, Request
<1>4. /\ \A e \in Dispatcher : e # d => req'[e] = req[e]
      /\ req'[d].by = req[d].by /\ req'[d].task = req[d].task
      /\ req'[d].step = req[d].step /\ req'[d].worker = req[d].worker
      /\ req'[d].timeout = req[d].timeout /\ req'[d].clock = req[d].clock
      /\ req'[d].tool = tool /\ req'[d].tree = req[d].tree
  BY <1>1, <1>2 DEF TypeOK, Request
<1>5. req'[d].tree = None
  BY <1>1, <1>2, <1>4 DEF Routed
<1>6. tasks' \in [Task -> TaskRow]
  BY <1>1, <1>2 DEF TypeOK
<1> QED
  BY <1>1, <1>3, <1>4, <1>5, <1>6, ToolKeeps

LEMMA RouteAutoKeeps ==
  ASSUME DispatchInvariant, NEW d \in Dispatcher, NEW tree \in Trees,
         RouteAuto(d, tree)
  PROVE  DispatchInvariant'
<1>1. /\ pc[d] = "route" /\ TypeOK /\ Carried(d)
      /\ UNCHANGED <<steps, setting, runs, users, genesis, sessions>>
  BY DEF RouteAuto, Prepared, authVars, DispatchInvariant, Ready
<1>2. req[d].task \in Task
  BY <1>1 DEF Carried
<1>3. tasks' \in [Task -> TaskRow]
  BY <1>1, <1>2 DEF RouteAuto, TypeOK, TaskRow
<1>4. PICK r \in Walks[tree] :
        \/ pc' = [pc EXCEPT ![d] = "idle"] /\ req' = [req EXCEPT ![d] = NoReq]
        \/ /\ r.status = "resolved" /\ LeafOf(r).tool \in Usable
           /\ pc' = [pc EXCEPT ![d] = "claim"]
           /\ req' = [req EXCEPT ![d].tool = LeafOf(r).tool, ![d].tree = tree,
                                 ![d].path = r.hops]
  BY DEF RouteAuto, Goto
<1>5. CASE pc' = [pc EXCEPT ![d] = "idle"] /\ req' = [req EXCEPT ![d] = NoReq]
  BY <1>1, <1>3, <1>5, GivingUpKeeps
<1>6. CASE /\ r.status = "resolved" /\ LeafOf(r).tool \in Usable
           /\ pc' = [pc EXCEPT ![d] = "claim"]
           /\ req' = [req EXCEPT ![d].tool = LeafOf(r).tool, ![d].tree = tree,
                                 ![d].path = r.hops]
  <2>1. IsPath(tree, r.hops)
    <3>1. PICK answers \in [DOMAIN tree.nodes -> Answer] : r = Decide(tree, answers)
      BY DEF Walks
    <3> QED
      BY <3>1, <1>6, RouteIsPath
  <2>2. r.hops \in Paths
    BY DEF Paths
  <2>3. LeafOf(r).tool \in Tool
    BY <1>6, DispatchAssumption
  <2> DEFINE leaf == LeafOf(r).tool
  <2>4. leaf = r.hops[Len(r.hops)].option.tool
    BY DEF LeafOf
  <2> HIDE DEF leaf
  <2>5. req' = [req EXCEPT ![d].tool = leaf, ![d].tree = tree, ![d].path = r.hops]
    BY <1>6 DEF leaf
  <2>6. leaf \in Tool /\ leaf \in Usable
    BY <1>6, <2>3 DEF leaf
  <2>7. req' \in [Dispatcher -> Request]
    <3> DEFINE r1 == [req[d] EXCEPT !.tool = leaf]
               r2 == [r1 EXCEPT !.tree = tree]
               r3 == [r2 EXCEPT !.path = r.hops]
    <3>1. req[d] \in Request /\ req \in [Dispatcher -> Request]
      BY <1>1 DEF TypeOK
    <3>2. r1 \in Request
      BY <2>6, <3>1 DEF Request
    <3>3. r2 \in Request
      BY <3>2 DEF Request
    <3>4. r3 \in Request
      BY <2>2, <3>3 DEF Request
    <3>5. req' = [req EXCEPT ![d] = r3]
      BY <2>5, <3>1
    <3> HIDE DEF r3
    <3> QED
      BY <3>1, <3>4, <3>5
  <2>8. /\ \A e \in Dispatcher : e # d => req'[e] = req[e]
        /\ req'[d].by = req[d].by /\ req'[d].task = req[d].task
        /\ req'[d].step = req[d].step /\ req'[d].worker = req[d].worker
        /\ req'[d].timeout = req[d].timeout /\ req'[d].clock = req[d].clock
        /\ req'[d].tool = leaf /\ req'[d].tree = tree /\ req'[d].path = r.hops
    BY <1>1, <2>5 DEF TypeOK, Request
  <2>9. /\ req'[d].tool \in Usable
        /\ IsPath(req'[d].tree, req'[d].path)
        /\ req'[d].tool = req'[d].path[Len(req'[d].path)].option.tool
    BY <2>1, <2>4, <2>6, <2>8
  <2> QED
    BY <1>1, <1>3, <1>6, <2>7, <2>8, <2>9, ToolKeeps
<1> QED
  BY <1>4, <1>5, <1>6

LEMMA ClaimKeeps ==
  ASSUME DispatchInvariant, NEW d \in Dispatcher, Claim(d)
  PROVE  DispatchInvariant'
<1> DEFINE s == req[d].step
           n == req[d].timeout
<1>1. /\ pc[d] = "claim" /\ pc' = [pc EXCEPT ![d] = "launch"]
      /\ req' = [req EXCEPT ![d].tree = None, ![d].path = <<>>]
      /\ Ledger!Claimable(steps[s], 0)
      /\ steps' = [steps EXCEPT ![s] = Ledger!Claimed(@, req[d].worker, LeaseFor(n))]
      /\ UNCHANGED <<tasks, setting, runs, users, genesis, sessions>>
  BY DEF Claim, Goto, authVars, Ledger!Claim
<1>2. TypeOK /\ Carried(d)
  BY DEF DispatchInvariant, Ready
<1>3. s \in Step /\ n \in Timeouts /\ req[d].worker \in Token /\ req[d].clock = 0
  BY <1>1, <1>2 DEF Carried
<1>4. /\ steps'[s].status = "claimed" /\ steps'[s].token = req[d].worker
      /\ steps'[s].ttl = n + LeaseSlack
      /\ \A x \in Step : x # s => steps'[x] = steps[x]
      /\ steps' \in [Step -> StepRow]
  <2>1. LeaseFor(n) = n + LeaseSlack /\ LeaseFor(n) \in Ttl
    BY <1>3, SlackLeft, TaskRowsAssumption DEF Ttl, LongExpired
  <2>2. steps[s] \in StepRow /\ steps \in [Step -> StepRow]
    BY <1>2, <1>3 DEF TypeOK
  <2>3. Ledger!Claimed(steps[s], req[d].worker, LeaseFor(n)) \in StepRow
    BY <1>3, <2>1, <2>2 DEF Ledger!Claimed, StepRow
  <2> QED
    BY <1>1, <1>3, <2>1, <2>2, <2>3 DEF Ledger!Claimed
<1>5. /\ \A e \in Dispatcher : e # d => req'[e] = req[e] /\ pc'[e] = pc[e]
      /\ pc'[d] = "launch"
      /\ req'[d].by = req[d].by /\ req'[d].task = req[d].task
      /\ req'[d].step = req[d].step /\ req'[d].worker = req[d].worker
      /\ req'[d].timeout = req[d].timeout /\ req'[d].clock = req[d].clock
      /\ req'[d].tool = req[d].tool /\ req'[d].tree = None
  BY <1>1, <1>2 DEF TypeOK, Request
<1>6. TypeOK'
  <2>1. req' \in [Dispatcher -> Request]
    <3>1. req[d] \in Request /\ req \in [Dispatcher -> Request]
      BY <1>2 DEF TypeOK
    <3>2. <<>> \in Paths
      BY DEF Paths
    <3> DEFINE r1 == [req[d] EXCEPT !.tree = None]
               r2 == [r1 EXCEPT !.path = <<>>]
    <3>3. r1 \in Request
      BY <3>1 DEF Request
    <3>4. r2 \in Request
      BY <3>2, <3>3 DEF Request
    <3>5. req' = [req EXCEPT ![d] = r2]
      BY <1>1, <3>1
    <3> HIDE DEF r2
    <3> QED
      BY <3>1, <3>4, <3>5
  <2> QED
    BY <1>1, <1>2, <1>4, <2>1 DEF TypeOK, AuthTypeOK, Place
<1>7. ASSUME NEW e \in Dispatcher PROVE Ready(e)'
  <2>1. CASE e = d
    <3>1. 0 <= ReplyLag /\ n + LeaseSlack >= n + LeaseSlack - 0
      BY <1>3, SlackLeft
    <3> QED
      BY <1>1, <1>2, <1>3, <1>4, <1>5, <2>1, <3>1
        DEF Ready, Carried, Leased, HeldFor, Reported, Routed
  <2>2. CASE e # d
    <3>1. Ready(e) /\ Carried(e) /\ Leased(e)
      BY DEF DispatchInvariant, Ready
    <3>2. pc[e] \in {"launch", "run"} => req[e].step \in Step /\ req[e].step # s
      BY <1>1, <1>2, <3>1, LeasedNotClaimable DEF Carried
    <3>3. pc[e] \in {"launch", "run"} => steps'[req[e].step] = steps[req[e].step]
      BY <1>4, <3>2
    <3> QED
      BY <1>1, <1>5, <2>2, <3>1, <3>3, ReadyKept
  <2> QED
    BY <2>1, <2>2
<1>8. \A e, f \in Dispatcher : OwnWorker(e, f)'
  <2>1. \A e \in Dispatcher : /\ req'[e].worker = req[e].worker
                              /\ pc'[e] = "idle" => pc[e] = "idle"
                              /\ pc[e] = "idle" => pc'[e] = "idle"
    BY <1>1, <1>5
  <2> QED
    BY <2>1 DEF DispatchInvariant, OwnWorker
<1>9. \A w \in Token : Lingers(w)'
  BY <1>1, LingersKept DEF DispatchInvariant
<1> QED
  BY <1>6, <1>7, <1>8, <1>9 DEF DispatchInvariant

\* A launch or the end of a run moves d and its own worker's process only.
LEMMA OwnRunKeeps ==
  ASSUME DispatchInvariant, NEW d \in Dispatcher, pc[d] # "idle",
         NEW place \in Place, pc' = [pc EXCEPT ![d] = place], place # "idle",
         req' \in [Dispatcher -> Request],
         \A e \in Dispatcher : e # d => req'[e] = req[e],
         NEW own, req[d].worker = own, req'[d].worker = own,
         runs' \in [Token -> Run],
         \A w \in Token : w # own => runs'[w] = runs[w],
         Lingers(own)', Ready(d)',
         UNCHANGED <<tasks, steps, setting, users, genesis, sessions>>
  PROVE  DispatchInvariant'
<1>1. pc'[d] = place /\ \A e \in Dispatcher : e # d => pc'[e] = pc[e]
  BY DEF DispatchInvariant, TypeOK
<1>2. TypeOK'
  BY DEF DispatchInvariant, TypeOK, AuthTypeOK
<1>3. ASSUME NEW e \in Dispatcher PROVE Ready(e)'
  <2>1. CASE e # d
    BY <1>1, <2>1, OthersReady
  <2> QED
    BY <2>1
<1>4. \A e, f \in Dispatcher : OwnWorker(e, f)'
  BY <1>1 DEF DispatchInvariant, OwnWorker
<1>5. ASSUME NEW w \in Token PROVE Lingers(w)'
  <2>1. CASE w # own
    BY <2>1, LingersKept DEF DispatchInvariant
  <2> QED
    BY <2>1
<1> QED
  BY <1>2, <1>3, <1>4, <1>5 DEF DispatchInvariant

LEMMA LaunchKeeps ==
  ASSUME DispatchInvariant, NEW d \in Dispatcher, Launch(d)
  PROVE  DispatchInvariant'
<1> PICK w, n, c : w = req[d].worker /\ n = req[d].timeout /\ c = req[d].clock
  OBVIOUS
<1>1. /\ pc[d] = "launch" /\ pc' = [pc EXCEPT ![d] = "run"]
      /\ req' = [req EXCEPT ![d].clock = 0, ![d].tool = None]
      /\ runs' = [runs EXCEPT ![w] = Started(d)]
      /\ UNCHANGED <<tasks, steps, setting, users, genesis, sessions>>
  BY DEF Launch, Goto, tables, authVars
<1>2. TypeOK /\ Carried(d) /\ Leased(d) /\ Routed(d)
  BY DEF DispatchInvariant, Ready
<1>3. /\ w \in Token /\ n \in Timeouts /\ req[d].step \in Step
      /\ req[d].tool \in Tool /\ c \in Nat /\ c <= ReplyLag
      /\ HeldFor(d, n + LeaseSlack - c)
      /\ sessions[w].task # None /\ sessions[w].left \in Nat
      /\ sessions[w].left <= n + SessionSlack - c
      /\ steps[req[d].step].ttl \in Int
  BY <1>1, <1>2, DispatchAssumption, TaskRowsAssumption
    DEF Carried, Leased, TypeOK, AuthTypeOK, Request, StepRow, Ttl, LongExpired
<1>4. /\ \A e \in Dispatcher : e # d => req'[e] = req[e]
      /\ req'[d].by = req[d].by /\ req'[d].task = req[d].task
      /\ req'[d].step = req[d].step /\ req'[d].worker = w
      /\ req'[d].timeout = n /\ req'[d].clock = 0 /\ req'[d].tree = req[d].tree
      /\ pc'[d] = "run"
  BY <1>1, <1>2 DEF TypeOK, Request
<1>5. req' \in [Dispatcher -> Request]
  <2>1. req[d] \in Request /\ req \in [Dispatcher -> Request] /\ 0 \in 0..MaxLease
    BY <1>2, TaskRowsAssumption DEF TypeOK
  <2> DEFINE r1 == [req[d] EXCEPT !.clock = 0]
             r2 == [r1 EXCEPT !.tool = None]
  <2>2. r1 \in Request
    BY <2>1 DEF Request
  <2>3. r2 \in Request
    BY <2>2 DEF Request
  <2>4. req' = [req EXCEPT ![d] = r2]
    BY <1>1, <2>1
  <2> HIDE DEF r2
  <2> QED
    BY <2>1, <2>3, <2>4
<1>6. /\ Started(d) \in Run /\ Started(d).state = "running"
      /\ Started(d).step = req[d].step /\ Started(d).tool = req[d].tool
      /\ Started(d).turns = 0 /\ Started(d).lease = n + LeaseSlack - c
  <2>1. Started(d) = [state |-> "running", step |-> req[d].step, tool |-> req[d].tool,
                      turns |-> 0, lease |-> n + LeaseSlack - c, report |-> "none"]
    BY <1>3, SlackLeft DEF Started
  <2>2. n + LeaseSlack - c \in Stale..MaxLease /\ 0 \in 0..MaxTurns
    BY <1>3, SlackLeft, DispatchAssumption DEF Stale
  <2> QED
    BY <1>3, <2>1, <2>2 DEF Run
<1>7. /\ runs' \in [Token -> Run] /\ runs'[w] = Started(d)
      /\ \A v \in Token : v # w => runs'[v] = runs[v]
  BY <1>1, <1>2, <1>3, <1>6 DEF TypeOK
<1>8. Lingers(w)'
  <2>1. sessions'[w] = sessions[w] /\ 0 < MaxTurns
    BY <1>1, DispatchAssumption
  <2>2. sessions[w].left <= n + LeaseSlack - c + (SessionSlack - LeaseSlack)
    BY <1>3, SlackLeft
  <2> QED
    BY <1>3, <1>6, <1>7, <2>1, <2>2 DEF Lingers
<1>9. Ready(d)'
  <2>1. HeldFor(d, n - 0 + LeaseSlack - ReplyLag)'
    <3>1. n - 0 + LeaseSlack - ReplyLag <= n + LeaseSlack - c
      BY <1>3, SlackLeft
    <3>2. n - 0 + LeaseSlack - ReplyLag \in Int /\ n + LeaseSlack - c \in Int
      BY <1>3, SlackLeft
    <3> QED
      BY <1>1, <1>3, <1>4, <3>1, <3>2 DEF HeldFor
  <2>2. 0 <= n
    BY <1>3, SlackLeft
  <2>3. req[d].tree = None
    BY <1>1, <1>2 DEF Routed
  <2> QED
    BY <1>1, <1>2, <1>3, <1>4, <1>6, <1>7, <2>1, <2>2, <2>3
      DEF Ready, Carried, Leased, HeldFor, Reported, Routed
<1> QED
  BY <1>1, <1>4, <1>5, <1>7, <1>8, <1>9, OwnRunKeeps DEF Place

LEMMA OverIsRun ==
  ASSUME NEW report \in {"none", "completed", "blocked"}
  PROVE  /\ Over(report) \in Run /\ Over(report).state = "over"
         /\ Over(report).report = report
<1>1. 0 \in Stale..MaxLease /\ 0 \in 0..MaxTurns
  BY TaskRowsAssumption, SlackAssumption, DispatchAssumption DEF Stale
<1>2. NoRun \in Run
  BY <1>1 DEF NoRun, Run
<1>3. [NoRun EXCEPT !.state = "over"] \in Run
  BY <1>2 DEF Run
<1>4. Over(report) \in Run
  BY <1>3 DEF Over, Run
<1> QED
  BY <1>4 DEF Over, NoRun

\* A turn of a running worker, or its end, keeps every dispatcher ready.
LEMMA WorkerKeeps ==
  ASSUME DispatchInvariant, NEW w \in Token, NEW run \in Run,
         runs[w].state = "running", runs' = [runs EXCEPT ![w] = run],
         run.state \in {"running", "over"},
         run.state = "running" =>
           /\ run.step = runs[w].step /\ run.tool = runs[w].tool
           /\ run.turns < MaxTurns /\ run.lease = runs[w].lease,
         UNCHANGED <<tasks, steps, setting, pc, req, users, genesis, sessions>>
  PROVE  DispatchInvariant'
<1>1. TypeOK' /\ runs'[w] = run /\ \A v \in Token : v # w => runs'[v] = runs[v]
  BY DEF DispatchInvariant, TypeOK, AuthTypeOK
<1>2. ASSUME NEW d \in Dispatcher PROVE Ready(d)'
  <2>1. Ready(d)
    BY DEF DispatchInvariant
  <2>2. CASE pc[d] # "idle" /\ req[d].worker = w
    <3>1. pc[d] \notin {"session", "route", "claim", "launch"}
      BY <2>1, <2>2 DEF Ready, Carried
    <3>2. pc[d] = "complete" => req[d].outcome # "done"
      BY <2>1, <2>2 DEF Ready, Reported
    <3>3. Carried(d)' /\ Leased(d)' /\ Routed(d)'
      BY <2>1, <3>1 DEF Ready, Carried, Leased, HeldFor, Routed
    <3>4. Reported(d)'
      BY <1>1, <2>1, <2>2, <3>2 DEF Ready, Reported
    <3> QED
      BY <3>3, <3>4 DEF Ready
  <2>3. CASE ~(pc[d] # "idle" /\ req[d].worker = w)
    <3>1. pc[d] # "idle" => req[d].worker \in Token /\ req[d].worker # w
      BY <2>1, <2>3 DEF Ready, Carried
    <3> QED
      BY <1>1, <2>1, <3>1, ReadyKept
  <2> QED
    BY <2>2, <2>3
<1>3. \A d, e \in Dispatcher : OwnWorker(d, e)'
  BY DEF DispatchInvariant, OwnWorker
<1>4. ASSUME NEW v \in Token PROVE Lingers(v)'
  <2>1. CASE v = w
    BY <1>1, <2>1 DEF DispatchInvariant, Lingers
  <2>2. CASE v # w
    BY <1>1, <2>2, LingersKept DEF DispatchInvariant
  <2> QED
    BY <2>1, <2>2
<1> QED
  BY <1>1, <1>2, <1>3, <1>4 DEF DispatchInvariant

LEMMA WorkersKeep ==
  ASSUME DispatchInvariant, NEW w \in Token,
         Answers(w) \/ CallsTool(w) \/ WorkerFails(w)
  PROVE  DispatchInvariant'
<1>1. /\ runs[w].state = "running" /\ runs[w] \in Run /\ Lingers(w)
      /\ UNCHANGED <<tasks, steps, setting, pc, req, users, genesis, sessions>>
  BY DEF Answers, CallsTool, WorkerFails, AsksModel, tables, authVars,
         DispatchInvariant, TypeOK
<1>2. CASE Answers(w) \/ WorkerFails(w)
  <2>1. PICK report \in {"none", "completed"} : runs' = [runs EXCEPT ![w] = Over(report)]
    BY <1>2 DEF Answers, WorkerFails
  <2> QED
    BY <1>1, <2>1, OverIsRun, WorkerKeeps
<1>3. CASE CallsTool(w)
  <2> PICK run : run = TurnTaken(runs[w])
    OBVIOUS
  <2>1. runs' = [runs EXCEPT ![w] = run]
    BY <1>3 DEF CallsTool
  <2>2. CASE runs[w].turns + 1 = MaxTurns
    <3>1. run = Over("blocked")
      BY <2>2 DEF TurnTaken
    <3> QED
      BY <1>1, <2>1, <3>1, OverIsRun, WorkerKeeps
  <2>3. CASE runs[w].turns + 1 # MaxTurns
    <3>1. run = [runs[w] EXCEPT !.turns = @ + 1]
      BY <2>3 DEF TurnTaken
    <3>2. runs[w].turns \in Nat /\ runs[w].turns < MaxTurns /\ MaxTurns \in Nat
      BY <1>1, DispatchAssumption DEF Lingers, Run
    <3>3. run \in Run /\ run.state = "running" /\ run.step = runs[w].step
          /\ run.tool = runs[w].tool /\ run.turns < MaxTurns
          /\ run.lease = runs[w].lease
      BY <1>1, <2>3, <3>1, <3>2 DEF Run
    <3> QED
      BY <1>1, <2>1, <3>3, WorkerKeeps
  <2> QED
    BY <2>2, <2>3
<1> QED
  BY <1>2, <1>3

\* The three ways from a launched run to its completion.
LEMMA EndingKeeps ==
  ASSUME DispatchInvariant, NEW d \in Dispatcher,
         LaunchRefused(d) \/ Collect(d) \/ Timeout(d)
  PROVE  DispatchInvariant'
<1> PICK w : w = req[d].worker
  OBVIOUS
<1>1. /\ pc[d] \in {"launch", "run"} /\ pc' = [pc EXCEPT ![d] = "complete"]
      /\ UNCHANGED <<tasks, steps, setting, users, genesis, sessions>>
  BY DEF LaunchRefused, Collect, Timeout, Goto, tables, authVars
<1>2. TypeOK /\ Ready(d) /\ Carried(d) /\ Routed(d)
  BY DEF DispatchInvariant, Ready
<1>3. w \in Token /\ Lingers(w)
  BY <1>1, <1>2 DEF Carried, DispatchInvariant
<1>4. PICK outcome \in {"done", "failed"}, tool \in Tool \cup {None} :
        /\ req' = [req EXCEPT ![d].clock = 0, ![d].tool = tool, ![d].outcome = outcome]
        /\ outcome = "done" => runs[w].state = "over" /\ runs[w].report = "completed"
                               /\ runs' = runs
  <2>1. req[d] \in Request /\ req \in [Dispatcher -> Request]
    BY <1>2 DEF TypeOK
  <2>2. req[d].tool \in Tool \cup {None}
    BY <2>1 DEF Request
  <2>3. ASSUME NEW outcome
        PROVE  [req EXCEPT ![d].clock = 0, ![d].outcome = outcome]
                 = [req EXCEPT ![d].clock = 0, ![d].tool = req[d].tool,
                               ![d].outcome = outcome]
    BY <2>1 DEF Request
  <2>4. CASE LaunchRefused(d)
    BY <2>4 DEF LaunchRefused
  <2>5. CASE Collect(d)
    BY <2>2, <2>3, <2>5 DEF Collect, OutcomeOf
  <2>6. CASE Timeout(d)
    BY <2>2, <2>3, <2>6 DEF Timeout
  <2> QED
    BY <2>4, <2>5, <2>6
<1>5. /\ \A e \in Dispatcher : e # d => req'[e] = req[e]
      /\ req'[d].by = req[d].by /\ req'[d].task = req[d].task
      /\ req'[d].step = req[d].step /\ req'[d].worker = w
      /\ req'[d].timeout = req[d].timeout /\ req'[d].clock = 0
      /\ req'[d].tree = req[d].tree /\ req'[d].outcome = outcome
      /\ pc'[d] = "complete"
  BY <1>1, <1>2, <1>4 DEF TypeOK, Request
<1>6. req' \in [Dispatcher -> Request]
  <2>1. req[d] \in Request /\ req \in [Dispatcher -> Request] /\ 0 \in 0..MaxLease
    BY <1>2, TaskRowsAssumption DEF TypeOK
  <2> DEFINE r1 == [req[d] EXCEPT !.clock = 0]
             r2 == [r1 EXCEPT !.tool = tool]
             r3 == [r2 EXCEPT !.outcome = outcome]
  <2>2. r1 \in Request
    BY <2>1 DEF Request
  <2>3. r2 \in Request
    BY <2>2 DEF Request
  <2>4. r3 \in Request
    BY <2>3 DEF Request
  <2>5. req' = [req EXCEPT ![d] = r3]
    BY <1>4, <2>1
  <2> HIDE DEF r3
  <2> QED
    BY <2>1, <2>4, <2>5
<1>7. runs' = runs \/ (runs[w].state = "running" /\ runs' = [runs EXCEPT ![w] = Over("none")])
  BY DEF LaunchRefused, Collect, Timeout
<1>8. runs' \in [Token -> Run] /\ \A v \in Token : v # w => runs'[v] = runs[v]
  BY <1>2, <1>3, <1>7, OverIsRun DEF TypeOK
<1>9. Lingers(w)'
  <2>1. CASE runs' = runs
    BY <1>1, <1>3, <2>1, LingersKept
  <2>2. CASE runs[w].state = "running" /\ runs' = [runs EXCEPT ![w] = Over("none")]
    <3>1. runs'[w].state = "over"
      BY <1>2, <1>3, <2>2, OverIsRun DEF TypeOK
    <3> QED
      BY <1>1, <1>3, <2>2, <3>1 DEF Lingers
  <2> QED
    BY <1>7, <2>1, <2>2
<1>10. Ready(d)'
  <2>1. req[d].tree = None
    BY <1>1, <1>2 DEF Routed
  <2> QED
    BY <1>1, <1>2, <1>3, <1>4, <1>5, <2>1
      DEF Ready, Carried, Leased, Reported, Routed
<1> QED
  BY <1>1, <1>5, <1>6, <1>8, <1>9, <1>10, OwnRunKeeps DEF Place

\* A finished step keeps the tables well-formed.
LEMMA FinishTypes ==
  ASSUME TypeOK, NEW s \in Step, NEW outcome \in {"done", "failed"},
         NEW t, Ledger!Finish(s, t, outcome)
  PROVE  /\ steps' \in [Step -> StepRow] /\ tasks' \in [Task -> TaskRow]
         /\ \A x \in Step : x # s => steps'[x] = steps[x]
         /\ steps'[s].status = outcome
<1>1. steps[s] \in StepRow /\ steps \in [Step -> StepRow]
  BY DEF TypeOK
<1>2. Ledger!Finished(steps[s], outcome) \in StepRow
  BY <1>1, TaskRowsAssumption DEF Ledger!Finished, StepRow, Ttl, LongExpired
<1>3. steps' = [steps EXCEPT ![s] = Ledger!Finished(@, outcome)]
  BY DEF Ledger!Finish
<1>4. tasks' \in [Task -> TaskRow]
  <2>1. PICK verdict \in {"failed", "completed"} :
          tasks' = tasks \/ tasks' = [tasks EXCEPT ![t] = Ledger!Closed(@, verdict)]
    BY DEF Ledger!Finish, Ledger!Verdict
  <2>2. ASSUME t \in Task  PROVE Ledger!Closed(tasks[t], verdict) \in TaskRow
    BY DEF Ledger!Closed, TaskRow
  <2> QED
    BY <2>1, <2>2 DEF TypeOK
<1> QED
  BY <1>1, <1>2, <1>3, <1>4 DEF Ledger!Finished

LEMMA CompleteKeeps ==
  ASSUME DispatchInvariant, NEW d \in Dispatcher, Complete(d)
  PROVE  DispatchInvariant'
<1> PICK s, outcome : s = req[d].step /\ outcome = req[d].outcome
  OBVIOUS
<1>1. /\ pc[d] = "complete" /\ pc' = [pc EXCEPT ![d] = "idle"]
      /\ req' = [req EXCEPT ![d] = NoReq]
      /\ steps[s].token = req[d].worker
      /\ Ledger!Finish(s, steps[s].task, outcome)
      /\ UNCHANGED <<setting, runs, users, genesis, sessions>>
  BY DEF Complete, Goto, authVars
<1>2. TypeOK /\ Ready(d) /\ s \in Step /\ outcome \in {"done", "failed"}
  BY <1>1 DEF DispatchInvariant, Ready, Carried, Reported
<1>3. /\ steps' \in [Step -> StepRow] /\ tasks' \in [Task -> TaskRow]
      /\ \A x \in Step : x # s => steps'[x] = steps[x]
  BY <1>1, <1>2, FinishTypes
<1>4. /\ pc'[d] = "idle" /\ req'[d] = NoReq
      /\ \A e \in Dispatcher : e # d => pc'[e] = pc[e] /\ req'[e] = req[e]
  BY <1>1, <1>2 DEF TypeOK
<1>5. TypeOK'
  <2>1. NoReq \in Request
    <3>1. <<>> \in Paths
      BY DEF Paths
    <3> QED
      BY <3>1, TaskRowsAssumption DEF NoReq, Request
  <2>2. pc' \in [Dispatcher -> Place] /\ req' \in [Dispatcher -> Request]
    BY <1>1, <1>2, <2>1 DEF Place, TypeOK
  <2> QED
    BY <1>1, <1>2, <1>3, <2>2 DEF TypeOK, AuthTypeOK
<1>6. ASSUME NEW e \in Dispatcher PROVE Ready(e)'
  <2>1. CASE e = d
    BY <1>4, <2>1, ReadyIdle
  <2>2. CASE e # d
    <3>1. Ready(e) /\ OwnWorker(d, e)
      BY DEF DispatchInvariant
    <3>2. pc[e] \in {"launch", "run"} => req[e].step \in Step /\ req[e].step # s
      BY <1>1, <2>2, <3>1 DEF OwnWorker, Ready, Carried, Leased, HeldFor
    <3> QED
      BY <1>1, <1>3, <1>4, <2>2, <3>1, <3>2, ReadyKept
  <2> QED
    BY <2>1, <2>2
<1>7. \A e, f \in Dispatcher : OwnWorker(e, f)'
  BY <1>4 DEF DispatchInvariant, OwnWorker
<1>8. \A w \in Token : Lingers(w)'
  BY <1>1, LingersKept DEF DispatchInvariant
<1> QED
  BY <1>5, <1>6, <1>7, <1>8 DEF DispatchInvariant

LEMMA TickKeeps ==
  ASSUME DispatchInvariant, Tick
  PROVE  DispatchInvariant'
<1>1. /\ TypeOK /\ UNCHANGED <<tasks, setting, pc, users, genesis>>
      /\ \A d \in Dispatcher : InTime(d) /\ Ready(d)
  BY DEF Tick, Ledger!Tick, DispatchInvariant
<1>2. MaxLease \in Nat /\ MaxLag = 0 /\ LongExpired = -1 /\ Ledger!LongExpired = -1
  BY TaskRowsAssumption, DispatchAssumption DEF LongExpired, Ledger!LongExpired
<1>3. ASSUME NEW s \in Step
      PROVE  /\ steps'[s] \in StepRow
             /\ steps'[s].status = steps[s].status /\ steps'[s].token = steps[s].token
             /\ steps'[s].ttl >= steps[s].ttl - 1
  <2>1. steps'[s] = [steps[s] EXCEPT !.ttl =
                       IF steps[s].status = "claimed" /\ @ > Ledger!LongExpired
                       THEN @ - 1 ELSE @]
    BY DEF Tick, Ledger!Tick, Ledger!Aged
  <2>2. steps[s] \in StepRow
    BY <1>1 DEF TypeOK
  <2> QED
    BY <1>2, <2>1, <2>2 DEF StepRow, Ttl
<1>4. ASSUME NEW w \in Token
      PROVE  /\ sessions'[w] \in [task : Task \cup {None}, left : 0..MaxSession]
             /\ sessions'[w].task = sessions[w].task
             /\ sessions'[w].left = IF sessions[w].left > 0 THEN sessions[w].left - 1 ELSE 0
             /\ sessions[w].left \in Nat
  <2>1. sessions'[w] = [sessions[w] EXCEPT !.left = IF @ > 0 THEN @ - 1 ELSE 0]
    BY DEF Tick, AgedSessions
  <2>2. sessions[w] \in [task : Task \cup {None}, left : 0..MaxSession]
    BY <1>1 DEF TypeOK, AuthTypeOK
  <2>3. MaxSession \in Nat
    BY AuthAssumption
  <2> QED
    BY <2>1, <2>2, <2>3
<1>5. ASSUME NEW w \in Token
      PROVE  /\ runs'[w] \in Run
             /\ runs'[w].state = runs[w].state /\ runs'[w].report = runs[w].report
             /\ runs'[w].step = runs[w].step /\ runs'[w].tool = runs[w].tool
             /\ runs'[w].turns = runs[w].turns
             /\ runs[w].lease \in Int /\ runs'[w].lease \in Int
             /\ runs'[w].lease >= runs[w].lease - 1
  <2>1. runs'[w] = IF runs[w].state = "running" /\ runs[w].lease > Stale
                   THEN [runs[w] EXCEPT !.lease = @ - 1] ELSE runs[w]
    BY DEF Tick
  <2>2. runs[w] \in Run /\ Stale \in Int
    BY <1>1, SlackAssumption DEF TypeOK, Stale
  <2> QED
    BY <1>2, <2>1, <2>2 DEF Run
<1>6. ASSUME NEW d \in Dispatcher
      PROVE  /\ req'[d] \in Request
             /\ req'[d].by = req[d].by /\ req'[d].task = req[d].task
             /\ req'[d].step = req[d].step /\ req'[d].worker = req[d].worker
             /\ req'[d].timeout = req[d].timeout /\ req'[d].tool = req[d].tool
             /\ req'[d].tree = req[d].tree /\ req'[d].path = req[d].path
             /\ req'[d].outcome = req[d].outcome
             /\ req'[d].clock = IF pc[d] \in {"launch", "run"}
                                THEN req[d].clock + 1 ELSE req[d].clock
             /\ pc[d] \notin {"launch", "run"} => req'[d] = req[d]
  <2>1. req'[d] = IF pc[d] \in {"launch", "run"}
                  THEN [req[d] EXCEPT !.clock = @ + 1] ELSE req[d]
    BY DEF Tick
  <2>2. req[d] \in Request
    BY <1>1 DEF TypeOK
  <2>3. pc[d] \in {"launch", "run"} => req[d].clock + 1 \in 0..MaxLease
    <3>1. req[d].clock \in Nat
      BY <2>2 DEF Request
    <3>2. pc[d] \in {"launch", "run"} => req[d].timeout \in Timeouts
      BY <1>1 DEF Ready, Carried
    <3> QED
      BY <1>1, <3>1, <3>2, SlackLeft DEF InTime
  <2> QED
    BY <2>1, <2>2, <2>3 DEF Request
<1>7. TypeOK'
  <2>1. steps' \in [Step -> StepRow]
    BY <1>3 DEF Tick, Ledger!Tick, Ledger!Aged
  <2>2. sessions' \in [Token -> [task : Task \cup {None}, left : 0..MaxSession]]
    BY <1>4 DEF Tick, AgedSessions
  <2>3. runs' \in [Token -> Run]
    BY <1>5 DEF Tick
  <2>4. req' \in [Dispatcher -> Request]
    BY <1>6 DEF Tick
  <2> QED
    BY <1>1, <2>1, <2>2, <2>3, <2>4 DEF TypeOK, AuthTypeOK
<1>8. ASSUME NEW d \in Dispatcher PROVE Ready(d)'
  <2>1. Ready(d) /\ InTime(d) /\ pc'[d] = pc[d]
    BY <1>1
  <2>2. CASE pc[d] = "idle"
    BY <1>6, <2>1, <2>2, ReadyIdle DEF Ready, Carried
  <2>3. CASE pc[d] # "idle"
    <3> PICK w, s, n, c : w = req[d].worker /\ s = req[d].step
                          /\ n = req[d].timeout /\ c = req[d].clock
      OBVIOUS
    <3>1. /\ w \in Token /\ s \in Step /\ n \in Timeouts /\ c \in Nat
          /\ steps[s].ttl \in Int /\ steps'[s].ttl \in Int
      BY <1>1, <1>2, <1>3, <2>1, <2>3
        DEF Ready, Carried, TypeOK, Request, StepRow, Ttl
    <3>2. Carried(d)'
      <4>1. pc[d] \in {"route", "claim", "launch"} =>
              sessions'[w].left <= n + SessionSlack - req'[d].clock
        <5>1. pc[d] \in {"route", "claim"} => req'[d].clock = c
          BY <1>6
        <5>2. pc[d] = "launch" => req'[d].clock = c + 1 /\ c < ReplyLag
          BY <1>6, <2>1 DEF InTime
        <5>3. pc[d] \in {"route", "claim", "launch"} =>
                sessions[w].left <= n + SessionSlack - c
          BY <2>1 DEF Ready, Carried
        <5> QED
          BY <1>4, <3>1, <5>1, <5>2, <5>3, SlackLeft
      <4> QED
        BY <1>4, <1>5, <1>6, <2>1, <2>3, <3>1, <4>1 DEF Ready, Carried
    <3>3. Leased(d)'
      <4>1. CASE pc[d] = "launch"
        <5>1. c < ReplyLag /\ req'[d].clock = c + 1 /\ steps[s].ttl >= n + LeaseSlack - c
          BY <1>6, <2>1, <4>1 DEF InTime, Ready, Leased, HeldFor
        <5>2. c + 1 <= ReplyLag /\ steps'[s].ttl >= n + LeaseSlack - (c + 1)
          BY <1>3, <3>1, <5>1, SlackLeft
        <5> QED
          BY <1>3, <1>6, <2>1, <3>1, <4>1, <5>1, <5>2 DEF Ready, Leased, HeldFor
      <4>2. CASE pc[d] = "run"
        <5>1. c < n /\ req'[d].clock = c + 1
              /\ steps[s].ttl >= n - c + LeaseSlack - ReplyLag
          BY <1>6, <2>1, <4>2 DEF InTime, Ready, Leased, HeldFor
        <5>2. c + 1 <= n /\ steps'[s].ttl >= n - (c + 1) + LeaseSlack - ReplyLag
          BY <1>3, <3>1, <5>1, SlackLeft
        <5> QED
          BY <1>3, <1>6, <2>1, <3>1, <4>2, <5>1, <5>2 DEF Ready, Leased, HeldFor
      <4> QED
        BY <2>1, <4>1, <4>2 DEF Leased
    <3>4. Reported(d)'
      BY <1>5, <1>6, <2>1, <3>1 DEF Ready, Reported
    <3>5. Routed(d)'
      BY <1>6, <2>1 DEF Ready, Routed
    <3> QED
      BY <3>2, <3>3, <3>4, <3>5 DEF Ready
  <2> QED
    BY <2>2, <2>3
<1>9. \A d, e \in Dispatcher : OwnWorker(d, e)'
  BY <1>1, <1>6 DEF DispatchInvariant, OwnWorker
<1>10. ASSUME NEW w \in Token PROVE Lingers(w)'
  <2>1. Lingers(w) /\ SessionSlack \in Nat /\ LeaseSlack \in Nat
    BY SlackAssumption DEF DispatchInvariant
  <2>2. runs[w].state = "running" /\ sessions'[w].left > 0 =>
          sessions'[w].left <= runs'[w].lease + (SessionSlack - LeaseSlack)
    BY <1>4, <1>5, <2>1 DEF Lingers
  <2> QED
    BY <1>4, <1>5, <2>1, <2>2 DEF Lingers
<1> QED
  BY <1>7, <1>8, <1>9, <1>10 DEF DispatchInvariant

LEMMA StutterKeeps ==
  ASSUME DispatchInvariant, UNCHANGED vars
  PROVE  DispatchInvariant'
<1>1. UNCHANGED <<tasks, steps, setting, pc, req, runs, users, genesis, sessions>>
  BY DEF vars
<1>2. TypeOK'
  BY <1>1 DEF DispatchInvariant, TypeOK, AuthTypeOK
<1>3. \A d \in Dispatcher : Ready(d)'
  BY <1>1, ReadyKept DEF DispatchInvariant
<1>4. \A w \in Token : Lingers(w)'
  BY <1>1, LingersKept DEF DispatchInvariant
<1>5. \A d, e \in Dispatcher : OwnWorker(d, e)'
  BY <1>1 DEF DispatchInvariant, OwnWorker
<1> QED
  BY <1>2, <1>3, <1>4, <1>5 DEF DispatchInvariant

-----------------------------------------------------------------------------
(* Theorems.                                                               *)

\* The inductive invariant: a dispatcher's lease covers what is left of its run
\* plus the slack, and a session ends with its worker's lease but for the
\* difference of the slacks.
THEOREM DispatchInvariantHolds == Spec => []DispatchInvariant
<1>1. Init => DispatchInvariant
  BY InitReady
<1>2. DispatchInvariant /\ [Next]_vars => DispatchInvariant'
  <2> SUFFICES ASSUME DispatchInvariant, [Next]_vars  PROVE DispatchInvariant'
    OBVIOUS
  <2>1. CASE Operators /\ UNCHANGED <<tables, setting, pc, req, runs>>
    BY <2>1, OperatorsKeep
  <2>2. ASSUME NEW d \in Dispatcher, NEW by \in Caller, NEW t \in Task,
               NEW s \in Step, NEW w \in Token, NEW n \in Timeouts,
               RunStep(d, by, t, s, w, n)
        PROVE  DispatchInvariant'
    BY <2>2, RunStepKeeps
  <2>3. ASSUME NEW d \in Dispatcher, NEW tree \in Trees, RouteAuto(d, tree)
        PROVE  DispatchInvariant'
    BY <2>3, RouteAutoKeeps
  <2>4. ASSUME NEW d \in Dispatcher, NEW tool \in Usable, NamedTool(d, tool)
        PROVE  DispatchInvariant'
    BY <2>4, NamedToolKeeps
  <2>5. ASSUME NEW d \in Dispatcher,
               IssueSession(d) \/ Claim(d) \/ Launch(d) \/ Complete(d) \/ Abandon(d)
        PROVE  DispatchInvariant'
    BY <2>5, IssueSessionKeeps, ClaimKeeps, LaunchKeeps, CompleteKeeps, AbandonKeeps
  <2>6. ASSUME NEW d \in Dispatcher, LaunchRefused(d) \/ Collect(d) \/ Timeout(d)
        PROVE  DispatchInvariant'
    BY <2>6, EndingKeeps
  <2>7. ASSUME NEW w \in Token, Answers(w) \/ CallsTool(w) \/ WorkerFails(w)
        PROVE  DispatchInvariant'
    BY <2>7, WorkersKeep
  <2>8. CASE Tick
    BY <2>8, TickKeeps
  <2>9. CASE UNCHANGED vars
    BY <2>9, StutterKeeps
  <2> QED
    BY <2>1, <2>2, <2>3, <2>4, <2>5, <2>6, <2>7, <2>8, <2>9 DEF Next
<1> QED
  BY <1>1, <1>2, PTL DEF Spec

\* Every variable keeps its type: sessions, leases and clocks stay within the
\* bounds the code gives them.
THEOREM DispatchTypeCorrect == Spec => []TypeOK
<1>1. DispatchInvariant => TypeOK
  BY DEF DispatchInvariant
<1> QED
  BY <1>1, DispatchInvariantHolds, PTL

\* While a worker runs under supervision, no other dispatcher runs its step and
\* its lease outlasts the run (run_step's timeout_seconds + 60).
THEOREM OneWorkerHolds == Spec => []OneWorkerPerStep
<1>1. DispatchInvariant => OneWorkerPerStep
  <2> SUFFICES ASSUME DispatchInvariant, NEW d \in Dispatcher, pc[d] = "run"
               PROVE  /\ HeldFor(d, req[d].timeout - req[d].clock)
                      /\ steps[req[d].step].ttl > req[d].timeout - req[d].clock
                      /\ \A e \in Dispatcher \ {d} :
                           pc[e] \in {"launch", "run"} => req[e].step # req[d].step
    BY DEF OneWorkerPerStep, HeldFor
  <2>1. Ready(d) /\ TypeOK
    BY DEF DispatchInvariant
  <2>2. req[d].timeout \in Timeouts /\ req[d].step \in Step /\ req[d].worker \in Token
    BY <2>1 DEF Ready, Carried
  <2>3. req[d].clock \in Int /\ steps[req[d].step].ttl \in Int
    BY <2>1, <2>2, TaskRowsAssumption DEF TypeOK, Request, StepRow, Ttl, LongExpired
  <2>4. HeldFor(d, req[d].timeout - req[d].clock + LeaseSlack - ReplyLag)
    BY <2>1 DEF Ready, Leased
  <2>5. /\ HeldFor(d, req[d].timeout - req[d].clock)
        /\ steps[req[d].step].ttl > req[d].timeout - req[d].clock
    BY <2>2, <2>3, <2>4, SlackLeft DEF HeldFor
  <2>6. ASSUME NEW e \in Dispatcher \ {d}, pc[e] \in {"launch", "run"}
        PROVE  req[e].step # req[d].step
    <3>1. Ready(e) /\ OwnWorker(d, e) /\ e # d
      BY <2>6 DEF DispatchInvariant
    <3>2. req[e].worker # req[d].worker
      BY <2>6, <3>1 DEF OwnWorker
    <3>3. steps[req[e].step].token = req[e].worker
      BY <2>6, <3>1 DEF Ready, Leased, HeldFor
    <3> QED
      BY <2>4, <3>2, <3>3 DEF HeldFor
  <2> QED
    BY <2>5, <2>6
<1> QED
  BY <1>1, DispatchInvariantHolds, PTL

\* No session outlives its worker's lease by more than the difference of the
\* slacks, a minute: run_step's timeout_seconds + 120 against + 60.
THEOREM StragglersAreBriefHolds == Spec => []StragglersAreBrief
<1>1. DispatchInvariant => StragglersAreBrief
  <2> SUFFICES ASSUME DispatchInvariant, NEW w \in Token,
                      runs[w].state = "running", sessions[w].left > 0
               PROVE  runs[w].lease >= LeaseSlack - SessionSlack
    BY DEF StragglersAreBrief
  <2>1. sessions[w].left <= runs[w].lease + (SessionSlack - LeaseSlack)
    BY DEF DispatchInvariant, Lingers
  <2>2. sessions[w].left \in Int /\ runs[w].lease \in Int
        /\ SessionSlack \in Nat /\ LeaseSlack \in Nat
    BY SlackAssumption, AuthAssumption, TaskRowsAssumption
      DEF DispatchInvariant, TypeOK, AuthTypeOK, Run, Stale
  <2> QED
    BY <2>1, <2>2
<1> QED
  BY <1>1, DispatchInvariantHolds, PTL

\* The tool routing gives a worker is the leaf of a path of the tree, for any
\* tree and any answers of the classifier.
THEOREM RoutedToLeafHolds == Spec => []RoutedToLeaf
<1>1. DispatchInvariant => RoutedToLeaf
  BY DEF DispatchInvariant, Ready, Routed, RoutedToLeaf
<1> QED
  BY <1>1, DispatchInvariantHolds, PTL

\* A step becomes done only under the unexpired lease of a worker whose process
\* ended with the report "completed".
THEOREM DoneMeansReportedHolds == Spec => DoneMeansReported
<1> DEFINE Kept(s) ==
      Settled(steps'[s]) /\ ~Settled(steps[s]) =>
        /\ steps[s].status = "claimed" /\ steps[s].ttl > 0
        /\ steps'[s].status = "done" =>
             /\ runs[steps[s].token].state = "over"
             /\ runs[steps[s].token].report = "completed"
<1>1. DispatchInvariant /\ [Next]_vars => \A s \in Step : Kept(s)
  <2> SUFFICES ASSUME DispatchInvariant, [Next]_vars, NEW s \in Step  PROVE Kept(s)
    OBVIOUS
  <2>1. CASE UNCHANGED steps
    BY <2>1
  <2>2. ASSUME NEW d \in Dispatcher, Claim(d)  PROVE Kept(s)
    <3>1. steps' = [steps EXCEPT ![req[d].step] =
                      Ledger!Claimed(@, req[d].worker, LeaseFor(req[d].timeout))]
      BY <2>2 DEF Claim, Ledger!Claim
    <3> QED
      BY <3>1 DEF Settled, Ledger!Claimed, DispatchInvariant, TypeOK
  <2>3. ASSUME NEW d \in Dispatcher, Complete(d)  PROVE Kept(s)
    <3>1. /\ pc[d] = "complete" /\ Ready(d) /\ TypeOK
          /\ steps[req[d].step].token = req[d].worker /\ steps[req[d].step].ttl > 0
          /\ Ledger!Finish(req[d].step, steps[req[d].step].task, req[d].outcome)
      BY <2>3 DEF Complete, DispatchInvariant
    <3>2. /\ req[d].step \in Step /\ req[d].outcome \in {"done", "failed"}
          /\ req[d].outcome = "done" =>
               /\ runs[req[d].worker].state = "over"
               /\ runs[req[d].worker].report = "completed"
      BY <3>1 DEF Ready, Carried, Reported
    <3>3. /\ \A x \in Step : x # req[d].step => steps'[x] = steps[x]
          /\ steps'[req[d].step].status = req[d].outcome
      BY <3>1, <3>2, FinishTypes
    <3>4. steps[req[d].step].status = "claimed"
      BY <3>1 DEF Ledger!Finish
    <3>5. CASE s = req[d].step
      BY <3>1, <3>2, <3>3, <3>4, <3>5
    <3>6. CASE s # req[d].step
      BY <3>3, <3>6
    <3> QED
      BY <3>5, <3>6
  <2>4. CASE Tick
    <3>1. steps' = Ledger!Aged(steps)
      BY <2>4 DEF Tick, Ledger!Tick
    <3>2. steps'[s].status = steps[s].status
      BY <3>1 DEF Ledger!Aged, DispatchInvariant, TypeOK, StepRow
    <3> QED
      BY <3>2 DEF Settled
  <2>5. ASSUME NEW d \in Dispatcher, Abandon(d) \/ IssueSession(d) \/ Launch(d)
                 \/ LaunchRefused(d) \/ Collect(d) \/ Timeout(d)
        PROVE  UNCHANGED steps
    BY <2>5 DEF Abandon, IssueSession, Launch, LaunchRefused, Collect, Timeout, tables
  <2>6. ASSUME NEW d \in Dispatcher, NEW by \in Caller, NEW t \in Task,
               NEW x \in Step, NEW w \in Token, NEW n \in Timeouts,
               RunStep(d, by, t, x, w, n)
        PROVE  UNCHANGED steps
    BY <2>6 DEF RunStep, tables
  <2>7. ASSUME NEW d \in Dispatcher, NEW tree \in Trees, RouteAuto(d, tree)
        PROVE  UNCHANGED steps
    BY <2>7 DEF RouteAuto
  <2>8. ASSUME NEW d \in Dispatcher, NEW tool \in Usable, NamedTool(d, tool)
        PROVE  UNCHANGED steps
    BY <2>8 DEF NamedTool, tables
  <2>9. ASSUME NEW w \in Token, Answers(w) \/ CallsTool(w) \/ WorkerFails(w)
        PROVE  UNCHANGED steps
    BY <2>9 DEF Answers, CallsTool, WorkerFails, tables
  <2>10. CASE UNCHANGED vars
    BY <2>10, <2>1 DEF vars
  <2>11. CASE Operators /\ UNCHANGED <<tables, setting, pc, req, runs>>
    BY <2>11, <2>1 DEF tables
  <2> HIDE DEF Kept
  <2> QED
    BY <2>1, <2>2, <2>3, <2>4, <2>5, <2>6, <2>7, <2>8, <2>9, <2>10, <2>11 DEF Next
<1>2. DispatchInvariant /\ [Next]_vars =>
        [\A s \in Step :
           Settled(steps'[s]) /\ ~Settled(steps[s]) =>
             /\ steps[s].status = "claimed" /\ steps[s].ttl > 0
             /\ steps'[s].status = "done" =>
                  /\ runs[steps[s].token].state = "over"
                  /\ runs[steps[s].token].report = "completed"]_vars
  BY <1>1
<1> QED
  BY <1>2, DispatchInvariantHolds, PTL DEF Spec, DoneMeansReported

-----------------------------------------------------------------------------
(* Dispatchers, workers and operators see only the ledger's steps.         *)

LEMMA SameLedgerWords ==
  /\ Ledger!Ttl = Ttl /\ Ledger!NewTask = NewTask
  /\ \A t : Ledger!Pending(t) = Pending(t)
  /\ \A row, tok, left : Ledger!Claimed(row, tok, left) = Claimed(row, tok, left)
  /\ \A row, outcome : Ledger!Finished(row, outcome) = Finished(row, outcome)
  /\ \A row, verdict : Ledger!Closed(row, verdict) = Closed(row, verdict)
  /\ \A row, lag : Ledger!Claimable(row, lag) <=> Claimable(row, lag)
  /\ \A rows : Ledger!Aged(rows) = Aged(rows)
  /\ \A rows, t : /\ Ledger!Remaining(rows, t) <=> Remaining(rows, t)
                  /\ Ledger!Verdict(rows, t) = Verdict(rows, t)
                  /\ Ledger!IsOpen(rows, t) <=> IsOpen(rows, t)
BY DEF Ledger!Ttl, Ttl, Ledger!LongExpired, LongExpired, Ledger!NewTask, NewTask,
       Ledger!Aged, Aged, Ledger!Pending, Pending, Ledger!Claimed, Claimed,
       Ledger!Finished, Finished, Ledger!Closed, Closed, Ledger!Claimable, Claimable,
       Ledger!Remaining, Remaining, Ledger!StepsOf, StepsOf, Ledger!Settled, Settled,
       Ledger!Verdict, Verdict, Ledger!IsOpen, IsOpen

\* The ledger's steps, with every finish counted for its step's own task: the
\* dispatcher returns the lease it was given.
LedgerStep ==
  \/ \E t \in Task : Ledger!CreateTask(t) \/ Ledger!Route(t)
  \/ \E t \in Task, s \in Step : Ledger!AddStep(t, s)
  \/ \E s \in Step, tok \in Token, left \in Ledger!Ttl : Ledger!Claim(s, tok, left)
  \/ \E s \in Step, outcome \in {"done", "failed"} :
       Ledger!Finish(s, steps[s].task, outcome)
  \/ Ledger!Tick

LEMMA LedgerStepIsLedgers ==
  ASSUME steps \in [Step -> StepRow], LedgerStep
  PROVE  Ledger!Next
<1>1. \A s \in Step : steps[s].task \in Task \cup {None}
  BY DEF StepRow
<1> QED
  BY <1>1 DEF LedgerStep, Ledger!Next

\* What the two tables must say of one task.
Agrees(t) ==
  /\ tasks[t].terminal => ~Remaining(steps, t) /\ tasks[t].status = Verdict(steps, t)
  /\ StepsOf(steps, t) # {} /\ ~Remaining(steps, t) => tasks[t].terminal
  /\ tasks[t].status \in {"completed", "failed"} => tasks[t].terminal

TablesAgree ==
  /\ TerminalSettled(tasks, steps) /\ SettledTerminal(tasks, steps)
  /\ Truthful(tasks, steps)

\* Every task is there from the start.
TablesInvariant == TablesAgree /\ \A t \in Task : tasks[t].status # "absent"

LEMMA AgreeTaskByTask == TablesAgree <=> \A t \in Task : Agrees(t)
BY DEF TablesAgree, Agrees, TerminalSettled, SettledTerminal, Truthful

\* The queries look only at a step's
\* task and status.
LEMMA SameQueries ==
  ASSUME NEW t,
         \A s \in Step : /\ (steps'[s].status # "absent" /\ steps'[s].task = t)
                            <=> (steps[s].status # "absent" /\ steps[s].task = t)
                         /\ steps[s].status # "absent" /\ steps[s].task = t
                              => steps'[s].status = steps[s].status
  PROVE  /\ StepsOf(steps', t) = StepsOf(steps, t)
         /\ Remaining(steps', t) <=> Remaining(steps, t)
         /\ Verdict(steps', t) = Verdict(steps, t)
<1>1. StepsOf(steps', t) = StepsOf(steps, t)
  BY DEF StepsOf
<1>2. \A s \in StepsOf(steps, t) : steps'[s].status = steps[s].status
  BY DEF StepsOf
<1> QED
  BY <1>1, <1>2 DEF Remaining, Verdict, Settled

LEMMA StaysAgreed ==
  ASSUME NEW t, Agrees(t), tasks'[t] = tasks[t],
         \A s \in Step : /\ (steps'[s].status # "absent" /\ steps'[s].task = t)
                            <=> (steps[s].status # "absent" /\ steps[s].task = t)
                         /\ steps[s].status # "absent" /\ steps[s].task = t
                              => steps'[s].status = steps[s].status
  PROVE  Agrees(t)'
<1>1. /\ StepsOf(steps', t) = StepsOf(steps, t)
      /\ Remaining(steps', t) <=> Remaining(steps, t)
      /\ Verdict(steps', t) = Verdict(steps, t)
  BY SameQueries
<1> QED
  BY <1>1 DEF Agrees

\* The ledger's steps keep the tables in agreement.
LEMMA LedgerKeepsAgreement ==
  ASSUME tasks \in [Task -> TaskRow], steps \in [Step -> StepRow],
         LedgerStep, NEW t \in Task, Agrees(t), tasks[t].status # "absent"
  PROVE  Agrees(t)'
<1>0. tasks[t] \in TaskRow /\ Verdict(steps, t) \in {"completed", "failed"}
  BY DEF Verdict
<1>1. ASSUME NEW u \in Task, Ledger!CreateTask(u)
      PROVE  Agrees(t)'
  <2>1. UNCHANGED steps /\ tasks' = [tasks EXCEPT ![u] = NewTask]
        /\ tasks[u].status = "absent"
    BY <1>1, SameLedgerWords DEF Ledger!CreateTask
  <2>2. CASE u # t
    BY <2>1, <2>2, StaysAgreed
  <2>3. CASE u = t
    BY <1>0, <2>1, <2>3 DEF Agrees, NewTask
  <2> QED
    BY <2>2, <2>3
<1>2. ASSUME NEW u \in Task, Ledger!Route(u)
      PROVE  Agrees(t)'
  <2>1. /\ UNCHANGED steps /\ ~tasks[u].terminal
        /\ \E word \in {"active", "pending_clarification"} :
             tasks' = [tasks EXCEPT ![u].status = word]
    BY <1>2 DEF Ledger!Route
  <2>2. CASE u # t
    BY <2>1, <2>2, StaysAgreed
  <2>3. CASE u = t
    <3>1. /\ tasks'[t].terminal = tasks[t].terminal
          /\ tasks'[t].status \in {"active", "pending_clarification"}
      BY <1>0, <2>1, <2>3 DEF TaskRow
    <3> QED
      BY <2>1, <2>3, <3>1 DEF Agrees
  <2> QED
    BY <2>2, <2>3
<1>3. ASSUME NEW u \in Task, NEW s \in Step, Ledger!AddStep(u, s)
      PROVE  Agrees(t)'
  <2>1. /\ UNCHANGED tasks /\ ~tasks[u].terminal /\ steps[s].status = "absent"
        /\ steps'[s].status = "pending" /\ steps'[s].task = u
        /\ \A x \in Step \ {s} : steps'[x] = steps[x]
    BY <1>3, SameLedgerWords DEF Ledger!AddStep, Pending
  <2>2. CASE u # t
    BY <2>1, <2>2, StaysAgreed
  <2>3. CASE u = t
    <3>1. s \in StepsOf(steps', t) /\ ~Settled(steps'[s])
      BY <2>1, <2>3 DEF StepsOf, Settled
    <3> QED
      BY <2>1, <2>3, <3>1 DEF Agrees, Remaining
  <2> QED
    BY <2>2, <2>3
<1>4. ASSUME NEW s \in Step, NEW tok, NEW left, Ledger!Claim(s, tok, left)
      PROVE  Agrees(t)'
  <2>1. /\ UNCHANGED tasks /\ Claimable(steps[s], 0)
        /\ steps'[s].status = "claimed" /\ steps'[s].task = steps[s].task
        /\ \A x \in Step \ {s} : steps'[x] = steps[x]
    BY <1>4, SameLedgerWords DEF Ledger!Claim, Claimed
  <2>2. steps[s].status \in {"pending", "claimed"}
    BY <2>1 DEF Claimable
  <2>3. CASE steps[s].task # t
    BY <2>1, <2>3, StaysAgreed
  <2>4. CASE steps[s].task = t
    <3>1. /\ s \in StepsOf(steps, t) /\ ~Settled(steps[s])
          /\ s \in StepsOf(steps', t) /\ ~Settled(steps'[s])
      BY <2>1, <2>2, <2>4 DEF StepsOf, Settled
    <3> QED
      BY <2>1, <3>1 DEF Agrees, Remaining
  <2> QED
    BY <2>3, <2>4
<1>5. ASSUME NEW s \in Step, NEW outcome \in {"done", "failed"},
             Ledger!Finish(s, steps[s].task, outcome)
      PROVE  Agrees(t)'
  <2> PICK u : u = steps[s].task
    OBVIOUS
  <2>1. /\ steps[s].status = "claimed"
        /\ steps'[s].status = outcome /\ steps'[s].task = u
        /\ \A x \in Step \ {s} : steps'[x] = steps[x]
    BY <1>5, SameLedgerWords DEF Ledger!Finish, Finished
  <2>2. tasks' = IF IsOpen(tasks, u) /\ ~Remaining(steps', u)
                 THEN [tasks EXCEPT ![u] = Closed(@, Verdict(steps', u))]
                 ELSE tasks
    BY <1>5, SameLedgerWords DEF Ledger!Finish
  <2>3. CASE u # t
    BY <2>1, <2>2, <2>3, StaysAgreed
  <2>4. CASE u = t /\ Remaining(steps', t)
    <3>1. Remaining(steps, t)
      BY <2>1, <2>4 DEF Remaining, StepsOf, Settled
    <3> QED
      BY <2>2, <2>4, <3>1 DEF Agrees
  <2>5. CASE u = t /\ ~Remaining(steps', t)
    <3>1. Remaining(steps, t)
      BY <1>5, <2>1, <2>5 DEF Remaining, StepsOf, Settled
    <3>2. IsOpen(tasks, t)
      BY <3>1 DEF Agrees, IsOpen
    <3>3. tasks'[t] = Closed(tasks[t], Verdict(steps', t))
      BY <2>2, <2>5, <3>2
    <3> QED
      BY <2>5, <3>3 DEF Agrees, Closed
  <2> QED
    BY <2>3, <2>4, <2>5
<1>6. CASE Ledger!Tick
  <2>1. UNCHANGED tasks
        /\ \A s \in Step : steps'[s].status = steps[s].status /\ steps'[s].task = steps[s].task
    BY <1>6, SameLedgerWords DEF Ledger!Tick, Aged, StepRow
  <2> QED
    BY <2>1, StaysAgreed
<1> QED
  BY <1>1, <1>2, <1>3, <1>4, <1>5, <1>6 DEF LedgerStep

\* A task does not go away.
LEMMA LedgerKeepsTasks ==
  ASSUME tasks \in [Task -> TaskRow], LedgerStep, NEW t \in Task,
         tasks[t].status # "absent"
  PROVE  tasks'[t].status # "absent"
<1>1. ASSUME NEW u \in Task, Ledger!CreateTask(u) \/ Ledger!Route(u)
      PROVE  tasks'[t].status # "absent"
  <2>1. CASE Ledger!CreateTask(u)
    BY <2>1, SameLedgerWords DEF Ledger!CreateTask, NewTask
  <2>2. CASE Ledger!Route(u)
    BY <2>2 DEF Ledger!Route, TaskRow
  <2> QED
    BY <1>1, <2>1, <2>2
<1>2. ASSUME NEW s \in Step, NEW outcome, Ledger!Finish(s, steps[s].task, outcome)
      PROVE  tasks'[t].status # "absent"
  <2> PICK u, verdict : /\ u = steps[s].task
                        /\ verdict = Verdict(steps', u)
    OBVIOUS
  <2>1. tasks' = tasks \/ tasks' = [tasks EXCEPT ![u] = Closed(@, verdict)]
    BY <1>2, SameLedgerWords DEF Ledger!Finish
  <2>2. verdict \in {"completed", "failed"}
    BY DEF Verdict
  <2> QED
    BY <2>1, <2>2 DEF Closed
<1> QED
  BY <1>1, <1>2 DEF LedgerStep, Ledger!AddStep, Ledger!Claim, Ledger!Tick

LEMMA LeaseIsTtl ==
  ASSUME NEW n \in Timeouts
  PROVE  LeaseFor(n) \in Ttl
BY SlackAssumption, TaskRowsAssumption, DispatchAssumption DEF LeaseFor, Ttl, LongExpired

\* Every step of the system is one of the ledger's, or leaves the tables alone.
LEMMA StepIsLedgers ==
  ASSUME DispatchInvariant, TablesInvariant, [Next]_vars
  PROVE  [LedgerStep]_tables
<1>1. ASSUME NEW d \in Dispatcher, NEW tree \in Trees, RouteAuto(d, tree)
      PROVE  [LedgerStep]_tables
  <2> PICK t : t = req[d].task
    OBVIOUS
  <2>1. /\ UNCHANGED steps
        /\ \/ UNCHANGED tasks
           \/ /\ ~tasks[t].terminal
              /\ tasks' = [tasks EXCEPT ![t].status = "pending_clarification"]
           \/ /\ tasks[t].status = "pending_clarification"
              /\ tasks' = [tasks EXCEPT ![t].status = "active"]
    BY <1>1 DEF RouteAuto
  <2>2. pc[d] # "idle" /\ t \in Task
    BY <1>1 DEF RouteAuto, Prepared, DispatchInvariant, Ready, Carried
  <2>3. tasks[t].status = "pending_clarification" => ~tasks[t].terminal
    BY <2>2, AgreeTaskByTask DEF TablesInvariant, Agrees, Verdict
  <2>4. tasks[t].status # "absent"
    BY <2>2 DEF TablesInvariant
  <2>5. UNCHANGED tasks \/ Ledger!Route(t)
    BY <2>1, <2>3, <2>4 DEF Ledger!Route
  <2> QED
    BY <2>1, <2>2, <2>5 DEF LedgerStep, tables
<1>2. ASSUME NEW d \in Dispatcher, Claim(d)
      PROVE  LedgerStep
  <2>1. /\ req[d].step \in Step /\ req[d].worker \in Token /\ req[d].timeout \in Timeouts
        /\ Ledger!Claim(req[d].step, req[d].worker, LeaseFor(req[d].timeout))
    BY <1>2 DEF Claim, DispatchInvariant, Ready, Carried
  <2>2. LeaseFor(req[d].timeout) \in Ledger!Ttl
    BY <2>1, LeaseIsTtl, SameLedgerWords
  <2> QED
    BY <2>1, <2>2 DEF LedgerStep
<1>3. ASSUME NEW d \in Dispatcher, Complete(d)
      PROVE  LedgerStep
  <2>1. /\ req[d].step \in Step /\ req[d].outcome \in {"done", "failed"}
        /\ Ledger!Finish(req[d].step, steps[req[d].step].task, req[d].outcome)
    BY <1>3 DEF Complete, DispatchInvariant, Ready, Carried, Reported
  <2> QED
    BY <2>1 DEF LedgerStep
<1>4. CASE Tick
  BY <1>4 DEF Tick, LedgerStep
<1>5. ASSUME NEW d \in Dispatcher, Abandon(d) \/ IssueSession(d) \/ Launch(d)
               \/ LaunchRefused(d) \/ Collect(d) \/ Timeout(d)
      PROVE  UNCHANGED tables
  BY <1>5 DEF Abandon, IssueSession, Launch, LaunchRefused, Collect, Timeout
<1>6. ASSUME NEW d \in Dispatcher, NEW by \in Caller, NEW t \in Task,
             NEW x \in Step, NEW w \in Token, NEW n \in Timeouts,
             RunStep(d, by, t, x, w, n)
      PROVE  UNCHANGED tables
  BY <1>6 DEF RunStep
<1>7. ASSUME NEW d \in Dispatcher, NEW tool \in Usable, NamedTool(d, tool)
      PROVE  UNCHANGED tables
  BY <1>7 DEF NamedTool
<1>8. ASSUME NEW w \in Token, Answers(w) \/ CallsTool(w) \/ WorkerFails(w)
      PROVE  UNCHANGED tables
  BY <1>8 DEF Answers, CallsTool, WorkerFails
<1>9. CASE UNCHANGED vars
  BY <1>9 DEF vars, tables
<1> QED
  BY <1>1, <1>2, <1>3, <1>4, <1>5, <1>6, <1>7, <1>8, <1>9 DEF Next

LEMMA AgreementKept ==
  ASSUME DispatchInvariant, TablesInvariant, [Next]_vars
  PROVE  TablesInvariant'
<1>1. [LedgerStep]_tables
  BY StepIsLedgers
<1>2. CASE LedgerStep
  <2>1. tasks \in [Task -> TaskRow] /\ steps \in [Step -> StepRow]
    BY DEF DispatchInvariant, TypeOK
  <2>2. \A t \in Task : Agrees(t)'
    BY <1>2, <2>1, AgreeTaskByTask, LedgerKeepsAgreement DEF TablesInvariant
  <2>3. \A t \in Task : tasks'[t].status # "absent"
    BY <1>2, <2>1, LedgerKeepsTasks DEF TablesInvariant
  <2> QED
    BY <2>2, <2>3 DEF TablesInvariant, TablesAgree, Agrees, TerminalSettled,
                      SettledTerminal, Truthful
<1>3. CASE UNCHANGED tables
  BY <1>3 DEF tables, TablesInvariant, TablesAgree
<1> QED
  BY <1>1, <1>2, <1>3

LEMMA InitAgrees == Init => TablesInvariant
<1> SUFFICES ASSUME Init  PROVE TablesInvariant
  OBVIOUS
<1>1. ASSUME NEW t \in Task
      PROVE  Agrees(t) /\ tasks[t].status # "absent"
  <2>1. tasks[t].status = "active" /\ ~tasks[t].terminal
    BY DEF Init, NewTask
  <2>2. \A s \in Step : ~Settled(steps[s])
    BY DEF Init, Pending, Settled
  <2>3. StepsOf(steps, t) # {} => Remaining(steps, t)
    BY <2>2 DEF Remaining, StepsOf
  <2> QED
    BY <2>1, <2>3 DEF Agrees
<1> QED
  BY <1>1, AgreeTaskByTask DEF TablesInvariant

LEMMA TablesInvariantHolds == Spec => []TablesInvariant
<1>1. DispatchInvariant /\ TablesInvariant /\ [Next]_vars => TablesInvariant'
  BY AgreementKept
<1> QED
  BY <1>1, InitAgrees, DispatchInvariantHolds, PTL DEF Spec

\* However dispatchers crash, time out, lose replies and race, a task is closed
\* exactly when its steps are over, with the verdict of its steps: run_step
\* completes with the lease as its claim gave it, so the task it names is the
\* step's (run_step, route_task and complete_step over TaskManager).
THEOREM DispatchedTasksAgree == Spec => []TablesAgree
<1>1. TablesInvariant => TablesAgree
  BY DEF TablesInvariant
<1> QED
  BY <1>1, TablesInvariantHolds, PTL

\* What dispatchers, workers and operators do to the tasks and steps tables is
\* the atomic ledger that the SQLite transactions of TaskStore implement.
THEOREM DispatchUsesLedger == Spec => [][Ledger!Next]_tables
<1>1. DispatchInvariant /\ TablesInvariant /\ [Next]_vars => [Ledger!Next]_tables
  BY StepIsLedgers, LedgerStepIsLedgers DEF DispatchInvariant, TypeOK
<1> QED
  BY <1>1, DispatchInvariantHolds, TablesInvariantHolds, PTL DEF Spec
=============================================================================
