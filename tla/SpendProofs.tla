------------------------------ MODULE SpendProofs ------------------------------
(***************************************************************************)
(* The money a task has spent is a sum over its quota records, however     *)
(* many there are.  First what such a sum does when a record is added,     *)
(* lowered or leaves the period; then, for every value of the constants,   *)
(* that an admission without an approval fits the budgets when it commits, *)
(* and that Admission implements SpendLedger.                              *)
(***************************************************************************)
EXTENDS AdmissionProofs, FiniteSetTheorems, WellFoundedInduction

Pick(s) == CHOOSE x \in s : TRUE

\* g sums the amounts of every subset of S, one element at a time
Sums(q, S, g) ==
  g = [s \in SUBSET S |-> IF s = {} THEN 0 ELSE q[Pick(s)].amount + g[s \ {Pick(s)}]]

Total(q, S) == MapThenSumSet(LAMBDA r : q[r].amount, S)

\* the records that count against a budget of t
Counted(q, t, period, day) ==
  {r \in Id : q[r].status # "absent" /\ q[r].task = t /\ InPeriod(q[r].day, period, day)}

-----------------------------------------------------------------------------
(* Sums over a finite set.  Induction goes by minimal counterexample.      *)

\* Of the subsets of a finite set, some of every collection is minimal.
LEMMA MinimalSubset ==
  ASSUME NEW S, IsFiniteSet(S), NEW family, family \subseteq SUBSET S, family # {}
  PROVE  \E s \in family : \A u \in family : u \subseteq s => u = s
<1>1. IsWellFoundedOn(StrictSubsetOrdering(S), FiniteSubsetsOf(S))
  BY FS_StrictSubsetOrderingWellFounded
<1>2. family \subseteq FiniteSubsetsOf(S)
  BY FS_Subset DEF FiniteSubsetsOf
<1>3. \E s \in family : \A u \in family : ~ (<<u, s>> \in StrictSubsetOrdering(S))
  BY <1>1, <1>2, WFMin
<1> QED
  BY <1>2, <1>3 DEF StrictSubsetOrdering, FiniteSubsetsOf

LEMMA PickIn == ASSUME NEW s, s # {}  PROVE Pick(s) \in s
BY DEF Pick

\* The equation of a sum has at most one solution.
LEMMA SumsUnique ==
  ASSUME NEW q, NEW S, IsFiniteSet(S), NEW g, NEW h, Sums(q, S, g), Sums(q, S, h)
  PROVE  g = h
<1> DEFINE bad == {s \in SUBSET S : g[s] # h[s]}
<1>1. ASSUME bad # {}  PROVE FALSE
  <2>0. bad \subseteq SUBSET S
    OBVIOUS
  <2>1. PICK s \in bad : \A u \in bad : u \subseteq s => u = s
    <3> HIDE DEF bad
    <3> QED
      BY <1>1, <2>0, MinimalSubset
  <2>2. CASE s = {}
    BY <2>1, <2>2 DEF Sums
  <2>3. CASE s # {}
    <3>1. Pick(s) \in s
      BY <2>3, PickIn
    <3>2. s \ {Pick(s)} \in SUBSET S /\ s \ {Pick(s)} \notin bad
      BY <2>1, <3>1
    <3>3. g[s] = q[Pick(s)].amount + g[s \ {Pick(s)}]
      BY <2>1, <2>3 DEF Sums
    <3>4. h[s] = q[Pick(s)].amount + h[s \ {Pick(s)}]
      BY <2>1, <2>3 DEF Sums
    <3> QED
      BY <2>1, <3>2, <3>3, <3>4
  <2> QED
    BY <2>2, <2>3
<1>2. /\ g = [s \in SUBSET S |-> g[s]]
      /\ h = [s \in SUBSET S |-> h[s]]
  BY DEF Sums
<1>3. \A s \in SUBSET S : g[s] = h[s]
  BY <1>1
<1> QED
  BY <1>2, <1>3

\* What solves it for a set solves it for a subset.
LEMMA SumsRestrict ==
  ASSUME NEW q, NEW S, NEW g, Sums(q, S, g), NEW U \in SUBSET S
  PROVE  Sums(q, U, [s \in SUBSET U |-> g[s]])
<1> DEFINE h == [s \in SUBSET U |-> g[s]]
<1>1. ASSUME NEW s \in SUBSET U
      PROVE  h[s] = IF s = {} THEN 0 ELSE q[Pick(s)].amount + h[s \ {Pick(s)}]
  <2>1. g[s] = IF s = {} THEN 0 ELSE q[Pick(s)].amount + g[s \ {Pick(s)}]
    BY DEF Sums
  <2> QED
    BY <2>1
<1> QED
  BY <1>1 DEF Sums

\* It has a solution for every finite set.
LEMMA SumsExist ==
  ASSUME NEW q, NEW S, IsFiniteSet(S)
  PROVE  \E g : Sums(q, S, g)
<1> DEFINE bad == {s \in SUBSET S : ~ \E g : Sums(q, s, g)}
           G(s) == CHOOSE g : Sums(q, s, g)
<1>1. ASSUME bad # {}  PROVE FALSE
  <2>0. bad \subseteq SUBSET S
    OBVIOUS
  <2>1. PICK T \in bad : \A u \in bad : u \subseteq T => u = T
    <3> HIDE DEF bad
    <3> QED
      BY <1>1, <2>0, MinimalSubset
  <2>2. \A s \in SUBSET T : IsFiniteSet(s)
    BY FS_Subset
  <2>3. \A s \in SUBSET T : s # T => Sums(q, s, G(s))
    BY <2>1
  <2> DEFINE value(s) == IF s = {} THEN 0
                         ELSE q[Pick(s)].amount + G(s \ {Pick(s)})[s \ {Pick(s)}]
             h == [s \in SUBSET T |-> value(s)]
  <2>4. \A s \in SUBSET T : s # {} => s \ {Pick(s)} \in SUBSET T /\ s \ {Pick(s)} # T
    BY PickIn
  <2>5. ASSUME NEW s \in SUBSET T, s # T  PROVE G(s)[s] = value(s)
    <3>1. Sums(q, s, G(s))
      BY <2>3, <2>5
    <3>2. CASE s = {}
      BY <3>1, <3>2 DEF Sums
    <3>3. CASE s # {}
      <4> DEFINE u == s \ {Pick(s)}
      <4>1. u \in SUBSET s /\ u \in SUBSET T /\ u # T
        BY <2>4, <3>3
      <4>2. G(s)[s] = q[Pick(s)].amount + G(s)[u]
        BY <3>1, <3>3 DEF Sums
      <4>3. Sums(q, u, [v \in SUBSET u |-> G(s)[v]])
        BY <3>1, <4>1, SumsRestrict
      <4>4. Sums(q, u, G(u))
        BY <2>3, <4>1
      <4>5. G(u) = [v \in SUBSET u |-> G(s)[v]]
        BY <2>2, <4>1, <4>3, <4>4, SumsUnique
      <4>6. G(u)[u] = G(s)[u]
        BY <4>5
      <4> QED
        BY <3>3, <4>2, <4>6
    <3> QED
      BY <3>2, <3>3
  <2>6. ASSUME NEW s \in SUBSET T
        PROVE  value(s) = IF s = {} THEN 0 ELSE q[Pick(s)].amount + value(s \ {Pick(s)})
    <3>1. s # {} => G(s \ {Pick(s)})[s \ {Pick(s)}] = value(s \ {Pick(s)})
      BY <2>4, <2>5
    <3> QED
      BY <3>1
  <2>7. Sums(q, T, h)
    <3> HIDE DEF value
    <3>1. \A s \in SUBSET T : h[s] = value(s)
      OBVIOUS
    <3>2. \A s \in SUBSET T :
            value(s) = IF s = {} THEN 0 ELSE q[Pick(s)].amount + h[s \ {Pick(s)}]
      BY <2>4, <2>6, <3>1
    <3> QED
      BY <3>2 DEF Sums
  <2> QED
    BY <2>1, <2>7
<1>2. S \in SUBSET S
  OBVIOUS
<1> QED
  BY <1>1, <1>2

\* The sum the model uses is that solution.
LEMMA TotalIs ==
  ASSUME NEW q, NEW S
  PROVE  Total(q, S) = (CHOOSE g : Sums(q, S, g))[S]
BY DEF Total, Sums, MapThenSumSet, MapThenFoldSet, Pick

LEMMA TotalUnfolds ==
  ASSUME NEW q, NEW S, IsFiniteSet(S)
  PROVE  /\ S = {} => Total(q, S) = 0
         /\ S # {} => Total(q, S) = q[Pick(S)].amount + Total(q, S \ {Pick(S)})
<1> DEFINE G(s) == CHOOSE g : Sums(q, s, g)
           u == S \ {Pick(S)}
<1>1. Sums(q, S, G(S)) /\ IsFiniteSet(u) /\ u \in SUBSET S
  BY SumsExist, FS_Subset
<1>2. Sums(q, u, G(u))
  BY <1>1, SumsExist
<1>3. Sums(q, u, [s \in SUBSET u |-> G(S)[s]])
  BY <1>1, SumsRestrict
<1>4. G(u) = [s \in SUBSET u |-> G(S)[s]]
  BY <1>1, <1>2, <1>3, SumsUnique
<1>5. G(u)[u] = G(S)[u]
  BY <1>4
<1>6. G(S)[S] = IF S = {} THEN 0 ELSE q[Pick(S)].amount + G(S)[u]
  BY <1>1 DEF Sums
<1> QED
  BY <1>5, <1>6, TotalIs

\* A sum of amounts is one.
LEMMA TotalIsNat ==
  ASSUME NEW q, NEW S, IsFiniteSet(S), \A r \in S : q[r].amount \in Nat
  PROVE  Total(q, S) \in Nat
<1> DEFINE bad == {s \in SUBSET S : Total(q, s) \notin Nat}
<1>1. ASSUME bad # {}  PROVE FALSE
  <2>1. bad \subseteq SUBSET S
    OBVIOUS
  <2>2. PICK s \in bad : \A u \in bad : u \subseteq s => u = s
    <3> HIDE DEF bad
    <3> QED
      BY <1>1, <2>1, MinimalSubset
  <2>3. IsFiniteSet(s)
    BY <2>2, FS_Subset
  <2>4. s # {}
    <3>1. s = {} => Total(q, s) = 0
      BY <2>3, TotalUnfolds
    <3> QED
      BY <2>2, <3>1
  <2>5. Pick(s) \in s /\ s \ {Pick(s)} \in SUBSET S /\ s \ {Pick(s)} \notin bad
    BY <2>2, <2>4, PickIn
  <2>6. Total(q, s \ {Pick(s)}) \in Nat /\ q[Pick(s)].amount \in Nat
    BY <2>5
  <2>7. Total(q, s) = q[Pick(s)].amount + Total(q, s \ {Pick(s)})
    BY <2>3, <2>4, TotalUnfolds
  <2>8. Total(q, s) \in Nat
    BY <2>6, <2>7
  <2> QED
    BY <2>2, <2>8
<1>2. S \in SUBSET S
  OBVIOUS
<1> QED
  BY <1>1, <1>2

\* Whichever element is taken out, and not only the one the sum begins with.
LEMMA TotalRemoves ==
  ASSUME NEW q, NEW S, IsFiniteSet(S), \A r \in S : q[r].amount \in Nat, NEW x \in S
  PROVE  Total(q, S) = q[x].amount + Total(q, S \ {x})
<1> DEFINE Splits(s, y) == Total(q, s) = q[y].amount + Total(q, s \ {y})
           bad == {s \in SUBSET S : \E y \in s : ~Splits(s, y)}
<1>1. ASSUME bad # {}  PROVE FALSE
  <2>1. bad \subseteq SUBSET S
    OBVIOUS
  <2>2. PICK s \in bad : \A u \in bad : u \subseteq s => u = s
    <3> HIDE DEF bad
    <3> QED
      BY <1>1, <2>1, MinimalSubset
  <2>3. PICK y \in s : ~Splits(s, y)
    BY <2>2
  <2> DEFINE p == Pick(s)
             rest == (s \ {p}) \ {y}
  <2>4. p \in s /\ s \in SUBSET S /\ IsFiniteSet(s)
    BY <2>2, <2>3, PickIn, FS_Subset
  <2>5. Splits(s, p)
    BY <2>4, TotalUnfolds
  <2> HIDE DEF p
  <2>6. p # y
    BY <2>3, <2>5
  <2>7. Splits(s \ {p}, y)
    <3>1. s \ {p} \in SUBSET S /\ s \ {p} \notin bad /\ y \in s \ {p}
      BY <2>2, <2>4, <2>6
    <3> QED
      BY <3>1
  <2>8. Splits(s \ {y}, p)
    <3>1. s \ {y} \in SUBSET S /\ s \ {y} \notin bad /\ p \in s \ {y}
      BY <2>2, <2>4, <2>6
    <3> QED
      BY <3>1
  <2>9. (s \ {y}) \ {p} = rest
    OBVIOUS
  <2>10. q[p].amount \in Nat /\ q[y].amount \in Nat /\ Total(q, rest) \in Nat
    <3>1. IsFiniteSet(rest) /\ rest \subseteq S
      BY <2>4, FS_Subset
    <3> QED
      BY <2>4, <3>1, TotalIsNat
  <2>11. /\ Total(q, s) = q[p].amount + (q[y].amount + Total(q, rest))
         /\ Total(q, s \ {y}) = q[p].amount + Total(q, rest)
    BY <2>5, <2>7, <2>8, <2>9
  <2>12. Total(q, s) = q[y].amount + Total(q, s \ {y})
    <3> HIDE DEF rest
    <3> QED
      BY <2>10, <2>11
  <2> QED
    BY <2>3, <2>12
<1>2. S \in SUBSET S
  OBVIOUS
<1> QED
  BY <1>1, <1>2

\* Fewer records, none of them larger: no larger a sum.
LEMMA TotalMonotone ==
  ASSUME NEW q, NEW S, IsFiniteSet(S), \A r \in S : q[r].amount \in Nat,
         NEW low, NEW U \in SUBSET S,
         \A r \in U : low[r].amount \in Nat /\ low[r].amount <= q[r].amount
  PROVE  Total(low, U) <= Total(q, S)
<1> DEFINE bad == {s \in SUBSET S : ~ (Total(low, U \cap s) <= Total(q, s))}
<1>1. ASSUME bad # {}  PROVE FALSE
  <2>1. bad \subseteq SUBSET S
    OBVIOUS
  <2>2. PICK s \in bad : \A u \in bad : u \subseteq s => u = s
    <3> HIDE DEF bad
    <3> QED
      BY <1>1, <2>1, MinimalSubset
  <2>3. s \in SUBSET S /\ IsFiniteSet(s) /\ IsFiniteSet(U \cap s) /\ IsFiniteSet({})
    BY <2>2, FS_Subset, FS_EmptySet
  <2>4. s # {}
    <3>1. s = {} => Total(q, s) = 0 /\ U \cap s = {} /\ Total(low, U \cap s) = 0
      BY <2>3, TotalUnfolds
    <3> QED
      BY <2>2, <3>1
  <2> DEFINE p == Pick(s)
             rest == s \ {p}
  <2>5. /\ p \in s /\ rest \in SUBSET S /\ rest \notin bad
        /\ IsFiniteSet(rest) /\ IsFiniteSet(U \cap rest)
    <3>1. p \in s /\ rest \in SUBSET S /\ rest \notin bad
      BY <2>2, <2>4, PickIn
    <3> QED
      BY <3>1, FS_Subset
  <2> HIDE DEF p
  <2>6. Total(low, U \cap rest) <= Total(q, rest)
    BY <2>5
  <2>7. Total(low, U \cap rest) \in Nat /\ Total(q, rest) \in Nat /\ q[p].amount \in Nat
    BY <2>3, <2>5, TotalIsNat
  <2>8. Total(q, s) = q[p].amount + Total(q, rest)
    BY <2>3, <2>5, TotalRemoves
  <2>9. CASE p \in U
    <3>1. (U \cap s) \ {p} = U \cap rest /\ p \in U \cap s
      BY <2>5, <2>9
    <3>2. Total(low, U \cap s) = low[p].amount + Total(low, U \cap rest)
      <4>1. \A r \in U \cap s : low[r].amount \in Nat
        OBVIOUS
      <4> HIDE DEF rest
      <4> QED
        BY <2>3, <3>1, <4>1, TotalRemoves
    <3>3. low[p].amount \in Nat /\ low[p].amount <= q[p].amount
      BY <2>9
    <3>4. Total(low, U \cap s) <= Total(q, s)
      <4> HIDE DEF rest
      <4> QED
        BY <2>6, <2>7, <2>8, <3>2, <3>3
    <3> QED
      BY <2>2, <3>4
  <2>10. CASE p \notin U
    <3>1. Total(low, U \cap s) = Total(low, U \cap rest)
      <4>1. U \cap s = U \cap rest
        BY <2>10
      <4> HIDE DEF rest
      <4> QED
        BY <4>1
    <3>2. Total(low, U \cap s) <= Total(q, s)
      <4> HIDE DEF rest
      <4> QED
        BY <2>6, <2>7, <2>8, <3>1
    <3> QED
      BY <2>2, <3>2
  <2> QED
    BY <2>9, <2>10
<1>2. S \in SUBSET S /\ U \cap S = U
  OBVIOUS
<1> QED
  BY <1>1, <1>2

-----------------------------------------------------------------------------
(* What the records of a task add up to.                                   *)

\* However many ids there may be, only finitely many records exist.
FiniteRows(q) == IsFiniteSet({r \in Id : q[r].status # "absent"})

LEMMA SpentIsTotal ==
  ASSUME NEW q, NEW t, NEW period, NEW day
  PROVE  Spent(q, t, period, day) = Total(q, Counted(q, t, period, day))
BY DEF Spent, Total, Counted

LEMMA CountedFinite ==
  ASSUME NEW q \in [Id -> QuotaRow], FiniteRows(q), NEW t, NEW period, NEW day
  PROVE  /\ IsFiniteSet(Counted(q, t, period, day))
         /\ \A r \in Counted(q, t, period, day) : q[r].amount \in Nat
         /\ Spent(q, t, period, day) \in Nat
<1>1. Counted(q, t, period, day) \subseteq {r \in Id : q[r].status # "absent"}
  BY DEF Counted
<1>2. IsFiniteSet(Counted(q, t, period, day))
  BY <1>1, FS_Subset DEF FiniteRows
<1>3. \A r \in Counted(q, t, period, day) : q[r].amount \in Nat
  BY DEF Counted, QuotaRow
<1> QED
  BY <1>2, <1>3, SpentIsTotal, TotalIsNat

\* Records of other tasks, of earlier days or lowered never raise what is spent.
LEMMA SpentFalls ==
  ASSUME NEW q \in [Id -> QuotaRow], FiniteRows(q), NEW low \in [Id -> QuotaRow],
         NEW t, NEW period, NEW day, NEW later,
         \A r \in Counted(low, t, period, later) :
           r \in Counted(q, t, period, day) /\ low[r].amount <= q[r].amount
  PROVE  Spent(low, t, period, later) <= Spent(q, t, period, day)
<1> DEFINE S == Counted(q, t, period, day)
           U == Counted(low, t, period, later)
<1>1. U \in SUBSET S /\ \A r \in U : low[r].amount <= q[r].amount
  OBVIOUS
<1>2. \A r \in U : low[r].amount \in Nat
  BY DEF Counted, QuotaRow
<1>3. IsFiniteSet(S) /\ \A r \in S : q[r].amount \in Nat
  BY CountedFinite
<1>4. Total(low, U) <= Total(q, S)
  <2> HIDE DEF S, U
  <2> QED
    BY <1>1, <1>2, <1>3, TotalMonotone
<1> QED
  BY <1>4, SpentIsTotal

\* A new record of today adds what it reserves, to either period.
LEMMA SpentRises ==
  ASSUME NEW q \in [Id -> QuotaRow], FiniteRows(q), NEW r \in Id, q[r].status = "absent",
         NEW t \in Task, NEW cost \in Nat, NEW day \in 0 .. MaxDay, NEW period,
         NEW new \in [Id -> QuotaRow], new[r] = Reserved(t, cost, day),
         \A x \in Id \ {r} : new[x] = q[x]
  PROVE  /\ FiniteRows(new)
         /\ Spent(new, t, period, day) = Spent(q, t, period, day) + cost
<1> DEFINE S == Counted(q, t, period, day)
           U == Counted(new, t, period, day)
<1>1. new[r].status = "reserved" /\ new[r].task = t /\ new[r].day = day /\ new[r].amount = cost
  BY DEF Reserved
<1>2. FiniteRows(new)
  <2>1. {x \in Id : new[x].status # "absent"} = {x \in Id : q[x].status # "absent"} \cup {r}
    BY <1>1
  <2> QED
    BY <2>1, FS_AddElement DEF FiniteRows
<1>3. r \notin S /\ r \in U /\ U \ {r} = S
  BY <1>1 DEF Counted, InPeriod
<1>4. /\ IsFiniteSet(S) /\ \A x \in S : q[x].amount \in Nat
      /\ IsFiniteSet(U) /\ \A x \in U : new[x].amount \in Nat
      /\ Total(q, S) \in Nat /\ Total(new, S) \in Nat
  <2>1. /\ IsFiniteSet(S) /\ \A x \in S : q[x].amount \in Nat
        /\ IsFiniteSet(U) /\ \A x \in U : new[x].amount \in Nat
    BY <1>2, CountedFinite
  <2>2. \A x \in S : new[x].amount \in Nat
    BY <1>3, <2>1
  <2> HIDE DEF S, U
  <2> QED
    BY <2>1, <2>2, TotalIsNat
<1>5. \A x \in S : x \in Id /\ new[x].amount = q[x].amount
  BY <1>3 DEF Counted
<1> HIDE DEF S, U
<1>6. Total(new, U) = cost + Total(new, S)
  BY <1>1, <1>3, <1>4, TotalRemoves
<1>7. Total(new, S) <= Total(q, S) /\ Total(q, S) <= Total(new, S)
  BY <1>4, <1>5, TotalMonotone
<1>8. Total(new, U) = Total(q, S) + cost
  BY <1>4, <1>6, <1>7
<1> QED
  BY <1>2, <1>8, SpentIsTotal DEF S, U

-----------------------------------------------------------------------------
(* The invariant: money is checked in one statement and reserved in a      *)
(* later one, and in between what has been checked stays true.             *)

DaysPassed == \A r \in Id : quota[r].day <= today

\* c's call is going to reserve money that no operator has approved
Unapproved(c) ==
  \/ pc[c] = "write" /\ req[c].op = "model"
  \/ /\ req[c].op = "issue" /\ ToolInfo[req[c].action.tool].financial
     /\ \/ pc[c] = "choose" /\ ~req[c].approve
        \/ pc[c] = "write" /\ req[c].by = None

\* Then the budgets have room for it, still.
Funded(c) ==
  Unapproved(c) => ~Unbudgeted(budget, quota, req[c].task, req[c].cost, today)

Priced(c) ==
  pc[c] # "idle" /\ req[c].op = "issue" => req[c].cost = ToolInfo[req[c].action.tool].cost

SpendInvariant ==
  /\ AdmissionInvariant
  /\ FiniteRows(quota)
  /\ DaysPassed
  /\ \A c \in Client : Funded(c) /\ Priced(c)

\* Of t, neither a budget is changed nor more is spent.
Undisturbed(t) ==
  /\ budget'[t] = budget[t]
  /\ \A p \in Period : Spent(quota', t, p, today') <= Spent(quota, t, p, today)

\* What has room in the budgets keeps it.
LEMMA RoomKept ==
  ASSUME TypeOK, TypeOK', FiniteRows(quota), FiniteRows(quota'),
         NEW t \in Task, NEW cost \in Nat, Undisturbed(t),
         ~Unbudgeted(budget, quota, t, cost, today)
  PROVE  ~Unbudgeted(budget', quota', t, cost, today')
<1>1. \A p \in Period : /\ Spent(quota, t, p, today) \in Nat
                        /\ Spent(quota', t, p, today') \in Nat
  BY CountedFinite DEF TypeOK
<1>2. \A p \in Period : budget[t][p] \in Nat \cup {None}
  <2>1. budget \in [Task -> [Period -> Amount \cup {None}]] /\ Amount \subseteq Nat
    BY AdmissionAssumption DEF TypeOK
  <2> QED
    BY <2>1
<1> QED
  BY <1>1, <1>2 DEF Unbudgeted, Undisturbed

\* A call that does not move keeps the room it has found: it holds its task's row.
LEMMA FundedKept ==
  ASSUME SpendInvariant, TypeOK', FiniteRows(quota'), NEW d \in Client,
         pc'[d] = pc[d], req'[d] = req[d],
         \A t \in Task : lock[t] = d => Undisturbed(t)
  PROVE  Funded(d)' /\ Priced(d)'
<1>1. TypeOK /\ CallKnows(d) /\ Funded(d) /\ Priced(d) /\ FiniteRows(quota)
  BY DEF SpendInvariant, AdmissionInvariant
<1>2. Unapproved(d) => /\ lock[req[d].task] = d
                       /\ req[d].task \in Task /\ req[d].cost \in Nat
  <2>1. req[d].cost \in Nat
    BY <1>1 DEF TypeOK, Request
  <2> QED
    BY <1>1, <2>1 DEF Unapproved, CallKnows, WellFormed
<1>3. Unapproved(d)' = Unapproved(d)
  BY DEF Unapproved
<1> QED
  BY <1>1, <1>2, <1>3, RoomKept DEF Funded, Priced

LEMMA FinishedFunded ==
  ASSUME NEW c \in Client, pc'[c] = "idle"
  PROVE  Funded(c)' /\ Priced(c)'
BY DEF Funded, Unapproved, Priced

\* The records and the day as they were.
LEMMA RowsKept ==
  ASSUME SpendInvariant, AdmissionInvariant', quota' = quota, today' = today
  PROVE  /\ FiniteRows(quota') /\ DaysPassed'
         /\ \A t \in Task : budget'[t] = budget[t] => Undisturbed(t)
<1>1. FiniteRows(quota') /\ DaysPassed'
  BY DEF SpendInvariant, DaysPassed
<1>2. \A t \in Task, p \in Period : Spent(quota, t, p, today) \in Nat
  BY CountedFinite DEF SpendInvariant, AdmissionInvariant, TypeOK
<1> QED
  BY <1>1, <1>2 DEF Undisturbed

\* A settlement, for no more than was reserved.
LEMMA RowsLowered ==
  ASSUME SpendInvariant, AdmissionInvariant', NEW r \in Id, quota[r].status = "reserved",
         NEW amount \in Nat, amount <= quota[r].reserved,
         quota' = [quota EXCEPT ![r] = Settled(quota[r], amount)],
         budget' = budget, today' = today
  PROVE  FiniteRows(quota') /\ DaysPassed' /\ \A t \in Task : Undisturbed(t)
<1>1. /\ quota \in [Id -> QuotaRow] /\ quota' \in [Id -> QuotaRow]
      /\ quota[r].amount = quota[r].reserved
      /\ FiniteRows(quota) /\ DaysPassed
  BY DEF SpendInvariant, AdmissionInvariant, TypeOK, RowsFit
<1>2. /\ \A x \in Id \ {r} : quota'[x] = quota[x]
      /\ quota'[r].status = "settled" /\ quota'[r].task = quota[r].task
      /\ quota'[r].day = quota[r].day /\ quota'[r].amount = amount
  BY <1>1 DEF Settled
<1>3. FiniteRows(quota')
  <2>1. {x \in Id : quota'[x].status # "absent"} = {x \in Id : quota[x].status # "absent"}
    BY <1>2
  <2> QED
    BY <1>1, <2>1 DEF FiniteRows
<1>4. DaysPassed'
  BY <1>1, <1>2 DEF DaysPassed
<1>5. ASSUME NEW t \in Task, NEW p \in Period
      PROVE  Spent(quota', t, p, today') <= Spent(quota, t, p, today)
  <2>1. \A x \in Counted(quota', t, p, today') :
          x \in Counted(quota, t, p, today) /\ quota'[x].amount <= quota[x].amount
    <3>1. \A x \in Id : quota[x].amount \in Nat
      BY <1>1 DEF QuotaRow
    <3> QED
      BY <1>1, <1>2, <3>1 DEF Counted, InPeriod
  <2> QED
    BY <1>1, <2>1, SpentFalls
<1> QED
  BY <1>3, <1>4, <1>5 DEF Undisturbed

\* A reservation: only its own task spends more.
LEMMA RowsAdded ==
  ASSUME SpendInvariant, AdmissionInvariant', NEW r \in Id, quota[r] = NoQuota,
         NEW own \in Task, NEW cost \in Nat, quota'[r] = Reserved(own, cost, today),
         \A x \in Id \ {r} : quota'[x] = quota[x],
         budget' = budget, today' = today
  PROVE  /\ FiniteRows(quota') /\ DaysPassed'
         /\ \A t \in Task \ {own} : Undisturbed(t)
         /\ \A p \in Period : Spent(quota', own, p, today) = Spent(quota, own, p, today) + cost
<1>1. /\ quota \in [Id -> QuotaRow] /\ quota' \in [Id -> QuotaRow]
      /\ FiniteRows(quota) /\ DaysPassed /\ today \in 0 .. MaxDay
  BY DEF SpendInvariant, AdmissionInvariant, TypeOK
<1>2. quota[r].status = "absent"
  BY DEF NoQuota
<1>3. /\ FiniteRows(quota')
      /\ \A p \in Period : Spent(quota', own, p, today) = Spent(quota, own, p, today) + cost
  <2>1. ASSUME NEW p \in Period
        PROVE  /\ FiniteRows(quota')
               /\ Spent(quota', own, p, today) = Spent(quota, own, p, today) + cost
    BY <1>1, <1>2, SpentRises
  <2>2. "daily" \in Period
    BY DEF Period
  <2> QED
    BY <2>1, <2>2
<1>4. quota'[r].task = own /\ quota'[r].day = today
  BY DEF Reserved
<1>5. DaysPassed'
  BY <1>1, <1>4, GrantRowsAssumption DEF DaysPassed
<1>6. ASSUME NEW t \in Task \ {own}, NEW p \in Period
      PROVE  Spent(quota', t, p, today') <= Spent(quota, t, p, today)
  <2>1. \A x \in Counted(quota', t, p, today') :
          x \in Counted(quota, t, p, today) /\ quota'[x].amount <= quota[x].amount
    <3>1. \A x \in Id : quota[x].amount \in Nat
      BY <1>1 DEF QuotaRow
    <3> QED
      BY <1>1, <1>4, <3>1 DEF Counted, InPeriod
  <2> QED
    BY <1>1, <2>1, SpentFalls
<1> QED
  BY <1>3, <1>5, <1>6 DEF Undisturbed

\* No record is dated ahead: a new day has nothing spent yet.
LEMMA DayPasses ==
  ASSUME SpendInvariant, AdmissionInvariant', NewDay
  PROVE  FiniteRows(quota') /\ DaysPassed' /\ \A t \in Task : Undisturbed(t)
<1>1. /\ quota \in [Id -> QuotaRow] /\ FiniteRows(quota) /\ DaysPassed
      /\ quota' = quota /\ budget' = budget
      /\ today \in Nat /\ today' = today + 1
      /\ \A r \in Id : quota[r].day \in Nat /\ quota[r].day <= today /\ quota[r].amount \in Nat
  BY GrantRowsAssumption
  DEF SpendInvariant, AdmissionInvariant, TypeOK, NewDay, QuotaRow, DaysPassed
<1>2. DaysPassed'
  BY <1>1 DEF DaysPassed
<1>3. ASSUME NEW t \in Task, NEW p \in Period
      PROVE  Spent(quota', t, p, today') <= Spent(quota, t, p, today)
  <2>1. \A x \in Counted(quota, t, p, today') :
          x \in Counted(quota, t, p, today) /\ quota[x].amount <= quota[x].amount
    BY <1>1 DEF Counted, InPeriod
  <2> QED
    BY <1>1, <2>1, SpentFalls
<1> QED
  BY <1>1, <1>2, <1>3 DEF Undisturbed

-----------------------------------------------------------------------------
(* The steps of the induction.                                             *)

LEMMA NobodyMoves ==
  ASSUME SpendInvariant, AdmissionInvariant', pc' = pc, req' = req,
         FiniteRows(quota'), DaysPassed',
         \A t \in Task : lock[t] # None => Undisturbed(t)
  PROVE  SpendInvariant'
<1>1. TypeOK'
  BY DEF AdmissionInvariant
<1>2. ASSUME NEW d \in Client  PROVE Funded(d)' /\ Priced(d)'
  <2>1. \A t \in Task : lock[t] = d => Undisturbed(t)
    BY AdmissionAssumption
  <2> QED
    BY <1>1, <2>1, FundedKept
<1> QED
  BY <1>2 DEF SpendInvariant

LEMMA OneMoves ==
  ASSUME SpendInvariant, AdmissionInvariant', NEW c \in Client,
         \A d \in Client \ {c} : pc'[d] = pc[d] /\ req'[d] = req[d],
         FiniteRows(quota'), DaysPassed',
         \A t \in Task : lock[t] # c => Undisturbed(t),
         Funded(c)' /\ Priced(c)'
  PROVE  SpendInvariant'
<1>1. TypeOK'
  BY DEF AdmissionInvariant
<1>2. ASSUME NEW d \in Client \ {c}  PROVE Funded(d)' /\ Priced(d)'
  <2>1. \A t \in Task : lock[t] = d => Undisturbed(t)
    OBVIOUS
  <2> QED
    BY <1>1, <2>1, FundedKept
<1> QED
  BY <1>2 DEF SpendInvariant

\* A statement that writes no table.
LEMMA OneReads ==
  ASSUME SpendInvariant, AdmissionInvariant', NEW c \in Client, UNCHANGED tables,
         \A d \in Client \ {c} : pc'[d] = pc[d] /\ req'[d] = req[d],
         Funded(c)' /\ Priced(c)'
  PROVE  SpendInvariant'
<1>1. /\ FiniteRows(quota') /\ DaysPassed'
      /\ \A t \in Task : Undisturbed(t)
  BY RowsKept DEF tables
<1> QED
  BY <1>1, OneMoves

LEMMA FailSpends ==
  ASSUME SpendInvariant, AdmissionInvariant', NEW c \in Client, Fail(c)
  PROVE  SpendInvariant'
<1>1. /\ UNCHANGED tables /\ pc'[c] = "idle"
      /\ \A d \in Client \ {c} : pc'[d] = pc[d] /\ req'[d] = req[d]
  BY LeaveTypes DEF Fail, SpendInvariant, AdmissionInvariant
<1> QED
  BY <1>1, FinishedFunded, OneReads

LEMMA BeginSpends ==
  ASSUME SpendInvariant, AdmissionInvariant', NEW c \in Client,
         \/ \E a \in Action, id \in Id : CallIssue(c, a, id)
         \/ \E t \in Task, q \in Quotes, prompt \in Prompts, id \in Id :
              \E requested \in 1 .. q.max : CallModel(c, t, q, prompt, requested, id)
         \/ Lock(c)
  PROVE  SpendInvariant'
<1>1. TypeOK /\ CallKnows(c) /\ Priced(c)
  BY DEF SpendInvariant, AdmissionInvariant
<1>2. /\ UNCHANGED tables
      /\ \A d \in Client \ {c} : pc'[d] = pc[d] /\ req'[d] = req[d]
      /\ pc'[c] \in {"lock", "assess"}
  BY <1>1 DEF CallIssue, CallModel, Lock, Goto, tables, TypeOK
<1>3. Funded(c)'
  BY <1>2 DEF Funded, Unapproved
<1>4. Priced(c)'
  <2>1. CASE Lock(c)
    BY <1>1, <2>1 DEF Lock, Priced
  <2>2. ASSUME NEW a \in Action, NEW id \in Id, CallIssue(c, a, id)  PROVE Priced(c)'
    BY <1>1, <2>2 DEF CallIssue, Priced, NewRequest, TypeOK
  <2>3. ASSUME NEW t \in Task, NEW q \in Quotes, NEW prompt \in Prompts, NEW id \in Id,
               NEW requested \in 1 .. q.max, CallModel(c, t, q, prompt, requested, id)
        PROVE  Priced(c)'
    BY <1>1, <2>3 DEF CallModel, Priced, NewRequest, TypeOK
  <2> QED
    BY <2>1, <2>2, <2>3
<1> QED
  BY <1>2, <1>3, <1>4, OneReads

\* What is read here is what Funded says.
LEMMA AssessSpends ==
  ASSUME SpendInvariant, AdmissionInvariant', NEW c \in Client,
         AssessIssue(c) \/ AssessModel(c)
  PROVE  SpendInvariant'
<1>1. TypeOK /\ CallKnows(c) /\ Priced(c) /\ req[c] \in Request
  BY DEF SpendInvariant, AdmissionInvariant, TypeOK
<1>2. CASE Fail(c)
  BY <1>2, FailSpends
<1>3. CASE AssessIssue(c) /\ ~Fail(c)
  <2> DEFINE a == req[c].action
             broke == Unbudgeted(budget, quota, a.task, ToolInfo[a.tool].cost, today)
  <2>1. /\ pc[c] = "assess" /\ req[c].op = "issue"
        /\ ToolInfo[a.tool].financial => ToolInfo[a.tool].tier = 2
        /\ \E permit, ask \in BOOLEAN :
             /\ req' = [req EXCEPT ![c].approve =
                          MustBeApproved(a, profile[a.task], ask, broke)]
             /\ Goto(c, "choose")
             /\ UNCHANGED <<tables, lock>>
    BY <1>3 DEF AssessIssue
  <2>2. PICK ask \in BOOLEAN :
             /\ req' = [req EXCEPT ![c].approve =
                          MustBeApproved(a, profile[a.task], ask, broke)]
             /\ Goto(c, "choose")
             /\ UNCHANGED <<tables, lock>>
    BY <2>1
  <2>3. /\ UNCHANGED tables
        /\ \A d \in Client \ {c} : pc'[d] = pc[d] /\ req'[d] = req[d]
        /\ pc'[c] = "choose"
        /\ req'[c] = [req[c] EXCEPT !.approve =
                        MustBeApproved(a, profile[a.task], ask, broke)]
    BY <1>1, <2>2 DEF Goto, TypeOK
  <2>4. /\ req'[c].op = "issue" /\ req'[c].action = a
        /\ req'[c].task = req[c].task /\ req'[c].cost = req[c].cost
        /\ req'[c].approve = MustBeApproved(a, profile[a.task], ask, broke)
    BY <1>1, <2>1, <2>3 DEF Request
  <2>5. req[c].task = a.task /\ req[c].cost = ToolInfo[a.tool].cost
    BY <1>1, <2>1 DEF CallKnows, WellFormed, Priced
  <2>6. Priced(c)'
    BY <2>4, <2>5 DEF Priced
  <2>7. Funded(c)'
    <3> SUFFICES ASSUME Unapproved(c)'
                 PROVE  ~Unbudgeted(budget', quota', req'[c].task, req'[c].cost, today')
      BY DEF Funded
    <3>1. ToolInfo[a.tool].financial /\ ~MustBeApproved(a, profile[a.task], ask, broke)
      BY <2>3, <2>4 DEF Unapproved
    <3>2. ~broke
      BY <2>1, <3>1 DEF MustBeApproved
    <3>3. budget' = budget /\ quota' = quota /\ today' = today
      BY <2>3 DEF tables
    <3> QED
      BY <2>4, <2>5, <3>2, <3>3
  <2> QED
    BY <2>3, <2>6, <2>7, OneReads
<1>4. CASE AssessModel(c) /\ ~Fail(c)
  <2>1. /\ req[c].op = "model" /\ pc[c] = "assess"
        /\ ~Unbudgeted(budget, quota, req[c].task, req[c].cost, today)
        /\ Goto(c, "write") /\ UNCHANGED <<tables, lock, req>>
    BY <1>4 DEF AssessModel
  <2>2. /\ UNCHANGED tables
        /\ \A d \in Client \ {c} : pc'[d] = pc[d] /\ req'[d] = req[d]
    BY <1>1, <2>1 DEF Goto, TypeOK
  <2>3. Funded(c)' /\ Priced(c)'
    BY <1>1, <2>1 DEF Funded, Priced, tables
  <2> QED
    BY <2>2, <2>3, OneReads
<1> QED
  BY <1>2, <1>3, <1>4

LEMMA ChooseSpends ==
  ASSUME SpendInvariant, AdmissionInvariant', NEW c \in Client, Choose(c)
  PROVE  SpendInvariant'
<1>1. TypeOK /\ Funded(c) /\ Priced(c) /\ req[c] \in Request /\ pc[c] = "choose"
  BY DEF SpendInvariant, AdmissionInvariant, TypeOK, Choose
<1>2. CASE Fail(c)
  BY <1>2, FailSpends
<1>3. CASE ~req[c].approve /\ Goto(c, "write") /\ UNCHANGED <<tables, lock, req>>
  <2>1. /\ UNCHANGED tables
        /\ \A d \in Client \ {c} : pc'[d] = pc[d] /\ req'[d] = req[d]
        /\ pc'[c] = "write"
    BY <1>1, <1>3 DEF Goto, TypeOK
  <2>2. CallKnows(c)
    BY DEF SpendInvariant, AdmissionInvariant
  <2>3. Funded(c)' /\ Priced(c)'
    BY <1>1, <1>3, <2>1, <2>2 DEF Funded, Unapproved, Priced, CallKnows, tables
  <2> QED
    BY <2>1, <2>3, OneReads
<1>4. ASSUME NEW ap \in Approval, req' = [req EXCEPT ![c].by = ap],
             Goto(c, "write"), UNCHANGED <<tables, lock>>
      PROVE  SpendInvariant'
  <2>1. /\ UNCHANGED tables
        /\ \A d \in Client \ {c} : pc'[d] = pc[d] /\ req'[d] = req[d]
        /\ pc'[c] = "write" /\ req'[c] = [req[c] EXCEPT !.by = ap]
    BY <1>1, <1>4 DEF Goto, TypeOK
  <2>2. /\ req'[c].op = req[c].op /\ req'[c].action = req[c].action
        /\ req'[c].cost = req[c].cost /\ req'[c].by = ap
    BY <1>1, <2>1 DEF Request
  <2>3. CallKnows(c)
    BY DEF SpendInvariant, AdmissionInvariant
  <2>4. Funded(c)' /\ Priced(c)'
    BY <1>1, <2>1, <2>2, <2>3, GrantRowsAssumption DEF Funded, Unapproved, Priced, CallKnows
  <2> QED
    BY <2>1, <2>4, OneReads
<1>5. \/ Fail(c)
      \/ ~req[c].approve /\ Goto(c, "write") /\ UNCHANGED <<tables, lock, req>>
      \/ \E ap \in Approval : /\ req' = [req EXCEPT ![c].by = ap]
                              /\ Goto(c, "write") /\ UNCHANGED <<tables, lock>>
  BY DEF Choose, Matching
<1> QED
  BY <1>2, <1>3, <1>4, <1>5

\* c's transaction commits a reservation.
Reserves(c) ==
  \/ WriteReservation(c)
  \/ WriteGrant(c) /\ ~Fail(c) /\ ToolInfo[req[c].action.tool].financial

\* The row is new, it is the call's own, and its task's row is locked.
LEMMA ReservationRow ==
  ASSUME SpendInvariant, NEW c \in Client, Reserves(c)
  PROVE  /\ req[c].id \in Id /\ req[c].task \in Task /\ req[c].cost \in Nat
         /\ quota[req[c].id] = NoQuota /\ lock[req[c].task] = c
         /\ quota'[req[c].id] = Reserved(req[c].task, req[c].cost, today)
         /\ \A x \in Id \ {req[c].id} : quota'[x] = quota[x]
         /\ UNCHANGED <<engine, profile, open, shared, budget, today>>
         /\ pc[c] = "write" /\ pc'[c] \in {"idle", "infer"}
         /\ req[c].op = "issue" => pc'[c] = "idle"
         /\ \A d \in Client \ {c} : pc'[d] = pc[d] /\ req'[d] = req[d]
<1>1. TypeOK /\ CallKnows(c) /\ quota \in [Id -> QuotaRow] /\ pc[c] = "write"
  BY DEF SpendInvariant, AdmissionInvariant, TypeOK, Reserves, WriteReservation, WriteGrant
<1>2. /\ req[c].id \in Id /\ req[c].task \in Task /\ req[c].cost \in Nat
      /\ quota[req[c].id] = NoQuota /\ lock[req[c].task] = c
  BY <1>1 DEF CallKnows, WellFormed, TypeOK, Request
<1>3. /\ quota' = [quota EXCEPT ![req[c].id] = Reserved(req[c].task, req[c].cost, today)]
      /\ UNCHANGED <<engine, profile, open, shared, budget, today>>
  BY DEF Reserves, WriteReservation, WriteGrant
<1>4. /\ pc'[c] \in {"idle", "infer"}
      /\ req[c].op = "issue" => pc'[c] = "idle"
      /\ \A d \in Client \ {c} : pc'[d] = pc[d] /\ req'[d] = req[d]
  <2>1. CASE WriteReservation(c)
    BY <1>1, <2>1 DEF WriteReservation, Goto, TypeOK
  <2>2. CASE WriteGrant(c) /\ ~Fail(c)
    <3>1. Leave(c)
      BY <2>2 DEF WriteGrant
    <3> QED
      BY <1>1, <3>1, LeaveTypes
  <2> QED
    BY <2>1, <2>2 DEF Reserves
<1> QED
  BY <1>1, <1>2, <1>3, <1>4

LEMMA ReserveSpends ==
  ASSUME SpendInvariant, AdmissionInvariant', NEW c \in Client, Reserves(c)
  PROVE  /\ SpendInvariant'
         /\ \A p \in Period :
              Spent(quota', req[c].task, p, today)
                = Spent(quota, req[c].task, p, today) + req[c].cost
<1>1. /\ req[c].id \in Id /\ req[c].task \in Task /\ req[c].cost \in Nat
      /\ quota[req[c].id] = NoQuota /\ lock[req[c].task] = c
      /\ quota'[req[c].id] = Reserved(req[c].task, req[c].cost, today)
      /\ \A x \in Id \ {req[c].id} : quota'[x] = quota[x]
      /\ budget' = budget /\ today' = today
      /\ pc'[c] \in {"idle", "infer"}
      /\ req[c].op = "issue" => pc'[c] = "idle"
      /\ \A d \in Client \ {c} : pc'[d] = pc[d] /\ req'[d] = req[d]
  BY ReservationRow
<1>2. /\ FiniteRows(quota') /\ DaysPassed'
      /\ \A t \in Task \ {req[c].task} : Undisturbed(t)
      /\ \A p \in Period :
           Spent(quota', req[c].task, p, today)
             = Spent(quota, req[c].task, p, today) + req[c].cost
  BY <1>1, RowsAdded
<1>3. \A t \in Task : lock[t] # c => Undisturbed(t)
  BY <1>1, <1>2
<1>4. Funded(c)'
  BY <1>1 DEF Funded, Unapproved
<1>5. Priced(c)'
  <2>1. CallKnows(c)'
    BY DEF AdmissionInvariant
  <2> QED
    BY <1>1, <2>1 DEF Priced, CallKnows
<1>6. SpendInvariant'
  BY <1>1, <1>2, <1>3, <1>4, <1>5, OneMoves
<1> QED
  BY <1>2, <1>6

LEMMA GrantSpends ==
  ASSUME SpendInvariant, AdmissionInvariant', NEW c \in Client, WriteGrant(c)
  PROVE  SpendInvariant'
<1>1. CASE Fail(c)
  BY <1>1, FailSpends
<1>2. CASE Reserves(c)
  BY <1>2, ReserveSpends
<1>3. CASE ~Fail(c) /\ ~Reserves(c)
  <2>1. quota' = quota /\ budget' = budget /\ today' = today /\ Leave(c)
    BY <1>3 DEF WriteGrant, Reserves
  <2>2. /\ FiniteRows(quota') /\ DaysPassed'
        /\ \A t \in Task : Undisturbed(t)
    BY <2>1, RowsKept
  <2>3. pc'[c] = "idle" /\ \A d \in Client \ {c} : pc'[d] = pc[d] /\ req'[d] = req[d]
    BY <2>1, LeaveTypes DEF SpendInvariant, AdmissionInvariant
  <2> QED
    BY <2>2, <2>3, FinishedFunded, OneMoves
<1> QED
  BY <1>1, <1>2, <1>3

LEMMA SettleModelSpends ==
  ASSUME SpendInvariant, AdmissionInvariant', NEW c \in Client, SettleModel(c)
  PROVE  SpendInvariant'
<1>1. /\ pc[c] = "infer" /\ Leave(c) /\ TypeOK /\ CallKnows(c)
      /\ budget' = budget /\ today' = today
  BY DEF SpendInvariant, AdmissionInvariant, SettleModel
<1>2. /\ req[c].id \in Id /\ Covered(req[c])
      /\ quota[req[c].id].status = "reserved" /\ quota[req[c].id].reserved = req[c].cost
  BY <1>1 DEF CallKnows, WellFormed
<1>3. PICK charge \in Nat :
        quota' = IF charge <= req[c].cost /\ quota[req[c].id].status = "reserved"
                 THEN [quota EXCEPT ![req[c].id] = Settled(quota[req[c].id], charge)]
                 ELSE quota
  BY <1>2 DEF SettleModel, Covered
<1>4. /\ FiniteRows(quota') /\ DaysPassed'
      /\ \A t \in Task : Undisturbed(t)
  <2>1. CASE charge <= req[c].cost
    <3>1. quota' = [quota EXCEPT ![req[c].id] = Settled(quota[req[c].id], charge)]
      BY <1>2, <1>3, <2>1
    <3> QED
      BY <1>1, <1>2, <2>1, <3>1, RowsLowered
  <2>2. CASE ~(charge <= req[c].cost)
    BY <1>1, <1>3, <2>2, RowsKept
  <2> QED
    BY <2>1, <2>2
<1>5. pc'[c] = "idle" /\ \A d \in Client \ {c} : pc'[d] = pc[d] /\ req'[d] = req[d]
  BY <1>1, LeaveTypes
<1> QED
  BY <1>4, <1>5, FinishedFunded, OneMoves

\* Whoever else writes: settlements, operators, the clock.
LEMMA OutsideSpends ==
  ASSUME SpendInvariant, AdmissionInvariant',
         \/ \E r \in Id : \E amount \in 0 .. quota[r].reserved : Settle(r, amount)
         \/ \E ap \in Approval, a \in Action : Approve(ap, a)
         \/ \E t \in Task, p \in Period, cents \in Amount : SetBudget(t, p, cents)
         \/ \E t \in Task : CloseTask(t)
         \/ \E t \in Task, tool \in Tool : ChangeShare(t, tool)
         \/ Tick \/ NewDay \/ UNCHANGED vars
  PROVE  SpendInvariant'
<1>1. CASE \/ \E ap \in Approval, a \in Action : Approve(ap, a)
           \/ \E t \in Task : CloseTask(t)
           \/ \E t \in Task, tool \in Tool : ChangeShare(t, tool)
           \/ Tick \/ UNCHANGED vars
  <2>1. UNCHANGED <<quota, budget, today, pc, req>>
    BY <1>1 DEF Approve, CloseTask, ChangeShare, Tick, vars
  <2> QED
    BY <2>1, RowsKept, NobodyMoves
<1>2. ASSUME NEW r \in Id, NEW amount \in 0 .. quota[r].reserved, Settle(r, amount)
      PROVE  SpendInvariant'
  <2>1. /\ amount \in Nat /\ amount <= quota[r].reserved /\ quota[r].status = "reserved"
        /\ quota' = [quota EXCEPT ![r] = Settled(quota[r], amount)]
        /\ UNCHANGED <<budget, today, pc, req>>
    BY <1>2 DEF Settle, SpendInvariant, AdmissionInvariant, TypeOK, QuotaRow
  <2>2. /\ FiniteRows(quota') /\ DaysPassed'
        /\ \A t \in Task : Undisturbed(t)
    BY <2>1, RowsLowered
  <2> QED
    BY <2>1, <2>2, NobodyMoves
<1>3. ASSUME NEW t \in Task, NEW p \in Period, NEW cents \in Amount, SetBudget(t, p, cents)
      PROVE  SpendInvariant'
  <2>1. /\ lock[t] = None /\ UNCHANGED <<quota, today, pc, req>>
        /\ \A u \in Task \ {t} : budget'[u] = budget[u]
    BY <1>3 DEF SetBudget, LockFree, SpendInvariant, AdmissionInvariant, TypeOK
  <2>2. /\ FiniteRows(quota') /\ DaysPassed'
        /\ \A u \in Task : lock[u] # None => Undisturbed(u)
    BY <2>1, RowsKept
  <2> QED
    BY <2>1, <2>2, NobodyMoves
<1>4. CASE NewDay
  BY <1>4, DayPasses, NobodyMoves DEF NewDay
<1> QED
  BY <1>1, <1>2, <1>3, <1>4

LEMMA SpendStep ==
  ASSUME SpendInvariant, AdmissionInvariant', [Next]_vars
  PROVE  SpendInvariant'
<1>1. ASSUME NEW c \in Client, Issue(c) \/ ReserveModel(c)  PROVE SpendInvariant'
  BY <1>1, BeginSpends, AssessSpends, ChooseSpends, GrantSpends, ReserveSpends,
     FailSpends, SettleModelSpends
  DEF Issue, ReserveModel, InferFails, Reserves
<1>2. ASSUME NEW c \in Client, Lock(c) \/ LockTimeout(c) \/ Crash(c)
      PROVE  SpendInvariant'
  BY <1>2, BeginSpends, FailSpends DEF LockTimeout, Crash
<1> QED
  BY <1>1, <1>2, OutsideSpends DEF Next

\* What an admission without an approval has found of the budgets is true until it
\* commits, whatever other admissions, settlements, operators and days do.
THEOREM SpendInvariantHolds == Spec => []SpendInvariant
<1>1. Init => SpendInvariant
  <2> SUFFICES ASSUME Init  PROVE SpendInvariant
    OBVIOUS
  <2>1. AdmissionInvariant
    BY InitKnows
  <2>2. FiniteRows(quota)
    <3>1. {r \in Id : quota[r].status # "absent"} = {}
      BY DEF Init, NoQuota
    <3> QED
      BY <3>1, FS_EmptySet DEF FiniteRows
  <2>3. DaysPassed /\ \A c \in Client : Funded(c) /\ Priced(c)
    BY DEF Init, NoQuota, DaysPassed, Funded, Unapproved, Priced
  <2> QED
    BY <2>1, <2>2, <2>3 DEF SpendInvariant
<1>2. SpendInvariant /\ AdmissionInvariant' /\ [Next]_vars => SpendInvariant'
  BY SpendStep
<1> QED
  BY <1>1, <1>2, AdmissionInvariantHolds, PTL DEF Spec

\* Money reserved without an approval fits every budget of its task when it is
\* committed: the lock of the task's row keeps out other admissions and budget
\* changes, settlements and days only make room (governance.issue, model_proxy).
THEOREM BudgetsHold == Spec => BudgetHolds
<1>1. SpendInvariant /\ AdmissionInvariant' /\ [Next]_vars =>
        [\A r \in Id :
           quota[r].status = "absent" /\ quota'[r].status # "absent"
             /\ (grants'[r] # NoGrant => grants'[r].by = None)
           => LET t == quota'[r].task
              IN  /\ \E p \in Period : budget[t][p] # None
                  /\ \A p \in Period : budget[t][p] # None =>
                       Spent(quota', t, p, today) <= budget[t][p]]_vars
  <2> SUFFICES ASSUME SpendInvariant, AdmissionInvariant', [Next]_vars, NEW r \in Id,
                      quota[r].status = "absent", quota'[r].status # "absent",
                      grants'[r] # NoGrant => grants'[r].by = None
               PROVE  /\ \E p \in Period : budget[quota'[r].task][p] # None
                      /\ \A p \in Period : budget[quota'[r].task][p] # None =>
                           Spent(quota', quota'[r].task, p, today) <= budget[quota'[r].task][p]
    OBVIOUS
  <2>1. TypeOK /\ quota \in [Id -> QuotaRow] /\ FiniteRows(quota)
    BY DEF SpendInvariant, AdmissionInvariant, TypeOK
  <2>2. ASSUME NEW c \in Client, SettleModel(c)  PROVE FALSE
    <3>1. quota[req[c].id].status = "reserved" /\ CallKnows(c)
      BY <2>2 DEF SpendInvariant, AdmissionInvariant, SettleModel, CallKnows
    <3> QED
      BY <2>1, <2>2, <3>1 DEF SettleModel
  <2>3. ASSUME NEW x \in Id, NEW amount \in 0 .. quota[x].reserved, Settle(x, amount)
        PROVE  FALSE
    BY <2>1, <2>3 DEF Settle
  <2>4. PICK c \in Client : Reserves(c) /\ r = req[c].id
    <3>1. PICK c \in Client : WriteGrant(c) \/ WriteReservation(c)
      <4>1. quota' # quota /\ AdmissionInvariant
        BY DEF SpendInvariant
      <4> QED
        BY <2>2, <2>3, <4>1, OtherStepsWriteNoRow
    <3>2. Reserves(c)
      BY <3>1 DEF Reserves, WriteGrant, Fail, tables
    <3> QED
      BY <3>2, ReservationRow
  <2> DEFINE t == req[c].task
  <2>5. /\ quota'[r].task = t /\ t \in Task /\ req[c].cost \in Nat /\ pc[c] = "write"
    <3>1. /\ quota'[r] = Reserved(t, req[c].cost, today)
          /\ t \in Task /\ req[c].cost \in Nat /\ pc[c] = "write"
      BY <2>4, ReservationRow
    <3> HIDE DEF t
    <3>2. Reserved(t, req[c].cost, today).task = t
      BY DEF Reserved
    <3> QED
      BY <3>1, <3>2
  <2>6. Unapproved(c)
    <3>1. CASE WriteReservation(c)
      BY <3>1 DEF WriteReservation, Unapproved
    <3>2. CASE WriteGrant(c) /\ ~Fail(c) /\ ToolInfo[req[c].action.tool].financial
      <4>1. /\ req[c].op = "issue"
            /\ grants' = [grants EXCEPT ![r] = [action |-> req[c].action, by |-> req[c].by]]
        BY <2>4, <3>2 DEF WriteGrant
      <4>2. req[c].action \in Action /\ grants \in [Id -> GrantRow]
        BY <2>1, <2>5, <4>1 DEF SpendInvariant, AdmissionInvariant, CallKnows, WellFormed, TypeOK
      <4>3. grants'[r].action = req[c].action /\ grants'[r].by = req[c].by
        BY <4>1, <4>2
      <4>4. req[c].by = None
        BY <4>2, <4>3, GrantRowsAssumption DEF NoGrant
      <4> QED
        BY <2>5, <3>2, <4>1, <4>4 DEF Unapproved
    <3> QED
      BY <2>4, <3>1, <3>2 DEF Reserves
  <2>7. ~Unbudgeted(budget, quota, t, req[c].cost, today)
    BY <2>6 DEF SpendInvariant, Funded
  <2>8. \A p \in Period : Spent(quota', t, p, today) = Spent(quota, t, p, today) + req[c].cost
    BY <2>4, ReserveSpends
  <2>9. \A p \in Period : /\ Spent(quota, t, p, today) \in Nat
                          /\ budget[t][p] \in Nat \cup {None}
    <3>1. budget \in [Task -> [Period -> Amount \cup {None}]]
      BY <2>1 DEF TypeOK
    <3> QED
      BY <2>1, <2>5, <3>1, CountedFinite, AdmissionAssumption
  <2> HIDE DEF t
  <2> QED
    BY <2>5, <2>7, <2>8, <2>9 DEF Unbudgeted
<1> QED
  BY <1>1, SpendInvariantHolds, AdmissionInvariantHolds, PTL DEF Spec, BudgetHolds

LEMMA SpentStays ==
  ASSUME SpendInvariant, quota' = quota, today' = today, NEW t \in Task, NEW p \in Period
  PROVE  Spent(quota', t, p, today') <= Spent(quota, t, p, today)
<1>1. Spent(quota, t, p, today) \in Nat
  BY CountedFinite DEF SpendInvariant, AdmissionInvariant, TypeOK
<1> QED
  BY <1>1

\* Without a reservation nobody has spent more.
LEMMA NothingRises ==
  ASSUME SpendInvariant, AdmissionInvariant', [Next]_vars,
         \A c \in Client : ~Reserves(c), NEW t \in Task, NEW p \in Period
  PROVE  Spent(quota', t, p, today') <= Spent(quota, t, p, today)
<1>1. CASE NewDay
  BY <1>1, DayPasses DEF Undisturbed
<1>2. ASSUME NEW r \in Id, NEW amount \in 0 .. quota[r].reserved, Settle(r, amount)
      PROVE  Spent(quota', t, p, today') <= Spent(quota, t, p, today)
  <2>1. /\ amount \in Nat /\ amount <= quota[r].reserved /\ quota[r].status = "reserved"
        /\ quota' = [quota EXCEPT ![r] = Settled(quota[r], amount)]
        /\ budget' = budget /\ today' = today
    BY <1>2 DEF Settle, SpendInvariant, AdmissionInvariant, TypeOK, QuotaRow
  <2> QED
    BY <2>1, RowsLowered DEF Undisturbed
<1>3. ASSUME NEW c \in Client, SettleModel(c)
      PROVE  Spent(quota', t, p, today') <= Spent(quota, t, p, today)
  <2>1. UNCHANGED <<budget, today>>
    BY <1>3 DEF SettleModel
  <2>2. \/ quota' = quota
        \/ \E amount \in Nat :
             /\ amount <= quota[req[c].id].reserved
             /\ quota[req[c].id].status = "reserved" /\ req[c].id \in Id
             /\ quota' = [quota EXCEPT ![req[c].id] = Settled(quota[req[c].id], amount)]
    <3>1. pc[c] = "infer" /\ CallKnows(c)
      BY <1>3 DEF SettleModel, SpendInvariant, AdmissionInvariant
    <3>2. /\ req[c].id \in Id /\ Covered(req[c])
          /\ quota[req[c].id].reserved = req[c].cost
      BY <3>1 DEF CallKnows, WellFormed
    <3> QED
      BY <1>3, <3>2 DEF SettleModel, Covered
  <2> QED
    BY <2>1, <2>2, SpentStays, RowsLowered DEF Undisturbed
<1>4. ASSUME NEW c \in Client, WriteGrant(c)
      PROVE  Spent(quota', t, p, today') <= Spent(quota, t, p, today)
  <2>1. quota' = quota /\ today' = today
    BY <1>4 DEF WriteGrant, Reserves, Fail, tables
  <2> QED
    BY <2>1, SpentStays
<1>5. CASE /\ ~NewDay /\ \A c \in Client : ~SettleModel(c) /\ ~WriteGrant(c)
           /\ \A r \in Id : \A amount \in 0 .. quota[r].reserved : ~Settle(r, amount)
  <2>1. \A c \in Client : ~WriteReservation(c)
    BY DEF Reserves
  <2>2. quota' = quota
    BY <1>5, <2>1, OtherStepsWriteNoRow DEF SpendInvariant
  <2>3. today' = today
    <3>1. ASSUME NEW c \in Client, Issue(c) \/ ReserveModel(c)  PROVE today' = today
      BY <3>1, <1>5, <2>1
      DEF Issue, CallIssue, AssessIssue, Choose, ReserveModel, CallModel, AssessModel,
          InferFails, Fail, tables
    <3>2. ASSUME NEW c \in Client, Lock(c) \/ LockTimeout(c) \/ Crash(c)
          PROVE  today' = today
      BY <3>2 DEF Lock, LockTimeout, Crash, Fail, tables
    <3> QED
      BY <1>5, <3>1, <3>2
      DEF Next, Approve, SetBudget, CloseTask, ChangeShare, Tick, vars
  <2> QED
    BY <2>2, <2>3, SpentStays
<1> QED
  BY <1>1, <1>2, <1>3, <1>4, <1>5

\* What a task has spent exceeds a budget only by a grant that an operator has
\* approved: no interleaving of admissions, settlements, days and new budgets adds
\* up to more (governance.issue, the reservation of model_proxy, settle_record).
THEOREM OverrunsAreApproved ==
  Spec => [][\A t \in Task, p \in Period :
               /\ Spent(quota', t, p, today') > Spent(quota, t, p, today)
               /\ budget[t][p] # None /\ Spent(quota', t, p, today') > budget[t][p]
               => \E g \in Id : /\ grants[g] = NoGrant /\ grants'[g].by \in Approval
                                /\ grants'[g].action.task = t]_vars
<1>1. SpendInvariant /\ AdmissionInvariant' /\ [Next]_vars =>
        [\A t \in Task, p \in Period :
           /\ Spent(quota', t, p, today') > Spent(quota, t, p, today)
           /\ budget[t][p] # None /\ Spent(quota', t, p, today') > budget[t][p]
           => \E g \in Id : /\ grants[g] = NoGrant /\ grants'[g].by \in Approval
                            /\ grants'[g].action.task = t]_vars
  <2> SUFFICES ASSUME SpendInvariant, AdmissionInvariant', [Next]_vars,
                      NEW t \in Task, NEW p \in Period,
                      Spent(quota', t, p, today') > Spent(quota, t, p, today),
                      budget[t][p] # None, Spent(quota', t, p, today') > budget[t][p]
               PROVE  \E g \in Id : /\ grants[g] = NoGrant /\ grants'[g].by \in Approval
                                    /\ grants'[g].action.task = t
    OBVIOUS
  <2>1. /\ TypeOK /\ FiniteRows(quota) /\ FiniteRows(quota')
        /\ Spent(quota, t, p, today) \in Nat /\ Spent(quota', t, p, today') \in Nat
    <3>1. SpendInvariant'
      BY SpendStep
    <3> QED
      BY <3>1, CountedFinite DEF SpendInvariant, AdmissionInvariant, TypeOK
  <2>2. PICK c \in Client : Reserves(c)
    BY <2>1, NothingRises
  <2>3. /\ req[c].id \in Id /\ req[c].cost \in Nat /\ pc[c] = "write" /\ today' = today
        /\ req[c].task \in Task /\ CallKnows(c)
    BY <2>2, ReservationRow DEF SpendInvariant, AdmissionInvariant
  <2>4. t = req[c].task
    <3>1. \A u \in Task \ {req[c].task} : Undisturbed(u)
      BY <2>2, ReservationRow, RowsAdded
    <3> QED
      BY <2>1, <3>1 DEF Undisturbed
  <2>5. Spent(quota', t, p, today') = Spent(quota, t, p, today) + req[c].cost
    BY <2>2, <2>3, <2>4, ReserveSpends
  <2>6. ~Unapproved(c)
    <3>1. budget[t][p] \in Nat
      <4>1. budget \in [Task -> [Period -> Amount \cup {None}]]
        BY <2>1 DEF TypeOK
      <4> QED
        BY <4>1, AdmissionAssumption
    <3>2. Unbudgeted(budget, quota, t, req[c].cost, today)
      BY <2>1, <2>3, <2>5, <3>1 DEF Unbudgeted
    <3> QED
      BY <2>4, <3>2 DEF SpendInvariant, Funded
  <2>7. /\ WriteGrant(c) /\ ~Fail(c) /\ ToolInfo[req[c].action.tool].financial
        /\ req[c].op = "issue"
    BY <2>2, <2>6 DEF Reserves, WriteReservation, WriteGrant, Unapproved
  <2>8. req[c].by \in Approval /\ req[c].action.task = t
    BY <2>1, <2>3, <2>4, <2>6, <2>7 DEF Unapproved, TypeOK, Request, CallKnows, WellFormed
  <2>9. /\ grants[req[c].id] = NoGrant /\ grants \in [Id -> GrantRow]
        /\ grants' = [grants EXCEPT ![req[c].id] = [action |-> req[c].action, by |-> req[c].by]]
    BY <2>1, <2>3, <2>7 DEF WriteGrant, CallKnows, TypeOK
  <2> QED
    BY <2>3, <2>8, <2>9
<1> QED
  BY <1>1, SpendInvariantHolds, AdmissionInvariantHolds, PTL DEF Spec

-----------------------------------------------------------------------------
(* The refinement.                                                         *)

\* What the ledger may reserve.
Costs == {ToolInfo[tool].cost : tool \in Tool} \cup UNION {0 .. q.cap : q \in Quotes}

LEMMA SameSpent ==
  ASSUME NEW q, NEW t, NEW p, NEW day
  PROVE  Ledger!Spent(q, t, p, day) = Spent(q, t, p, day)
BY DEF Ledger!Spent, Spent, Ledger!InPeriod, InPeriod, Ledger!MapThenSumSet,
       MapThenSumSet, Ledger!MapThenFoldSet, MapThenFoldSet

\* The ledger's words, said of the tables.
LEMMA SameWords ==
  /\ Ledger!Period = Period /\ Ledger!NoQuota = NoQuota
  /\ \A t, cost, day : Ledger!Reserved(t, cost, day) = Reserved(t, cost, day)
  /\ \A row, amount : Ledger!Settled(row, amount) = Settled(row, amount)
<1> QED
  BY DEF Ledger!Period, Period, Ledger!NoQuota, NoQuota, Ledger!Reserved, Reserved,
         Ledger!Settled, Settled

LEMMA SameRoom ==
  ASSUME NEW t, NEW cost
  PROVE  Ledger!Unbudgeted(budget, quota, t, cost, today)
           = Unbudgeted(budget, quota, t, cost, today)
BY SameSpent, SameWords DEF Ledger!Unbudgeted, Unbudgeted

Unused == {ap \in Approval : approvals[ap].status = "open"}

\* A commit's reservation as one of the ledger's.
LEMMA ReserveIsLedgers ==
  ASSUME SpendInvariant, NEW c \in Client, Reserves(c)
  PROVE  /\ req[c].id \in Id /\ req[c].task \in Task /\ req[c].cost \in Costs
         /\ Ledger!Reserve(req[c].id, req[c].task, req[c].cost)
<1>1. /\ TypeOK /\ CallKnows(c) /\ Priced(c) /\ req[c] \in Request /\ pc[c] = "write"
      /\ req[c].id \in Id /\ req[c].task \in Task /\ req[c].cost \in Nat
      /\ quota[req[c].id] = NoQuota /\ budget' = budget /\ today' = today
  BY ReservationRow DEF SpendInvariant, AdmissionInvariant, TypeOK
<1>2. quota' = [quota EXCEPT ![req[c].id] = Reserved(req[c].task, req[c].cost, today)]
  BY DEF Reserves, WriteReservation, WriteGrant
<1>3. Ledger!Reserve(req[c].id, req[c].task, req[c].cost)
  <2>1. quota[req[c].id].status = "absent"
    BY <1>1 DEF NoQuota
  <2> QED
    BY <1>1, <1>2, <2>1, SameWords DEF Ledger!Reserve
<1>4. req[c].cost \in Costs
  <2>1. CASE req[c].op = "issue"
    <3>1. req[c].action \in Action /\ req[c].cost = ToolInfo[req[c].action.tool].cost
      BY <1>1, <2>1 DEF CallKnows, WellFormed, Priced
    <3> QED
      BY <3>1, GrantRowsAssumption DEF Costs
  <2>2. CASE req[c].op = "model"
    <3>1. /\ req[c].bounds.quote \in Quotes /\ req[c].cost <= req[c].bounds.quote.cap
          /\ req[c].bounds.quote.cap \in Nat
      BY <1>1, <2>2, AdmissionAssumption
      DEF CallKnows, WellFormed, Covered, Bounds, ModelQuote
    <3>2. req[c].cost \in 0 .. req[c].bounds.quote.cap
      BY <1>1, <3>1
    <3> QED
      BY <3>1, <3>2 DEF Costs
  <2> QED
    BY <1>1, <2>1, <2>2 DEF CallKnows, WellFormed
<1> QED
  BY <1>1, <1>3, <1>4

\* Without an approval: the check that the ledger makes in the same step still holds.
LEMMA UnapprovedIsLedgers ==
  ASSUME SpendInvariant, NEW c \in Client, Reserves(c), Unapproved(c), Unused' = Unused
  PROVE  Ledger!Next
<1>1. ~Unbudgeted(budget, quota, req[c].task, req[c].cost, today)
  BY DEF SpendInvariant, Funded
<1>2. ~Ledger!Unbudgeted(budget, quota, req[c].task, req[c].cost, today)
  BY <1>1, SameRoom
<1>3. Ledger!AdmitBudgeted(req[c].id, req[c].task, req[c].cost)
  BY <1>2, ReserveIsLedgers DEF Ledger!AdmitBudgeted, Unused
<1> QED
  BY <1>3, ReserveIsLedgers DEF Ledger!Next, Costs

LEMMA GrantIsLedgers ==
  ASSUME SpendInvariant, NEW c \in Client, WriteGrant(c)
  PROVE  [Ledger!Next]_(Ledger!vars)
<1>1. /\ TypeOK /\ CallKnows(c) /\ req[c].by \in Approval \cup {None}
      /\ pc[c] = "write" /\ req[c].op = "issue"
  BY DEF SpendInvariant, AdmissionInvariant, TypeOK, Request, WriteGrant
<1>2. CASE Fail(c)
  BY <1>2 DEF Fail, tables, Ledger!vars
<1>3. CASE ~Fail(c) /\ req[c].by = None
  <2>1. approvals' = approvals /\ budget' = budget /\ today' = today
    BY <1>3 DEF WriteGrant
  <2>2. Unused' = Unused
    BY <2>1 DEF Unused
  <2>3. CASE ToolInfo[req[c].action.tool].financial
    <3>1. Reserves(c) /\ Unapproved(c)
      BY <1>1, <1>3, <2>3 DEF Reserves, Unapproved
    <3> QED
      BY <2>2, <3>1, UnapprovedIsLedgers
  <2>4. CASE ~ToolInfo[req[c].action.tool].financial
    <3>1. quota' = quota
      BY <1>3, <2>4 DEF WriteGrant
    <3> QED
      BY <2>1, <2>2, <3>1 DEF Ledger!vars, Unused
  <2> QED
    BY <2>3, <2>4
<1>4. CASE ~Fail(c) /\ req[c].by # None
  <2>0. PICK by \in Approval : by = req[c].by
    BY <1>1, <1>4
  <2>1. /\ approvals[by].status = "open"
        /\ approvals' = [approvals EXCEPT ![by].status = "consumed"]
        /\ budget' = budget /\ today' = today
    BY <1>4, <2>0 DEF WriteGrant
  <2>2. by \in Unused /\ Unused' = Unused \ {by}
    <3>1. \A ap \in Approval : approvals'[ap].status =
                                 IF ap = by THEN "consumed" ELSE approvals[ap].status
      BY <1>1, <2>1 DEF TypeOK, ApprovalRow
    <3> QED
      BY <2>1, <3>1 DEF Unused
  <2>3. CASE ToolInfo[req[c].action.tool].financial
    <3>1. Reserves(c)
      BY <1>4, <2>3 DEF Reserves
    <3>2. Ledger!AdmitApproved(req[c].id, req[c].task, req[c].cost, by)
      BY <2>2, <3>1, ReserveIsLedgers DEF Ledger!AdmitApproved, Unused
    <3>4. req[c].id \in Id /\ req[c].task \in Task /\ req[c].cost \in Costs
      BY <3>1, ReserveIsLedgers
    <3>5. Ledger!Next
      BY <3>2, <3>4 DEF Ledger!Next, Costs
    <3> QED
      BY <3>5
  <2>4. CASE ~ToolInfo[req[c].action.tool].financial
    <3>1. quota' = quota
      BY <1>4, <2>4 DEF WriteGrant
    <3>2. Ledger!Use(by)
      BY <2>1, <2>2, <3>1 DEF Ledger!Use, Unused
    <3>4. Ledger!Next
      BY <3>2 DEF Ledger!Next
    <3> QED
      BY <3>4
  <2> QED
    BY <2>3, <2>4
<1> QED
  BY <1>2, <1>3, <1>4

LEMMA SettleIsLedgers ==
  ASSUME SpendInvariant, NEW r \in Id, NEW amount \in 0 .. quota[r].reserved,
         quota[r].status = "reserved",
         quota' = [quota EXCEPT ![r] = Settled(quota[r], amount)],
         UNCHANGED <<approvals, budget, today>>
  PROVE  Ledger!Next
<1>1. Ledger!Settle(r, amount)
  BY SameWords DEF Ledger!Settle
<1> QED
  BY <1>1 DEF Ledger!Next

LEMMA SettleModelIsLedgers ==
  ASSUME SpendInvariant, NEW c \in Client, SettleModel(c)
  PROVE  [Ledger!Next]_(Ledger!vars)
<1>1. /\ pc[c] = "infer" /\ TypeOK /\ CallKnows(c)
      /\ UNCHANGED <<approvals, budget, today>>
  BY DEF SpendInvariant, AdmissionInvariant, SettleModel
<1>2. /\ req[c].id \in Id /\ Covered(req[c]) /\ req[c].cost \in Nat
      /\ quota[req[c].id].status = "reserved" /\ quota[req[c].id].reserved = req[c].cost
  BY <1>1 DEF CallKnows, WellFormed, TypeOK, Request
<1>3. PICK charge \in Nat :
        quota' = IF charge <= req[c].cost /\ quota[req[c].id].status = "reserved"
                 THEN [quota EXCEPT ![req[c].id] = Settled(quota[req[c].id], charge)]
                 ELSE quota
  BY <1>2 DEF SettleModel, Covered
<1>4. CASE charge <= req[c].cost
  <2>1. /\ charge \in 0 .. quota[req[c].id].reserved
        /\ quota' = [quota EXCEPT ![req[c].id] = Settled(quota[req[c].id], charge)]
    BY <1>2, <1>3, <1>4
  <2> QED
    BY <1>1, <1>2, <2>1, SettleIsLedgers
<1>5. CASE ~(charge <= req[c].cost)
  BY <1>1, <1>3, <1>5 DEF Ledger!vars
<1> QED
  BY <1>4, <1>5

\* Every step of Admission is one of the ledger's or changes nothing of it.
LEMMA StepIsLedgers ==
  ASSUME SpendInvariant, [Next]_vars
  PROVE  [Ledger!Next]_(Ledger!vars)
<1>1. ASSUME UNCHANGED <<approvals, quota, budget, today>>
      PROVE  [Ledger!Next]_(Ledger!vars)
  BY <1>1 DEF Ledger!vars
<1>2. ASSUME NEW c \in Client, Fail(c)  PROVE [Ledger!Next]_(Ledger!vars)
  BY <1>1, <1>2 DEF Fail, tables
<1>3. ASSUME NEW c \in Client, Issue(c)  PROVE [Ledger!Next]_(Ledger!vars)
  BY <1>1, <1>2, <1>3, GrantIsLedgers DEF Issue, CallIssue, AssessIssue, Choose, tables
<1>4. ASSUME NEW c \in Client, WriteReservation(c)  PROVE [Ledger!Next]_(Ledger!vars)
  <2>1. Reserves(c) /\ Unapproved(c) /\ approvals' = approvals
    BY <1>4 DEF Reserves, WriteReservation, Unapproved
  <2> QED
    BY <2>1, UnapprovedIsLedgers DEF Unused
<1>5. ASSUME NEW c \in Client, ReserveModel(c)  PROVE [Ledger!Next]_(Ledger!vars)
  BY <1>1, <1>2, <1>4, <1>5, SettleModelIsLedgers
  DEF ReserveModel, CallModel, AssessModel, InferFails, tables
<1>6. ASSUME NEW c \in Client, Lock(c) \/ LockTimeout(c) \/ Crash(c)
      PROVE  [Ledger!Next]_(Ledger!vars)
  BY <1>1, <1>2, <1>6 DEF Lock, LockTimeout, Crash, tables
<1>7. ASSUME NEW r \in Id, NEW amount \in 0 .. quota[r].reserved, Settle(r, amount)
      PROVE  [Ledger!Next]_(Ledger!vars)
  BY <1>7, SettleIsLedgers DEF Settle
<1>8. ASSUME NEW ap \in Approval, NEW a \in Action, Approve(ap, a)
      PROVE  [Ledger!Next]_(Ledger!vars)
  <2>1. approvals \in [Approval -> ApprovalRow] /\ UNCHANGED <<quota, budget, today>>
    BY <1>8 DEF SpendInvariant, AdmissionInvariant, TypeOK, Approve
  <2>2. Unused' = Unused \cup {ap}
    BY <1>8, <2>1 DEF Approve, Unused
  <2>3. Ledger!Approve(ap)
    BY <2>1, <2>2 DEF Ledger!Approve, Unused
  <2> QED
    BY <2>3 DEF Ledger!Next
<1>9. ASSUME NEW t \in Task, NEW p \in Period, NEW cents \in Amount, SetBudget(t, p, cents)
      PROVE  [Ledger!Next]_(Ledger!vars)
  <2>1. Ledger!SetBudget(t, p, cents)
    BY <1>9 DEF SetBudget, Ledger!SetBudget
  <2> QED
    BY <2>1, SameWords DEF Ledger!Next
<1>10. CASE NewDay
  <2>1. Ledger!NewDay
    BY <1>10 DEF NewDay, Ledger!NewDay
  <2> QED
    BY <2>1 DEF Ledger!Next
<1>11. CASE Tick
  <2>1. approvals \in [Approval -> ApprovalRow] /\ UNCHANGED <<quota, budget, today>>
    BY <1>11 DEF SpendInvariant, AdmissionInvariant, TypeOK, Tick
  <2>2. \A ap \in Approval : approvals'[ap].status = approvals[ap].status
    BY <1>11, <2>1 DEF Tick, ApprovalRow
  <2>3. Unused' = Unused
    BY <2>2 DEF Unused
  <2> QED
    BY <2>1, <2>3 DEF Ledger!vars, Unused
<1>12. ASSUME NEW t \in Task, CloseTask(t)  PROVE [Ledger!Next]_(Ledger!vars)
  BY <1>1, <1>12 DEF CloseTask
<1>13. ASSUME NEW t \in Task, NEW tool \in Tool, ChangeShare(t, tool)
       PROVE  [Ledger!Next]_(Ledger!vars)
  BY <1>1, <1>13 DEF ChangeShare
<1>14. CASE UNCHANGED vars
  BY <1>1, <1>14 DEF vars
<1> QED
  BY <1>3, <1>5, <1>6, <1>7, <1>8, <1>9, <1>10, <1>11, <1>12, <1>13, <1>14 DEF Next

\* The transactions of both engines admit money as the atomic ledger does: in one
\* step, within every budget or against an approval nobody else can use
\* (governance.issue, model_proxy, settle_record).
THEOREM AdmissionImplementsLedger == Spec => ImplementsSpendLedger
<1>1. Init => Ledger!Init
  <2> SUFFICES ASSUME Init  PROVE Ledger!Init
    OBVIOUS
  <2>1. {ap \in Approval : approvals[ap].status = "open"} = {}
    BY DEF Init, NoApproval
  <2> QED
    BY <2>1, SameWords DEF Init, Ledger!Init
<1>2. SpendInvariant /\ [Next]_vars => [Ledger!Next]_(Ledger!vars)
  BY StepIsLedgers
<1> QED
  BY <1>1, <1>2, SpendInvariantHolds, PTL DEF Spec, ImplementsSpendLedger, Ledger!Spec
=============================================================================
