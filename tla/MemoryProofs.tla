----------------------------- MODULE MemoryProofs -----------------------------
(***************************************************************************)
(* Proofs about Memory, for any organizations, tasks, texts and librarians, *)
(* any policies and any number of faults.                                  *)
(***************************************************************************)
EXTENDS Memory, TLAPS

\* An evaluator that saw a sourced text of a task it may see has approved it.
Corroborated(x) ==
  /\ "approve" \in verdicts[x]
  /\ TextInfo[x].sourced /\ ~TaskInfo[TextInfo[x].task].private

\* What the rows of a text say of each other and of its history.
RowsAgree(x) ==
  /\ \A level \in Level : claims[x][level].status # "promoted" => claims[x][level].by = None
  /\ claims[x]["copy"].by \in {None, "operator"}
  /\ claims[x]["copy"].status = "promoted" => x \in reviewed
  /\ claims[x]["global"].status = "promoted" => x \in reviewed
  /\ claims[x]["candidate"].status = "promoted" => x \in reviewed \/ Corroborated(x)
  /\ claims[x]["task"].by = "task_policy" => draft[x].held

\* A text whose capture has not committed has no rows, and the decision it
\* carries was allowed.
CaptureKnows(x) ==
  /\ draft[x].pc # "done" =>
       /\ \A level \in Level : claims[x][level] = Absent
       /\ jobs[x].status = "absent"
  /\ draft[x].pc \in {"check", "insert"} /\ draft[x].authority # "human_gated"
       => draft[x].held

\* What a librarian knows of its job, transaction by transaction: the policy may
\* have changed since, but it did allow what is about to be written.
LibrarianKnows(l) ==
  /\ lib[l].pc # "idle" => lib[l].job \in Text
  /\ lib[l].pc \in {"evaluate", "recheck", "promote"} =>
       TextInfo[lib[l].job].sourced /\ ~TaskInfo[TextInfo[lib[l].job].task].private
  /\ lib[l].pc \in {"recheck", "promote"} => "approve" \in verdicts[lib[l].job]
  /\ lib[l].pc = "recheck" /\ LibrarianMay(lib[l].job, authority, consent) => lib[l].held
  /\ lib[l].pc = "promote" => lib[l].held

MemoryInvariant ==
  /\ TypeOK
  /\ \A x \in Text : RowsAgree(x) /\ CaptureKnows(x)
  /\ \A l \in Librarian : LibrarianKnows(l)

-----------------------------------------------------------------------------
(* Frames: what a step of somebody else leaves true.                       *)

LEMMA RowsKept ==
  ASSUME NEW x, RowsAgree(x),
         \A level \in Level : claims'[x][level] = claims[x][level],
         draft[x].held => draft'[x].held,
         x \in reviewed => x \in reviewed', verdicts[x] \subseteq verdicts'[x]
  PROVE  RowsAgree(x)'
BY DEF RowsAgree, Corroborated, Level

LEMMA CaptureKept ==
  ASSUME NEW x, CaptureKnows(x),
         \A level \in Level : claims'[x][level] = claims[x][level],
         draft'[x] = draft[x],
         jobs[x].status = "absent" => jobs'[x].status = "absent"
  PROVE  CaptureKnows(x)'
BY DEF CaptureKnows

LEMMA LibrarianKept ==
  ASSUME NEW l, LibrarianKnows(l), lib'[l] = lib[l],
         authority' = authority, consent' = consent,
         lib[l].pc # "idle" => verdicts[lib[l].job] \subseteq verdicts'[lib[l].job]
  PROVE  LibrarianKnows(l)'
BY DEF LibrarianKnows, LibrarianMay, AuthorityOver, MayLeave

-----------------------------------------------------------------------------
(* Types.                                                                  *)

LEMMA InitType == Init => TypeOK
<1> SUFFICES ASSUME Init PROVE TypeOK
  OBVIOUS
<1>1. authority \in [Org -> Authority] /\ consent \in [Org -> BOOLEAN]
  BY DEF Init
<1>2. claims \in [Text -> [Level -> Row]] /\ jobs \in [Text -> Job]
  BY DEF Init, Row, Job, Absent
<1>3. draft \in [Text -> Draft]
  BY DEF Init, Draft, NoDraft, Authority
<1>4. lib \in [Librarian -> Cycling]
  BY DEF Init, Cycling, Idle
<1>5. created \in Seq(Text) /\ faults \in 0 .. MaxFaults
  BY MemoryAssumption DEF Init
<1> QED
  BY <1>1, <1>2, <1>3, <1>4, <1>5 DEF Init, TypeOK

\* The authority a capture reads is one of the three.
LEMMA AuthorityOfCapture ==
  ASSUME TypeOK, NEW x \in Text, TextInfo[x].task # None
  PROVE  AuthorityOver(x, authority) \in Authority
<1>1. TextInfo[x].task \in Task
  BY MemoryAssumption
<1>2. TaskInfo[TextInfo[x].task].org \in Org /\ TaskInfo[TextInfo[x].task].authority \in Authority
  BY <1>1, MemoryAssumption
<1> QED
  BY <1>2 DEF TypeOK, AuthorityOver, effective_memory_authority, OrgOf

LEMMA WitnessType ==
  ASSUME TypeOK, NEW setting, NEW optin, Witness(setting, optin)
  PROVE  draft' \in [Text -> Draft] /\ lib' \in [Librarian -> Cycling]
<1>1. ASSUME NEW x \in Text PROVE draft'[x] \in Draft
  <2>1. draft[x] \in Draft
    BY DEF TypeOK
  <2>2. draft'[x] = draft[x] \/ \E b \in BOOLEAN : draft'[x] = [draft[x] EXCEPT !.held = b]
    BY DEF Witness
  <2> QED
    BY <2>1, <2>2 DEF Draft
<1>2. ASSUME NEW l \in Librarian PROVE lib'[l] \in Cycling
  <2>1. lib[l] \in Cycling
    BY DEF TypeOK
  <2>2. lib'[l] = lib[l] \/ \E b \in BOOLEAN : lib'[l] = [lib[l] EXCEPT !.held = b]
    BY DEF Witness
  <2> QED
    BY <2>1, <2>2 DEF Cycling
<1> QED
  BY <1>1, <1>2 DEF Witness

LEMMA SettingsType ==
  ASSUME TypeOK,
         \/ \E o \in Org, a \in Authority : SetAuthority(o, a)
         \/ \E o \in Org : SetConsent(o, ~consent[o])
         \/ \E t \in Task \ terminal : EndTask(t)
         \/ \E x \in Text \ expired : Expire(x)
  PROVE  TypeOK'
<1>1. ASSUME NEW o \in Org, NEW a \in Authority, SetAuthority(o, a)
      PROVE  TypeOK'
  <2>1. draft' \in [Text -> Draft] /\ lib' \in [Librarian -> Cycling]
    BY <1>1, WitnessType DEF SetAuthority
  <2>2. authority' \in [Org -> Authority]
    BY <1>1 DEF SetAuthority, TypeOK
  <2> QED
    BY <1>1, <2>1, <2>2 DEF TypeOK, SetAuthority
<1>2. ASSUME NEW o \in Org, SetConsent(o, ~consent[o])
      PROVE  TypeOK'
  <2>1. draft' \in [Text -> Draft] /\ lib' \in [Librarian -> Cycling]
    BY <1>2, WitnessType DEF SetConsent
  <2>2. consent' \in [Org -> BOOLEAN]
    BY <1>2 DEF SetConsent, TypeOK
  <2> QED
    BY <1>2, <2>1, <2>2 DEF TypeOK, SetConsent
<1>3. ASSUME NEW t \in Task, EndTask(t)
      PROVE  TypeOK'
  BY <1>3 DEF TypeOK, EndTask
<1>4. ASSUME NEW x \in Text, Expire(x)
      PROVE  TypeOK'
  BY <1>4 DEF TypeOK, Expire
<1> QED
  BY <1>1, <1>2, <1>3, <1>4

\* A row of a text that is set to another row.
LEMMA ClaimsType ==
  ASSUME TypeOK, NEW x \in Text, NEW level \in Level, NEW row \in Row,
         claims' = [claims EXCEPT ![x][level] = row]
  PROVE  claims' \in [Text -> [Level -> Row]]
BY DEF TypeOK

LEMMA RowsAreRows ==
  /\ Absent \in Row /\ Pending \in Row
  /\ \A by \in {"task_policy", "librarian", "operator"} : Promoted(by) \in Row
BY DEF Row, Absent, Pending, Promoted

LEMMA CreatedType ==
  ASSUME NEW s \in Seq(Text), NEW x \in Text
  PROVE  Append(s, x) \in Seq(Text)
OBVIOUS

\* A job that is replaced, or whose status is.
LEMMA JobsType ==
  ASSUME TypeOK, NEW x,
         \/ jobs' = jobs
         \/ \E j \in Job : jobs' = [jobs EXCEPT ![x] = j]
         \/ \E status \in {"pending", "promoted"} : jobs' = [jobs EXCEPT ![x].status = status]
  PROVE  jobs' \in [Text -> Job]
<1>1. ASSUME NEW j \in Job, jobs' = [jobs EXCEPT ![x] = j]
      PROVE  jobs' \in [Text -> Job]
  BY <1>1 DEF TypeOK
<1>2. ASSUME NEW status \in {"pending", "promoted"}, jobs' = [jobs EXCEPT ![x].status = status]
      PROVE  jobs' \in [Text -> Job]
  <2>1. ASSUME NEW y \in Text PROVE jobs'[y] \in Job
    <3>1. jobs[y] \in Job
      BY DEF TypeOK
    <3>2. jobs'[y] = jobs[y] \/ jobs'[y] = [jobs[y] EXCEPT !.status = status]
      BY <1>2 DEF TypeOK
    <3> QED
      BY <3>1, <3>2 DEF Job
  <2> QED
    BY <1>2, <2>1 DEF TypeOK
<1> QED
  BY <1>1, <1>2 DEF TypeOK

LEMMA TextType ==
  ASSUME TypeOK, NEW x \in Text,
         \/ ReadAuthority(x) \/ CheckTask(x) \/ Insert(x) \/ CaptureGlobal(x) \/ Age(x)
         \/ promote_to_organization(x)
         \/ \E level \in Level : promote(x, level)
  PROVE  TypeOK'
<1>1. CASE ReadAuthority(x)
  <2>1. AuthorityOver(x, authority) \in Authority
    BY <1>1, AuthorityOfCapture DEF ReadAuthority
  <2>2. draft' \in [Text -> Draft]
    BY <1>1, <2>1 DEF TypeOK, ReadAuthority, Draft
  <2> QED
    BY <1>1, <2>2 DEF TypeOK, ReadAuthority, settings
<1>2. CASE CheckTask(x)
  <2>1. PICK pc \in {"insert", "done"} : draft' = [draft EXCEPT ![x].pc = pc]
    BY <1>2 DEF CheckTask
  <2>2. created' = created \/ created' = Append(created, x)
    BY <1>2 DEF CheckTask
  <2>3. draft' \in [Text -> Draft]
    BY <2>1 DEF TypeOK, Draft
  <2>4. created' \in Seq(Text)
    BY <2>2, CreatedType DEF TypeOK
  <2> QED
    BY <1>2, <2>3, <2>4 DEF TypeOK, CheckTask, settings
<1>3. CASE Insert(x)
  <2>1. claims' \in [Text -> [Level -> Row]]
    BY <1>3, RowsAreRows DEF TypeOK, Insert, Level
  <2>2. jobs' \in [Text -> Job]
    BY <1>3 DEF TypeOK, Insert, Job
  <2>3. draft' \in [Text -> Draft]
    BY <1>3 DEF TypeOK, Insert, Draft
  <2> QED
    BY <1>3, <2>1, <2>2, <2>3 DEF TypeOK, Insert, settings
<1>4. CASE CaptureGlobal(x)
  <2>1. claims' \in [Text -> [Level -> Row]]
    BY <1>4, RowsAreRows, ClaimsType DEF CaptureGlobal, Level
  <2>2. draft' \in [Text -> Draft]
    BY <1>4 DEF TypeOK, CaptureGlobal, Draft
  <2> QED
    BY <1>4, <2>1, <2>2 DEF TypeOK, CaptureGlobal, settings
<1>5. CASE Age(x)
  <2>1. faults' \in 0 .. MaxFaults
    BY <1>5, MemoryAssumption DEF TypeOK, Age, Fault
  <2>2. jobs' \in [Text -> Job]
    BY <1>5 DEF TypeOK, Age, Job
  <2> QED
    BY <1>5, <2>1, <2>2 DEF TypeOK, Age, settings
<1>6. CASE promote_to_organization(x)
  <2>1. claims' \in [Text -> [Level -> Row]]
    BY <1>6, RowsAreRows, ClaimsType DEF promote_to_organization, Level
  <2> QED
    BY <1>6, <2>1 DEF TypeOK, promote_to_organization, settings
<1>7. ASSUME NEW level \in Level, promote(x, level)
      PROVE  TypeOK'
  <2>1. claims' \in [Text -> [Level -> Row]]
    BY <1>7, RowsAreRows, ClaimsType DEF promote
  <2> QED
    BY <1>7, <2>1 DEF TypeOK, promote, settings
<1> QED
  BY <1>1, <1>2, <1>3, <1>4, <1>5, <1>6, <1>7

\* A librarian whose record changes and stays a record.
LEMMA LibType ==
  ASSUME TypeOK, NEW l \in Librarian, NEW r \in Cycling, lib' = [lib EXCEPT ![l] = r]
  PROVE  lib' \in [Librarian -> Cycling]
BY DEF TypeOK

LEMMA LibrarianType ==
  ASSUME TypeOK, NEW l \in Librarian, lib[l].pc # "idle" => lib[l].job \in Text,
         Cycle(l) \/ Crash(l)
  PROVE  TypeOK'
<1>0. lib[l] \in Cycling /\ Idle \in Cycling
  BY DEF TypeOK, Cycling, Idle
<1>1. CASE Pick(l)
  <2>1. PICK i \in 1..Len(created) :
          lib' = [lib EXCEPT ![l] = [@ EXCEPT !.pc = "claim", !.job = created[i]]]
    BY <1>1 DEF Pick
  <2>2. created[i] \in Text
    BY DEF TypeOK
  <2>3. lib' \in [Librarian -> Cycling]
    BY <1>0, <2>1, <2>2, LibType DEF Cycling
  <2> QED
    BY <1>1, <2>3 DEF TypeOK, Pick, settings
<1>2. CASE Claim(l)
  <2>1. Disposition(lib[l].job) \in {"evaluate", "pending", "review_required"}
    BY DEF Disposition
  <2>2. \/ lib' = [lib EXCEPT ![l] = Idle]
        \/ lib' = [lib EXCEPT ![l] = [@ EXCEPT !.pc = "evaluate"]]
        \/ \E o \in {"pending", "review_required"} :
             lib' = [lib EXCEPT ![l] = [@ EXCEPT !.pc = "finish", !.outcome = o]]
    BY <1>2, <2>1 DEF Claim
  <2>3. lib' \in [Librarian -> Cycling]
    <3>1. [lib[l] EXCEPT !.pc = "evaluate"] \in Cycling
      BY <1>0 DEF Cycling
    <3>2. \A o \in {"pending", "review_required"} :
            [lib[l] EXCEPT !.pc = "finish", !.outcome = o] \in Cycling
      BY <1>0 DEF Cycling
    <3> QED
      BY <1>0, <2>2, <3>1, <3>2, LibType
  <2>4. \/ jobs' = jobs
        \/ jobs' = [jobs EXCEPT ![lib[l].job] = [status |-> "evaluating", stale |-> FALSE]]
    BY <1>2 DEF Claim
  <2>5. jobs' \in [Text -> Job]
    BY <2>4, JobsType DEF Job
  <2> QED
    BY <1>2, <2>3, <2>5 DEF TypeOK, Claim, settings
<1>3. CASE Finish(l)
  <2>1. lib' \in [Librarian -> Cycling]
    BY <1>0, <1>3 DEF TypeOK, Finish
  <2>2. lib[l].outcome \in {"pending", "review_required"}
    BY <1>0 DEF Cycling
  <2>3. jobs' \in [Text -> Job]
    BY <1>3, <2>2 DEF TypeOK, Finish, Job
  <2> QED
    BY <1>3, <2>1, <2>3 DEF TypeOK, Finish, settings
<1>4. CASE Recheck(l)
  <2>1. lib' \in [Librarian -> Cycling]
    BY <1>0, <1>4 DEF TypeOK, Recheck, Cycling
  <2> QED
    BY <1>4, <2>1 DEF TypeOK, Recheck, settings
<1>5. CASE Promote(l)
  <2>1. lib' \in [Librarian -> Cycling]
    BY <1>0, <1>5 DEF TypeOK, Promote
  <2>2. claims' \in [Text -> [Level -> Row]]
    BY <1>5, RowsAreRows, ClaimsType DEF TypeOK, Promote, Level
  <2>3. \/ jobs' = jobs
        \/ jobs' = [jobs EXCEPT ![lib[l].job].status = "promoted"]
        \/ jobs' = [jobs EXCEPT ![lib[l].job].status = @]
    BY <1>5 DEF Promote
  <2>4. jobs' \in [Text -> Job]
    <3>1. CASE jobs' = [jobs EXCEPT ![lib[l].job].status = @]
      BY <3>1 DEF TypeOK, Job
    <3> QED
      BY <2>3, <3>1, JobsType
  <2> QED
    BY <1>5, <2>1, <2>2, <2>4 DEF TypeOK, Promote, settings
<1>6. ASSUME NEW verdict \in {"approve", "reject", "fail"}, Evaluate(l, verdict)
      PROVE  TypeOK'
  <2>1. LibrarianMay(lib[l].job, authority, consent) \in BOOLEAN
    BY DEF LibrarianMay
  <2>2. lib' \in [Librarian -> Cycling]
    BY <1>0, <1>6, <2>1 DEF TypeOK, Evaluate, Cycling
  <2>3. verdicts' \in [Text -> SUBSET {"approve", "reject", "fail"}]
    BY <1>6 DEF TypeOK, Evaluate
  <2> QED
    BY <1>6, <2>2, <2>3 DEF TypeOK, Evaluate, settings
<1>7. CASE Crash(l)
  <2>1. faults' \in 0 .. MaxFaults
    BY <1>7, MemoryAssumption DEF TypeOK, Crash, Fault
  <2>2. lib' \in [Librarian -> Cycling]
    BY <1>0, <1>7 DEF TypeOK, Crash
  <2> QED
    BY <1>7, <2>1, <2>2 DEF TypeOK, Crash, settings
<1> QED
  BY <1>1, <1>2, <1>3, <1>4, <1>5, <1>6, <1>7 DEF Cycle

-----------------------------------------------------------------------------
(* Policies and time.                                                      *)

\* A text's invariants, and a step that writes only to one text.
TextKnows(x) == RowsAgree(x) /\ CaptureKnows(x)

LEMMA OthersKept ==
  ASSUME MemoryInvariant, NEW x \in Text, TextKnows(x)',
         \A y \in Text \ {x} :
           claims'[y] = claims[y] /\ jobs'[y] = jobs[y] /\ draft'[y] = draft[y],
         reviewed \subseteq reviewed', verdicts' = verdicts
  PROVE  (\A y \in Text : TextKnows(y))'
<1>1. ASSUME NEW y \in Text, y # x
      PROVE  TextKnows(y)'
  <2>1. RowsAgree(y) /\ CaptureKnows(y)
    BY DEF MemoryInvariant
  <2>2. RowsAgree(y)'
    BY <1>1, <2>1, RowsKept
  <2>3. CaptureKnows(y)'
    BY <1>1, <2>1, CaptureKept
  <2> QED
    BY <2>2, <2>3 DEF TextKnows
<1> QED
  BY <1>1

LEMMA InitInvariant == Init => MemoryInvariant
<1> SUFFICES ASSUME Init PROVE MemoryInvariant
  OBVIOUS
<1>1. ASSUME NEW x \in Text PROVE RowsAgree(x) /\ CaptureKnows(x)
  BY MemoryAssumption DEF Init, RowsAgree, CaptureKnows, Level, Absent, NoDraft
<1>2. ASSUME NEW l \in Librarian PROVE LibrarianKnows(l)
  BY DEF Init, LibrarianKnows, Idle
<1> QED
  BY InitType, <1>1, <1>2 DEF MemoryInvariant

\* A new policy may be the first to allow a decision in flight, and takes back
\* none that was allowed.
LEMMA PolicyKeeps ==
  ASSUME MemoryInvariant, Witness(authority', consent'),
         claims' = claims, jobs' = jobs, verdicts' = verdicts, reviewed' = reviewed
  PROVE  /\ (\A x \in Text : TextKnows(x))'
         /\ (\A l \in Librarian : LibrarianKnows(l))'
<1>1. ASSUME NEW x \in Text PROVE TextKnows(x)'
  <2>0. draft[x] \in Draft /\ RowsAgree(x) /\ CaptureKnows(x)
    BY DEF MemoryInvariant, TypeOK
  <2>1. /\ draft'[x].pc = draft[x].pc /\ draft'[x].authority = draft[x].authority
        /\ draft[x].held => draft'[x].held
    BY <2>0 DEF Witness, Draft
  <2>2. RowsAgree(x)'
    BY <2>0, <2>1, RowsKept
  <2>3. CaptureKnows(x)'
    BY <2>0, <2>1 DEF CaptureKnows
  <2> QED
    BY <2>2, <2>3 DEF TextKnows
<1>2. ASSUME NEW l \in Librarian PROVE LibrarianKnows(l)'
  <2>0. lib[l] \in Cycling /\ LibrarianKnows(l)
    BY DEF MemoryInvariant, TypeOK
  <2>1. /\ lib'[l].pc = lib[l].pc /\ lib'[l].job = lib[l].job
        /\ lib[l].held => lib'[l].held
    BY <2>0 DEF Witness, Cycling
  <2>2. lib[l].pc \in {"recheck", "promote"} /\ LibrarianMay(lib[l].job, authority', consent')
          => lib'[l].held
    BY <2>0 DEF Witness, Cycling
  <2>3. LibrarianMay(lib[l].job, authority, consent)' = LibrarianMay(lib'[l].job, authority', consent')
    BY DEF LibrarianMay, AuthorityOver, MayLeave
  <2> QED
    BY <2>0, <2>1, <2>2, <2>3 DEF LibrarianKnows
<1> QED
  BY <1>1, <1>2

LEMMA SettingsKeep ==
  ASSUME MemoryInvariant,
         \/ \E o \in Org, a \in Authority : SetAuthority(o, a)
         \/ \E o \in Org : SetConsent(o, ~consent[o])
         \/ \E t \in Task \ terminal : EndTask(t)
         \/ \E x \in Text \ expired : Expire(x)
  PROVE  MemoryInvariant'
<1>0. TypeOK'
  BY SettingsType DEF MemoryInvariant
<1>1. ASSUME \/ \E o \in Org, a \in Authority : SetAuthority(o, a)
             \/ \E o \in Org : SetConsent(o, ~consent[o])
      PROVE  MemoryInvariant'
  <2>1. Witness(authority', consent')
    BY <1>1 DEF SetAuthority, SetConsent
  <2>2. claims' = claims /\ jobs' = jobs /\ verdicts' = verdicts /\ reviewed' = reviewed
    BY <1>1 DEF SetAuthority, SetConsent
  <2> QED
    BY <1>0, <2>1, <2>2, PolicyKeeps DEF MemoryInvariant, TextKnows
<1>2. ASSUME \/ \E t \in Task : EndTask(t)
             \/ \E x \in Text : Expire(x)
      PROVE  MemoryInvariant'
  <2>1. /\ claims' = claims /\ jobs' = jobs /\ verdicts' = verdicts /\ reviewed' = reviewed
        /\ draft' = draft /\ lib' = lib /\ authority' = authority /\ consent' = consent
    BY <1>2 DEF EndTask, Expire
  <2>2. ASSUME NEW x \in Text PROVE (RowsAgree(x) /\ CaptureKnows(x))'
    BY <2>1, RowsKept, CaptureKept DEF MemoryInvariant
  <2>3. ASSUME NEW l \in Librarian PROVE LibrarianKnows(l)'
    BY <2>1, LibrarianKept DEF MemoryInvariant
  <2> QED
    BY <1>0, <2>2, <2>3 DEF MemoryInvariant
<1> QED
  BY <1>1, <1>2

-----------------------------------------------------------------------------
(* Captures and operators.                                                 *)

LEMMA TextKeeps ==
  ASSUME MemoryInvariant, NEW x \in Text,
         \/ ReadAuthority(x) \/ CheckTask(x) \/ Insert(x) \/ CaptureGlobal(x) \/ Age(x)
         \/ promote_to_organization(x)
         \/ \E level \in Level : promote(x, level)
  PROVE  MemoryInvariant'
<1>0. TypeOK'
  BY TextType DEF MemoryInvariant
<1>1. /\ claims[x] \in [Level -> Row] /\ jobs[x] \in Job /\ draft[x] \in Draft
      /\ RowsAgree(x) /\ CaptureKnows(x)
      /\ claims \in [Text -> [Level -> Row]] /\ jobs \in [Text -> Job] /\ draft \in [Text -> Draft]
  BY DEF MemoryInvariant, TypeOK
<1>2. /\ lib' = lib /\ authority' = authority /\ consent' = consent /\ verdicts' = verdicts
      /\ reviewed \subseteq reviewed'
  BY DEF ReadAuthority, CheckTask, Insert, CaptureGlobal, Age, promote_to_organization,
         promote, settings
<1>3. ASSUME NEW y \in Text \ {x}
      PROVE  claims'[y] = claims[y] /\ jobs'[y] = jobs[y] /\ draft'[y] = draft[y]
  BY <1>1 DEF ReadAuthority, CheckTask, Insert, CaptureGlobal, Age,
         promote_to_organization, promote
<1>4. TextKnows(x)'
  <2>1. CASE ReadAuthority(x)
    <3>1. /\ draft'[x].authority # "human_gated" => draft'[x].held
          /\ draft[x].pc = "new" /\ claims' = claims /\ jobs' = jobs /\ reviewed' = reviewed
      BY <1>1, <2>1 DEF ReadAuthority
    <3>2. claims[x]["task"].by # "task_policy"
      BY <1>1, <3>1, MemoryAssumption DEF CaptureKnows, Absent, Level
    <3> QED
      BY <1>1, <1>2, <3>1, <3>2 DEF TextKnows, RowsAgree, CaptureKnows, Corroborated
  <2>2. CASE CheckTask(x)
    <3>1. /\ draft'[x].authority = draft[x].authority /\ draft'[x].held = draft[x].held
          /\ draft[x].pc = "check" /\ claims' = claims /\ jobs' = jobs /\ reviewed' = reviewed
      BY <1>1, <2>2 DEF CheckTask, Draft
    <3> QED
      BY <1>1, <1>2, <3>1 DEF TextKnows, RowsAgree, CaptureKnows, Corroborated
  <2>3. CASE Insert(x)
    <3>1. /\ draft[x].pc = "insert" /\ draft'[x].pc = "done" /\ draft'[x].held = draft[x].held
          /\ reviewed' = reviewed
          /\ claims'[x]["task"] = IF draft[x].authority # "human_gated"
                                  THEN Promoted("task_policy") ELSE Pending
          /\ claims'[x]["candidate"] \in {Pending, Absent}
          /\ claims'[x]["copy"] = Absent /\ claims'[x]["global"] = Absent
      BY <1>1, <2>3 DEF Insert, Draft, CaptureKnows, Level
    <3> QED
      BY <1>1, <1>2, <3>1, MemoryAssumption
         DEF TextKnows, RowsAgree, CaptureKnows, Corroborated, Level, Promoted, Pending, Absent
  <2>4. CASE CaptureGlobal(x)
    <3>1. /\ draft'[x].pc = "done" /\ reviewed' = reviewed
          /\ claims'[x]["global"] = Pending
          /\ \A level \in Level \ {"global"} : claims'[x][level] = Absent
      BY <1>1, <2>4 DEF CaptureGlobal, Draft, CaptureKnows, Level
    <3> QED
      BY <3>1, MemoryAssumption
         DEF TextKnows, RowsAgree, CaptureKnows, Level, Pending, Absent
  <2>5. CASE Age(x)
    <3>1. /\ draft' = draft /\ claims' = claims /\ reviewed' = reviewed
          /\ jobs[x].status = "evaluating"
      BY <2>5 DEF Age, settings
    <3> QED
      BY <1>1, <1>2, <3>1 DEF TextKnows, RowsAgree, CaptureKnows, Corroborated
  <2>6. CASE promote_to_organization(x)
    <3>1. /\ draft' = draft /\ jobs' = jobs /\ x \in reviewed'
          /\ draft[x].pc = "done"
          /\ claims'[x]["copy"] = Promoted("operator")
          /\ \A level \in Level \ {"copy"} : claims'[x][level] = claims[x][level]
      BY <1>1, <2>6 DEF promote_to_organization, CaptureKnows, Level, Absent
    <3> QED
      BY <1>1, <1>2, <3>1 DEF TextKnows, RowsAgree, CaptureKnows, Corroborated, Level, Promoted
  <2>7. ASSUME NEW level \in Level, promote(x, level)
        PROVE  TextKnows(x)'
    <3>1. /\ draft' = draft /\ jobs' = jobs /\ x \in reviewed'
          /\ draft[x].pc = "done" /\ claims[x][level].status = "pending"
          /\ claims'[x][level] = Promoted("operator")
          /\ \A other \in Level \ {level} : claims'[x][other] = claims[x][other]
      BY <1>1, <2>7 DEF promote, CaptureKnows, Level, Absent
    <3> QED
      BY <1>1, <1>2, <3>1 DEF TextKnows, RowsAgree, CaptureKnows, Corroborated, Level, Promoted
  <2> QED
    BY <2>1, <2>2, <2>3, <2>4, <2>5, <2>6, <2>7
<1>5. (\A y \in Text : TextKnows(y))'
  BY <1>2, <1>3, <1>4, OthersKept
<1>6. ASSUME NEW l \in Librarian PROVE LibrarianKnows(l)'
  BY <1>2, LibrarianKept DEF MemoryInvariant
<1> QED
  BY <1>0, <1>5, <1>6 DEF MemoryInvariant, TextKnows

-----------------------------------------------------------------------------
(* The librarians.                                                         *)

\* What a librarian's own step leaves to it.
LEMMA CycleKnows ==
  ASSUME MemoryInvariant, NEW l \in Librarian, Cycle(l) \/ Crash(l)
  PROVE  LibrarianKnows(l)'
<1>0. /\ lib[l] \in Cycling /\ LibrarianKnows(l)
      /\ lib \in [Librarian -> Cycling] /\ verdicts \in [Text -> SUBSET {"approve", "reject", "fail"}]
      /\ created \in Seq(Text)
  BY DEF MemoryInvariant, TypeOK
<1>1. authority' = authority /\ consent' = consent
  BY DEF Cycle, Crash, Pick, Claim, Finish, Recheck, Promote, Evaluate, settings
<1>2. \A x : LibrarianMay(x, authority, consent)' = LibrarianMay(x, authority, consent)
  BY <1>1 DEF LibrarianMay, AuthorityOver, MayLeave
<1>3. CASE lib' = [lib EXCEPT ![l] = Idle]
  BY <1>0, <1>3 DEF LibrarianKnows, Idle
<1>4. CASE Pick(l)
  <2>1. PICK i \in 1..Len(created) :
          lib' = [lib EXCEPT ![l] = [@ EXCEPT !.pc = "claim", !.job = created[i]]]
    BY <1>4 DEF Pick
  <2>2. created[i] \in Text /\ lib'[l].pc = "claim" /\ lib'[l].job = created[i]
    BY <1>0, <2>1 DEF Cycling
  <2> QED
    BY <2>2 DEF LibrarianKnows
<1>5. CASE Claim(l) /\ lib' # [lib EXCEPT ![l] = Idle]
  <2>0. /\ lib[l].pc = "claim"
        /\ \/ /\ Disposition(lib[l].job) = "evaluate"
              /\ lib' = [lib EXCEPT ![l] = [@ EXCEPT !.pc = "evaluate"]]
           \/ lib' = [lib EXCEPT ![l] =
                 [@ EXCEPT !.pc = "finish", !.outcome = Disposition(lib[l].job)]]
    BY <1>5 DEF Claim
  <2>3. \/ /\ Disposition(lib[l].job) = "evaluate"
            /\ lib'[l] = [lib[l] EXCEPT !.pc = "evaluate"]
         \/ lib'[l] = [lib[l] EXCEPT !.pc = "finish", !.outcome = Disposition(lib[l].job)]
    BY <1>0, <2>0
  <2>1. /\ lib'[l].job = lib[l].job /\ lib[l].pc = "claim"
        /\ \/ lib'[l].pc = "evaluate" /\ Disposition(lib[l].job) = "evaluate"
           \/ lib'[l].pc = "finish"
    BY <1>0, <2>0, <2>3 DEF Cycling
  <2>2. Disposition(lib[l].job) = "evaluate" =>
          TextInfo[lib[l].job].sourced /\ ~TaskInfo[TextInfo[lib[l].job].task].private
    BY DEF Disposition
  <2> QED
    BY <1>0, <2>1, <2>2 DEF LibrarianKnows
<1>6. ASSUME NEW verdict \in {"approve", "reject", "fail"}, Evaluate(l, verdict)
      PROVE  LibrarianKnows(l)'
  <2>1. /\ lib[l].pc = "evaluate" /\ lib'[l].job = lib[l].job /\ verdict \in verdicts'[lib[l].job]
        /\ \/ lib'[l].pc = "finish"
           \/ /\ lib'[l].pc = "recheck" /\ verdict = "approve"
              /\ lib'[l].held = LibrarianMay(lib[l].job, authority, consent)
    BY <1>0, <1>6 DEF Evaluate, Cycling, LibrarianKnows
  <2> QED
    BY <1>0, <1>2, <2>1 DEF LibrarianKnows
<1>7. CASE Recheck(l)
  <2>1. /\ lib[l].pc = "recheck" /\ lib'[l].job = lib[l].job /\ lib'[l].held = lib[l].held
        /\ verdicts' = verdicts
        /\ \/ lib'[l].pc = "finish"
           \/ lib'[l].pc = "promote" /\ LibrarianMay(lib[l].job, authority, consent)
    BY <1>0, <1>7 DEF Recheck, Cycling
  <2> QED
    BY <1>0, <2>1 DEF LibrarianKnows
<1> QED
  BY <1>3, <1>4, <1>5, <1>6, <1>7 DEF Cycle, Crash, Finish, Promote

LEMMA CycleKeeps ==
  ASSUME MemoryInvariant, NEW l \in Librarian, Cycle(l) \/ Crash(l)
  PROVE  MemoryInvariant'
<1>0. TypeOK'
  BY LibrarianType DEF MemoryInvariant, LibrarianKnows
<1>1. LibrarianKnows(l)'
  BY CycleKnows
<1>2. /\ authority' = authority /\ consent' = consent /\ reviewed' = reviewed /\ draft' = draft
      /\ \A k \in Librarian \ {l} : lib'[k] = lib[k]
      /\ \A x \in Text : verdicts[x] \subseteq verdicts'[x]
  <2>1. authority' = authority /\ consent' = consent /\ reviewed' = reviewed /\ draft' = draft
    BY DEF Cycle, Crash, Pick, Claim, Finish, Recheck, Promote, Evaluate, settings
  <2>2. \A k \in Librarian \ {l} : lib'[k] = lib[k]
    <3>1. lib \in [Librarian -> Cycling] /\ lib' \in [Librarian -> Cycling]
      BY <1>0 DEF MemoryInvariant, TypeOK
    <3>2. ASSUME NEW k \in Librarian \ {l} PROVE lib'[k] = lib[k]
      BY <3>1 DEF Cycle, Crash, Pick, Claim, Finish, Recheck, Promote, Evaluate
    <3> QED
      BY <3>2
  <2>3. \/ verdicts' = verdicts
        \/ \E v : verdicts' = [verdicts EXCEPT ![lib[l].job] = @ \cup {v}]
    BY DEF Cycle, Crash, Pick, Claim, Finish, Recheck, Promote, Evaluate
  <2>4. \A x \in Text : verdicts[x] \subseteq verdicts'[x]
    <3>1. verdicts \in [Text -> SUBSET {"approve", "reject", "fail"}]
      BY DEF MemoryInvariant, TypeOK
    <3>2. ASSUME NEW x \in Text, NEW v, verdicts' = [verdicts EXCEPT ![lib[l].job] = @ \cup {v}]
          PROVE  verdicts[x] \subseteq verdicts'[x]
      BY <3>1, <3>2
    <3> QED
      BY <2>3, <3>2
  <2> QED
    BY <2>1, <2>2, <2>4
<1>3. ASSUME NEW k \in Librarian PROVE LibrarianKnows(k)'
  <2>1. LibrarianKnows(k)
    BY DEF MemoryInvariant
  <2>2. CASE k # l
    BY <1>2, <2>1, <2>2, LibrarianKept DEF LibrarianKnows
  <2> QED
    BY <1>1, <2>2
<1>4. \A x \in Text : jobs[x].status = "absent" => jobs'[x].status = "absent"
  <2>1. jobs \in [Text -> Job]
    BY DEF MemoryInvariant, TypeOK
  <2>2. \/ jobs' = jobs
        \/ /\ jobs[lib[l].job].status # "absent"
           /\ \E j : jobs' = [jobs EXCEPT ![lib[l].job] = j]
    <3>1. CASE Claim(l)
      BY <3>1 DEF Claim, Claimable
    <3>2. CASE Finish(l)
      <4>1. CASE jobs[lib[l].job].status = "evaluating"
        BY <3>2, <4>1 DEF Finish
      <4>2. CASE jobs[lib[l].job].status # "evaluating"
        BY <2>1, <3>2, <4>2 DEF Finish
      <4> QED
        BY <4>1, <4>2
    <3>3. CASE Promote(l)
      <4>1. CASE jobs[lib[l].job].status = "evaluating"
        BY <3>3, <4>1 DEF Promote
      <4>2. CASE jobs[lib[l].job].status # "evaluating"
        BY <2>1, <3>3, <4>2 DEF Promote, Job
      <4> QED
        BY <4>1, <4>2
    <3> QED
      BY <3>1, <3>2, <3>3 DEF Cycle, Crash, Pick, Recheck, Evaluate
  <2> QED
    BY <2>1, <2>2
<1>5. ASSUME NEW x \in Text PROVE (RowsAgree(x) /\ CaptureKnows(x))'
  <2>0. RowsAgree(x) /\ CaptureKnows(x) /\ claims[x] \in [Level -> Row]
    BY DEF MemoryInvariant, TypeOK
  <2>1. CASE claims'[x] = claims[x]
    BY <1>2, <1>4, <2>0, <2>1, RowsKept, CaptureKept
  <2>2. CASE claims'[x] # claims[x]
    <3>1. Promote(l) /\ lib[l].job = x
      BY <2>2 DEF MemoryInvariant, TypeOK, Cycle, Crash, Pick, Claim, Finish, Recheck,
         Promote, Evaluate, settings
    <3>2. /\ claims[x]["candidate"].status = "pending"
          /\ claims'[x]["candidate"] = Promoted("librarian")
          /\ \A level \in Level \ {"candidate"} : claims'[x][level] = claims[x][level]
      BY <2>2, <3>1 DEF Promote, MemoryInvariant, TypeOK, Level
    <3>3. Corroborated(x)'
      BY <1>2, <3>1 DEF MemoryInvariant, LibrarianKnows, Promote, Corroborated
    <3>4. draft[x].pc = "done"
      BY <2>0, <3>2 DEF CaptureKnows, Level, Absent
    <3>5. RowsAgree(x)'
      BY <1>2, <2>0, <3>2, <3>3 DEF RowsAgree, Level, Promoted
    <3>6. CaptureKnows(x)'
      BY <1>2, <2>0, <3>4 DEF CaptureKnows
    <3> QED
      BY <3>5, <3>6
  <2> QED
    BY <2>1, <2>2
<1> QED
  BY <1>0, <1>3, <1>5 DEF MemoryInvariant

-----------------------------------------------------------------------------
(* Decisions.                                                              *)

\* A step rewrites rows of one text, or none.
LEMMA OneTextChanges ==
  ASSUME MemoryInvariant, Next, NEW x \in Text, claims'[x] # claims[x]
  PROVE  \/ Insert(x) \/ CaptureGlobal(x) \/ promote_to_organization(x)
         \/ \E level \in Level : promote(x, level)
         \/ \E l \in Librarian : Promote(l) /\ lib[l].job = x
<1>1. claims \in [Text -> [Level -> Row]]
  BY DEF MemoryInvariant, TypeOK
<1>2. \/ \E y \in Text : \/ Insert(y) \/ CaptureGlobal(y) \/ promote_to_organization(y)
                         \/ \E level \in Level : promote(y, level)
      \/ \E l \in Librarian : Promote(l)
  BY DEF Next, SetAuthority, SetConsent, EndTask, Expire, ReadAuthority, CheckTask, Age,
         Cycle, Pick, Claim, Finish, Recheck, Evaluate, Crash
<1>3. ASSUME NEW y \in Text, y # x,
             \/ Insert(y) \/ CaptureGlobal(y) \/ promote_to_organization(y)
             \/ \E level \in Level : promote(y, level)
      PROVE  FALSE
  BY <1>1, <1>3 DEF Insert, CaptureGlobal, promote_to_organization, promote
<1>4. ASSUME NEW l \in Librarian, Promote(l), lib[l].job # x
      PROVE  FALSE
  BY <1>1, <1>4 DEF Promote
<1> QED
  BY <1>2, <1>3, <1>4

\* Only a librarian's last transaction makes it the promoter of a candidate.
LEMMA CandidateByLibrarian ==
  ASSUME MemoryInvariant, Next, NEW x \in Text,
         claims[x]["candidate"].by = None, claims'[x]["candidate"].by = "librarian"
  PROVE  \E l \in Librarian : Promote(l) /\ lib[l].job = x
<1>0. claims \in [Text -> [Level -> Row]]
  BY DEF MemoryInvariant, TypeOK
<1>1. claims'[x] # claims[x]
  BY MemoryAssumption
<1>2. ASSUME \/ Insert(x) \/ CaptureGlobal(x) \/ promote_to_organization(x)
             \/ \E level \in Level : promote(x, level)
      PROVE  claims'[x]["candidate"] \in {claims[x]["candidate"], Pending, Promoted("operator")}
  BY <1>0, <1>2 DEF Insert, CaptureGlobal, promote_to_organization, promote, Level
<1> QED
  BY <1>1, <1>2, OneTextChanges, MemoryAssumption DEF Pending, Promoted

LEMMA ClaimsStay ==
  ASSUME MemoryInvariant, Next, NEW x \in Text, NEW level \in Level,
         claims[x][level].by # None
  PROVE  claims'[x][level].by = claims[x][level].by
<1>0. claims \in [Text -> [Level -> Row]] /\ RowsAgree(x) /\ CaptureKnows(x)
  BY DEF MemoryInvariant, TypeOK
<1>1. claims[x][level].status = "promoted" /\ draft[x].pc = "done"
  BY <1>0 DEF RowsAgree, CaptureKnows, Absent
<1>2. ~Insert(x) /\ ~CaptureGlobal(x)
  BY <1>1 DEF Insert, CaptureGlobal
<1>3. CASE promote_to_organization(x)
  <2>1. CASE level = "copy"
    BY <1>0, <1>3, <2>1 DEF promote_to_organization, Promoted, RowsAgree, Level
  <2>2. CASE level # "copy"
    BY <1>0, <1>3, <2>2 DEF promote_to_organization, Level
  <2> QED
    BY <2>1, <2>2
<1>4. ASSUME NEW other \in Level, promote(x, other)
      PROVE  claims'[x][level].by = claims[x][level].by
  BY <1>0, <1>1, <1>4 DEF promote
<1>5. ASSUME NEW l \in Librarian, Promote(l), lib[l].job = x
      PROVE  claims'[x][level].by = claims[x][level].by
  BY <1>0, <1>1, <1>5 DEF Promote, Level
<1> QED
  BY <1>2, <1>3, <1>4, <1>5, OneTextChanges

LEMMA JobsStay ==
  ASSUME MemoryInvariant, Next, NEW x \in Text,
         jobs[x].status \in {"promoted", "review_required"}
  PROVE  jobs'[x].status = jobs[x].status
<1>0. jobs \in [Text -> Job] /\ (\A y \in Text : CaptureKnows(y))
  BY DEF MemoryInvariant, TypeOK
<1>1. ASSUME NEW y \in Text, Insert(y) \/ Age(y)
      PROVE  jobs'[x].status = jobs[x].status
  <2>1. jobs[y].status \notin {"promoted", "review_required"}
    BY <1>0, <1>1 DEF Insert, Age, CaptureKnows
  <2>2. x # y
    BY <2>1
  <2> QED
    BY <1>0, <1>1, <2>2 DEF Insert, Age
<1>2. ASSUME NEW l \in Librarian, Claim(l) \/ Finish(l) \/ Promote(l)
      PROVE  jobs'[x].status = jobs[x].status
  <2>1. CASE Claim(l)
    BY <1>0, <2>1 DEF Claim, Claimable
  <2>2. CASE Finish(l)
    BY <1>0, <2>2 DEF Finish
  <2>3. CASE Promote(l)
    BY <1>0, <2>3 DEF Promote, Job
  <2> QED
    BY <1>2, <2>1, <2>2, <2>3
<1>3. ASSUME jobs' = jobs
      PROVE  jobs'[x].status = jobs[x].status
  BY <1>3
<1> QED
  BY <1>1, <1>2, <1>3
     DEF Next, SetAuthority, SetConsent, EndTask, Expire, ReadAuthority, CheckTask,
         CaptureGlobal, promote, promote_to_organization, Cycle, Pick, Recheck, Evaluate, Crash

-----------------------------------------------------------------------------
(* What the invariant gives.                                               *)

LEMMA NextKeeps ==
  ASSUME MemoryInvariant, [Next]_vars
  PROVE  MemoryInvariant'
<1>1. CASE \/ \E o \in Org, a \in Authority : SetAuthority(o, a)
           \/ \E o \in Org : SetConsent(o, ~consent[o])
           \/ \E t \in Task \ terminal : EndTask(t)
           \/ \E x \in Text \ expired : Expire(x)
  BY <1>1, SettingsKeep
<1>2. ASSUME NEW x \in Text,
             \/ ReadAuthority(x) \/ CheckTask(x) \/ Insert(x) \/ CaptureGlobal(x) \/ Age(x)
             \/ promote_to_organization(x)
             \/ \E level \in Level : promote(x, level)
      PROVE  MemoryInvariant'
  BY <1>2, TextKeeps
<1>3. ASSUME NEW l \in Librarian, Cycle(l) \/ Crash(l)
      PROVE  MemoryInvariant'
  BY <1>3, CycleKeeps
<1>4. CASE UNCHANGED vars
  <2>1. TypeOK'
    BY <1>4 DEF vars, settings, MemoryInvariant, TypeOK
  <2>2. ASSUME NEW x \in Text PROVE (RowsAgree(x) /\ CaptureKnows(x))'
    BY <1>4, RowsKept, CaptureKept DEF vars, MemoryInvariant
  <2>3. ASSUME NEW l \in Librarian PROVE LibrarianKnows(l)'
    BY <1>4, LibrarianKept DEF vars, settings, MemoryInvariant
  <2> QED
    BY <2>1, <2>2, <2>3 DEF MemoryInvariant
<1> QED
  BY <1>1, <1>2, <1>3, <1>4 DEF Next

\* At any moment the rows of every text agree with its history and its job, and
\* every capture and every librarian writes only what the policy has allowed
\* (memory.py, memory_queue.py, api.py).
THEOREM MemoryInvariantHolds == Spec => []MemoryInvariant
BY InitInvariant, NextKeeps, PTL DEF Spec

\* Every row, job and request keeps its type.
THEOREM MemoryTypeCorrect == Spec => []TypeOK
<1>1. MemoryInvariant => TypeOK
  BY DEF MemoryInvariant
<1> QED
  BY <1>1, MemoryInvariantHolds, PTL

\* No worker is given another task's claim on that task's word alone, for any
\* tasks, organizations and librarians, and however they interleave, unless its
\* own memory_scope names that task (recall, capture, process_one).
THEOREM NothingCrossesUnreviewed == Spec => []CrossTaskIsReviewed
<1>1. ASSUME MemoryInvariant PROVE CrossTaskIsReviewed
  <2> SUFFICES ASSUME NEW t \in Task, NEW x \in Text, NEW level \in Level,
                      <<x, level>> \in recall(t), TextInfo[x].task # t,
                      ~(level = "task" /\ TextInfo[x].task = TaskInfo[t].scope)
               PROVE  x \in reviewed \/ Corroborated(x)
    BY DEF CrossTaskIsReviewed, recall, Corroborated
  <2>1. claims[x][level].status = "promoted" /\ level # "task"
    BY DEF recall, TaskScopes
  <2> QED
    BY <1>1, <2>1 DEF MemoryInvariant, RowsAgree, Level
<1> QED
  BY <1>1, MemoryInvariantHolds, PTL

\* Nothing is trusted without an operator unless the policy allowed it at some
\* time after it was asked for, however often the policy changes (capture,
\* process_one's second reading).
THEOREM PolicyAlwaysAllowed == Spec => PolicyWasInForce
<1>1. MemoryInvariant /\ MemoryInvariant' /\ [Next]_vars =>
        [\A x \in Text :
           /\ claims'[x]["task"].by = "task_policy" => draft'[x].held
           /\ claims[x]["candidate"].by = None /\ claims'[x]["candidate"].by = "librarian" =>
                \E l \in Librarian : lib[l].job = x /\ lib[l].pc = "promote" /\ lib[l].held]_vars
  <2> SUFFICES ASSUME MemoryInvariant, MemoryInvariant', Next, NEW x \in Text
               PROVE  /\ claims'[x]["task"].by = "task_policy" => draft'[x].held
                      /\ claims[x]["candidate"].by = None
                           /\ claims'[x]["candidate"].by = "librarian" =>
                           \E l \in Librarian : lib[l].job = x /\ lib[l].pc = "promote" /\ lib[l].held
    OBVIOUS
  <2>1. claims'[x]["task"].by = "task_policy" => draft'[x].held
    BY DEF MemoryInvariant, RowsAgree
  <2>2. ASSUME claims[x]["candidate"].by = None, claims'[x]["candidate"].by = "librarian"
        PROVE  \E l \in Librarian : Promote(l) /\ lib[l].job = x
    BY <2>2, CandidateByLibrarian
  <2>3. \A l \in Librarian : lib[l].pc = "promote" => lib[l].held
    BY DEF MemoryInvariant, LibrarianKnows
  <2> QED
    BY <2>1, <2>2, <2>3 DEF Promote
<1> QED
  BY <1>1, MemoryInvariantHolds, PTL DEF Spec, PolicyWasInForce

\* A promoted claim keeps its promoter and a decided job its decision, whatever a
\* suspended librarian writes when it resumes (_finish, process_one, promote).
THEOREM DecisionsStay == Spec => DecisionsAreFinal
<1>1. MemoryInvariant /\ [Next]_vars =>
        [/\ \A x \in Text, level \in Level :
              claims[x][level].by # None => claims'[x][level].by = claims[x][level].by
         /\ \A x \in Text : jobs[x].status \in {"promoted", "review_required"} =>
                              jobs'[x].status = jobs[x].status]_vars
  BY ClaimsStay, JobsStay
<1> QED
  BY <1>1, MemoryInvariantHolds, PTL DEF Spec, DecisionsAreFinal
=============================================================================
