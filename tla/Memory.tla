--------------------------------- MODULE Memory ---------------------------------
(***************************************************************************)
(* Task memory and its way to other tasks: capture (api.py, memory.py),    *)
(* the operators' promotions, the librarian's durable evaluation queue     *)
(* (memory_queue.py) and recall.  Captures, policy changes and several     *)
(* librarians interleave between their transactions; a librarian may die   *)
(* or be suspended for longer than the queue's five minutes.               *)
(***************************************************************************)
EXTENDS Integers, Sequences

CONSTANTS
  Org, Task,
  TaskInfo,        \* task -> [org, authority, private, scope]: its organization,
                   \* its profile's memory authority, whether its privacy class
                   \* is one the librarian may not see, and the task whose
                   \* "task:<id>" its memory_scope spells, None if no task's
  Text,            \* claim texts; each is captured at most once
  TextInfo,        \* text -> [task, sourced]: the task it is captured for, or
                   \* None for a global claim; whether it has provenance
  Librarian,       \* librarian threads, one per daemon
  RemoteEndpoint,  \* the evaluator is not on a local host
  AllowRemote,     \* memory.evaluator.allow_remote_https
  Reviewable,      \* the levels at which operators act: a bound
  MaxFaults,       \* crashes and suspensions of librarians: a bound
  None

Authority == {"session_auto", "hybrid", "human_gated"}

ASSUME MemoryAssumption ==
  /\ TaskInfo \in [Task -> [org : Org, authority : Authority,
                         private : BOOLEAN, scope : Task \cup {None}]]
  /\ TextInfo \in [Text -> [task : Task \cup {None}, sourced : BOOLEAN]]
  /\ RemoteEndpoint \in BOOLEAN /\ AllowRemote \in BOOLEAN
  /\ Reviewable \subseteq {"task", "candidate", "copy", "global"}
  /\ MaxFaults \in Nat
  /\ None \notin Task \cup Text \cup {"task_policy", "librarian", "operator"}

VARIABLES
  authority, consent,  \* the organizations' memory_authority and remote opt-in
  terminal,            \* tasks that have ended
  expired,             \* texts whose valid_until has passed
  claims,              \* memory_claims: the rows of each text
  jobs,                \* memory_evaluation_jobs, by text
  created,             \* texts in the order of created_at
  draft,               \* the capture request of each text
  lib,                 \* what each librarian is doing
  verdicts, reviewed,  \* history: the evaluator's answers, operators' promotions
  faults

settings == <<authority, consent, terminal, expired>>
vars == <<settings, claims, jobs, created, draft, lib, verdicts, reviewed, faults>>

\* Rows of a text: the task's own claim, the librarian's organization candidate,
\* an operator's copy for the organization, a global claim.
Level == {"task", "candidate", "copy", "global"}

\* One row, one job; a capture request and a librarian's cycle, with what each has
\* read so far and (history) whether the policy has allowed its decision.
Row == [status : {"absent", "pending", "promoted"},
        by : {None, "task_policy", "librarian", "operator"}]
Job == [status : {"absent", "pending", "evaluating", "promoted", "review_required"},
        stale : BOOLEAN]
Draft == [pc : {"new", "check", "insert", "done"}, authority : Authority, held : BOOLEAN]
Cycling == [pc : {"idle", "claim", "evaluate", "finish", "recheck", "promote"},
            job : Text \cup {None}, outcome : {"pending", "review_required"}, held : BOOLEAN]

TypeOK ==
  /\ authority \in [Org -> Authority] /\ consent \in [Org -> BOOLEAN]
  /\ terminal \subseteq Task /\ expired \subseteq Text
  /\ claims \in [Text -> [Level -> Row]]
  /\ jobs \in [Text -> Job]
  /\ created \in Seq(Text)
  /\ draft \in [Text -> Draft]
  /\ lib \in [Librarian -> Cycling]
  /\ verdicts \in [Text -> SUBSET {"approve", "reject", "fail"}]
  /\ reviewed \subseteq Text /\ faults \in 0 .. MaxFaults

Absent == [status |-> "absent", by |-> None]
Pending == [status |-> "pending", by |-> None]
Promoted(by) == [status |-> "promoted", by |-> by]
NoDraft == [pc |-> "new", authority |-> "human_gated", held |-> FALSE]
Idle == [pc |-> "idle", job |-> None, outcome |-> "pending", held |-> FALSE]

Init ==
  /\ authority \in [Org -> Authority]
  /\ consent = [o \in Org |-> FALSE]
  /\ terminal = {} /\ expired = {}
  /\ claims = [x \in Text |-> [level \in Level |-> Absent]]
  /\ jobs = [x \in Text |-> [status |-> "absent", stale |-> FALSE]]
  /\ created = <<>>
  /\ draft = [x \in Text |-> NoDraft]
  /\ lib = [l \in Librarian |-> Idle]
  /\ verdicts = [x \in Text |-> {}]
  /\ reviewed = {} /\ faults = 0

-----------------------------------------------------------------------------
(* Policy.                                                                 *)

OrgOf(x) == TaskInfo[TextInfo[x].task].org

Rank == [session_auto |-> 1, hybrid |-> 2, human_gated |-> 3]
effective_memory_authority(org, profile) ==
  IF Rank[org] >= Rank[profile] THEN org ELSE profile

AuthorityOver(x, setting) ==
  effective_memory_authority(setting[OrgOf(x)], TaskInfo[TextInfo[x].task].authority)

MayLeave(x, optin) == RemoteEndpoint => AllowRemote /\ optin[OrgOf(x)]

\* what the librarian's promotion of x needs of the policy
LibrarianMay(x, setting, optin) ==
  AuthorityOver(x, setting) = "session_auto" /\ MayLeave(x, optin)

\* (history) The policy has allowed a request's decision at some time since it
\* was taken; a new policy may be the first to allow it.
Witness(setting, optin) ==
  /\ draft' = [x \in Text |->
       IF draft[x].pc \notin {"check", "insert"} THEN draft[x]
       ELSE [draft[x] EXCEPT !.held = @ \/ AuthorityOver(x, setting) # "human_gated"]]
  /\ lib' = [l \in Librarian |->
       IF lib[l].pc \in {"recheck", "promote"}
       THEN [lib[l] EXCEPT !.held = @ \/ LibrarianMay(lib[l].job, setting, optin)]
       ELSE lib[l]]

\* PUT /orgs/{org}/memory-authority
SetAuthority(o, a) ==
  /\ authority' = [authority EXCEPT ![o] = a]
  /\ Witness(authority', consent)
  /\ UNCHANGED <<consent, terminal, expired, claims, jobs, created, verdicts, reviewed, faults>>

\* PUT /orgs/{org}/remote-librarian; nothing reads the opt-in when the endpoint
\* is local
SetConsent(o, yes) ==
  /\ RemoteEndpoint
  /\ consent' = [consent EXCEPT ![o] = yes]
  /\ Witness(authority, consent')
  /\ UNCHANGED <<authority, terminal, expired, claims, jobs, created, verdicts, reviewed, faults>>

\* only a task that captures is of interest
EndTask(t) ==
  /\ \E x \in Text : TextInfo[x].task = t
  /\ terminal' = terminal \cup {t}
  /\ UNCHANGED <<authority, consent, expired, claims, jobs, created, draft, lib, verdicts, reviewed, faults>>

Expire(x) ==
  /\ expired' = expired \cup {x}
  /\ UNCHANGED <<authority, consent, terminal, claims, jobs, created, draft, lib, verdicts, reviewed, faults>>

-----------------------------------------------------------------------------
(* Capture and the operators' promotions.                                  *)

\* POST /tasks/{task}/memory/capture: the effective authority is read first.
ReadAuthority(x) ==
  /\ draft[x].pc = "new" /\ TextInfo[x].task # None
  /\ TextInfo[x].task \notin terminal
  /\ draft' = [draft EXCEPT ![x] = [pc |-> "check", authority |-> AuthorityOver(x, authority),
                                    held |-> AuthorityOver(x, authority) # "human_gated"]]
  /\ UNCHANGED <<settings, claims, jobs, created, lib, verdicts, reviewed, faults>>

\* MemoryLedger.capture: created_at is taken and the task read again
CheckTask(x) ==
  /\ draft[x].pc = "check"
  /\ IF TextInfo[x].task \in terminal
     THEN draft' = [draft EXCEPT ![x].pc = "done"] /\ UNCHANGED created
     ELSE draft' = [draft EXCEPT ![x].pc = "insert"] /\ created' = Append(created, x)
  /\ UNCHANGED <<settings, claims, jobs, lib, verdicts, reviewed, faults>>

\* the claim, and in session_auto an untrusted candidate and its job, commit
Insert(x) ==
  /\ draft[x].pc = "insert"
  /\ LET auto == draft[x].authority # "human_gated"
         queued == draft[x].authority = "session_auto"
     IN  /\ claims' = [claims EXCEPT
              ![x]["task"] = IF auto THEN Promoted("task_policy") ELSE Pending,
              ![x]["candidate"] = IF queued THEN Pending ELSE @]
         /\ jobs' = IF queued THEN [jobs EXCEPT ![x].status = "pending"] ELSE jobs
  /\ draft' = [draft EXCEPT ![x].pc = "done"]
  /\ UNCHANGED <<settings, created, lib, verdicts, reviewed, faults>>

\* POST /memory/global/capture
CaptureGlobal(x) ==
  /\ draft[x].pc = "new" /\ TextInfo[x].task = None
  /\ claims' = [claims EXCEPT ![x]["global"] = Pending]
  /\ draft' = [draft EXCEPT ![x].pc = "done"]
  /\ UNCHANGED <<settings, jobs, created, lib, verdicts, reviewed, faults>>

\* An operator promotes a pending claim: a task's, a candidate or a global one.
promote(x, level) ==
  /\ level \in Reviewable /\ claims[x][level].status = "pending"
  /\ claims' = [claims EXCEPT ![x][level] = Promoted("operator")]
  /\ reviewed' = reviewed \cup {x}
  /\ UNCHANGED <<settings, jobs, created, draft, lib, verdicts, faults>>

\* An operator copies any claim but a global one into organization memory.
promote_to_organization(x) ==
  /\ "copy" \in Reviewable
  /\ \E level \in {"task", "candidate"} : claims[x][level].status # "absent"
  /\ claims' = [claims EXCEPT ![x]["copy"] = Promoted("operator")]
  /\ reviewed' = reviewed \cup {x}
  /\ UNCHANGED <<settings, jobs, created, draft, lib, verdicts, faults>>

-----------------------------------------------------------------------------
(* The librarian.                                                          *)

Claimable(x) ==
  jobs[x].status = "pending" \/ (jobs[x].status = "evaluating" /\ jobs[x].stale)

\* process_one selects the oldest job that is pending or stale
Pick(l) ==
  /\ lib[l].pc = "idle"
  /\ \E i \in 1..Len(created) :
       /\ Claimable(created[i]) /\ \A k \in 1 .. i - 1 : ~Claimable(created[k])
       /\ lib' = [lib EXCEPT ![l] = [@ EXCEPT !.pc = "claim", !.job = created[i]]]
  /\ UNCHANGED <<settings, claims, jobs, created, draft, verdicts, reviewed, faults>>

\* what the claim's transaction finds: evaluate, leave for an operator, or leave
\* for a later poll
Disposition(x) ==
  IF \/ claims[x]["candidate"].status # "pending"
     \/ AuthorityOver(x, authority) # "session_auto"
     \/ claims[x]["task"].status # "promoted"
     \/ TaskInfo[TextInfo[x].task].private
  THEN "review_required"
  ELSE IF ~MayLeave(x, consent) THEN "pending"
  ELSE IF x \in expired \/ ~TextInfo[x].sourced THEN "review_required"
  ELSE "evaluate"

\* Mutated form: every disposition ends the evaluation.
Claim_NeverEvaluates(l) ==
  /\ lib[l].pc = "claim"
  /\ LET x == lib[l].job
     IN  IF Claimable(x)
         THEN /\ jobs' = [jobs EXCEPT ![x] = [status |-> "evaluating", stale |-> FALSE]]
              /\ lib' = [lib EXCEPT ![l].pc = "finish", ![l].outcome = Disposition(x)]
         ELSE lib' = [lib EXCEPT ![l] = Idle] /\ UNCHANGED jobs
  /\ UNCHANGED <<settings, claims, created, draft, verdicts, reviewed, faults>>

\* the guarded update; another librarian may have been faster
Claim(l) ==
  /\ lib[l].pc = "claim"
  /\ LET x == lib[l].job
     IN  IF Claimable(x)
         THEN /\ jobs' = [jobs EXCEPT ![x] = [status |-> "evaluating", stale |-> FALSE]]
              /\ lib' = [lib EXCEPT ![l] =
                   IF Disposition(x) = "evaluate" THEN [@ EXCEPT !.pc = "evaluate"]
                   ELSE [@ EXCEPT !.pc = "finish", !.outcome = Disposition(x)]]
         ELSE lib' = [lib EXCEPT ![l] = Idle] /\ UNCHANGED jobs
  /\ UNCHANGED <<settings, claims, created, draft, verdicts, reviewed, faults>>

\* Mutated form: any answer counts as approval.
Evaluate_AnyAnswer(l, verdict) ==
  /\ lib[l].pc = "evaluate"
  /\ verdicts' = [verdicts EXCEPT ![lib[l].job] = @ \cup {verdict}]
  /\ lib' = [lib EXCEPT ![l].pc = "recheck",
                        ![l].held = LibrarianMay(lib[l].job, authority, consent)]
  /\ UNCHANGED <<settings, claims, jobs, created, draft, reviewed, faults>>

\* the evaluator approves, does not, or fails to answer
Evaluate(l, verdict) ==
  /\ lib[l].pc = "evaluate"
  /\ verdicts' = [verdicts EXCEPT ![lib[l].job] = @ \cup {verdict}]
  /\ lib' = [lib EXCEPT ![l] =
       CASE verdict = "approve" ->
              [@ EXCEPT !.pc = "recheck", !.held = LibrarianMay(lib[l].job, authority, consent)]
         [] verdict = "reject" -> [@ EXCEPT !.pc = "finish", !.outcome = "review_required"]
         [] verdict = "fail" -> [@ EXCEPT !.pc = "finish", !.outcome = "pending"]]
  /\ UNCHANGED <<settings, claims, jobs, created, draft, reviewed, faults>>

\* Mutated form: without AND status='evaluating'.
Finish_AnyStatus(l) ==
  /\ lib[l].pc = "finish"
  /\ jobs' = [jobs EXCEPT ![lib[l].job] = [status |-> lib[l].outcome, stale |-> FALSE]]
  /\ lib' = [lib EXCEPT ![l] = Idle]
  /\ UNCHANGED <<settings, claims, created, draft, verdicts, reviewed, faults>>

\* _finish updates the job if it is being evaluated, whoever claimed it last
Finish(l) ==
  /\ lib[l].pc = "finish"
  /\ jobs' = [jobs EXCEPT ![lib[l].job] =
                IF @.status = "evaluating"
                THEN [status |-> lib[l].outcome, stale |-> FALSE] ELSE @]
  /\ lib' = [lib EXCEPT ![l] = Idle]
  /\ UNCHANGED <<settings, claims, created, draft, verdicts, reviewed, faults>>

\* Mutated form: the policy is not read again.
Recheck_Trusting(l) ==
  /\ lib[l].pc = "recheck"
  /\ lib' = [lib EXCEPT ![l].pc = "promote"]
  /\ UNCHANGED <<settings, claims, jobs, created, draft, verdicts, reviewed, faults>>

\* the last transaction reads job and policy again
Recheck(l) ==
  /\ lib[l].pc = "recheck"
  /\ LET x == lib[l].job
     IN  lib' = [lib EXCEPT ![l] =
           IF /\ jobs[x].status = "evaluating"
              /\ claims[x]["task"].status = "promoted"
              /\ LibrarianMay(x, authority, consent)
           THEN [@ EXCEPT !.pc = "promote"]
           ELSE [@ EXCEPT !.pc = "finish", !.outcome = "review_required"]]
  /\ UNCHANGED <<settings, claims, jobs, created, draft, verdicts, reviewed, faults>>

\* The candidate and the job commit together.  If the candidate changed, the
\* exception rolls back and the job waits to become stale.
Promote(l) ==
  /\ lib[l].pc = "promote"
  /\ LET x == lib[l].job
     IN  IF claims[x]["candidate"].status = "pending"
         THEN /\ claims' = [claims EXCEPT ![x]["candidate"] = Promoted("librarian")]
              /\ jobs' = [jobs EXCEPT ![x].status = IF @ = "evaluating" THEN "promoted" ELSE @]
         ELSE UNCHANGED <<claims, jobs>>
  /\ lib' = [lib EXCEPT ![l] = Idle]
  /\ UNCHANGED <<settings, created, draft, verdicts, reviewed, faults>>

Fault == faults < MaxFaults /\ faults' = faults + 1

Crash(l) ==
  /\ lib[l].pc # "idle" /\ Fault
  /\ lib' = [lib EXCEPT ![l] = Idle]
  /\ UNCHANGED <<settings, claims, jobs, created, draft, verdicts, reviewed>>

\* Mutated form: a job that nobody works on never becomes stale.
Age_Never(x) ==
  /\ jobs[x].status = "evaluating" /\ ~jobs[x].stale
  /\ \E l \in Librarian : lib[l].job = x /\ lib[l].pc # "claim"
  /\ Fault
  /\ jobs' = [jobs EXCEPT ![x].stale = TRUE]
  /\ UNCHANGED <<settings, claims, created, draft, lib, verdicts, reviewed>>

\* Five minutes pass: always when nobody works on the job, else only if its
\* librarian is suspended, as the evaluator is given at most 30 seconds.
Age(x) ==
  /\ jobs[x].status = "evaluating" /\ ~jobs[x].stale
  /\ IF \E l \in Librarian : lib[l].job = x /\ lib[l].pc # "claim" THEN Fault ELSE UNCHANGED faults
  /\ jobs' = [jobs EXCEPT ![x].stale = TRUE]
  /\ UNCHANGED <<settings, claims, created, draft, lib, verdicts, reviewed>>

Cycle(l) ==
  \/ Pick(l) \/ Claim(l) \/ Finish(l) \/ Recheck(l) \/ Promote(l)
  \/ \E verdict \in {"approve", "reject", "fail"} : Evaluate(l, verdict)

Next ==
  \/ \E o \in Org, a \in Authority : SetAuthority(o, a)
  \/ \E o \in Org : SetConsent(o, ~consent[o])
  \/ \E t \in Task \ terminal : EndTask(t)
  \/ \E x \in Text \ expired : Expire(x)
  \/ \E x \in Text : ReadAuthority(x) \/ CheckTask(x) \/ Insert(x) \/ CaptureGlobal(x) \/ Age(x)
  \/ \E x \in Text, level \in Level : promote(x, level)
  \/ \E x \in Text : promote_to_organization(x)
  \/ \E l \in Librarian : Cycle(l) \/ Crash(l)

Spec == Init /\ [][Next]_vars

\* Daemons poll for ever and time passes; the evaluator does not fail for ever.
FairSpec ==
  /\ Spec
  /\ \A l \in Librarian :
       /\ WF_vars(Cycle(l))
       /\ SF_vars(Evaluate(l, "approve") \/ Evaluate(l, "reject"))
  /\ \A x \in Text : WF_vars(Insert(x)) /\ WF_vars(Age(x))

-----------------------------------------------------------------------------
(* Recall.                                                                 *)

\* The task scopes a worker of t reads: its own until the task ends, and the
\* one in the task's memory_scope, a string the API does not look into.
TaskScopes(t) ==
  ({t} \ terminal) \cup ({TaskInfo[t].scope} \ {None})

\* what the worker of t is given: trusted, current claims of those tasks, of
\* its organization, and global ones
recall(t) ==
  {r \in Text \X Level :
     /\ claims[r[1]][r[2]].status = "promoted" /\ r[1] \notin expired
     /\ CASE r[2] = "global" -> TRUE
          [] r[2] = "task" -> /\ TextInfo[r[1]].task \in TaskScopes(t)
                              /\ OrgOf(r[1]) = TaskInfo[t].org
          [] OTHER -> OrgOf(r[1]) = TaskInfo[t].org}

\* A worker is never given another task's claim on that task's word: an
\* independent evaluator corroborated it or an operator promoted it, however
\* captures and evaluations interleave.  The one exception is a task created
\* with the other's scope as its memory_scope, which recall_records reads
\* unconditionally; without it the property is false of the code.
CrossTaskIsReviewed ==
  \A t \in Task : \A r \in recall(t) :
    \/ TextInfo[r[1]].task = t
    \/ r[2] = "task" /\ TextInfo[r[1]].task = TaskInfo[t].scope
    \/ r[1] \in reviewed
    \/ "approve" \in verdicts[r[1]] /\ TextInfo[r[1]].sourced /\ ~TaskInfo[TextInfo[r[1]].task].private

\* Nothing becomes trusted without an operator unless the stricter of the two
\* policies allowed it at some time after the request, or after the evaluator's
\* answer (capture's read of memory_authority, the re-check in process_one).
PolicyWasInForce ==
  [][\A x \in Text :
       /\ claims'[x]["task"].by = "task_policy" => draft'[x].held
       /\ claims[x]["candidate"].by = None /\ claims'[x]["candidate"].by = "librarian" =>
            \E l \in Librarian : lib[l].job = x /\ lib[l].pc = "promote" /\ lib[l].held]_vars

\* A decision is taken once: a promoted claim keeps its promoter, and a job that
\* was promoted or left for review is not reopened by a late librarian.
DecisionsAreFinal ==
  [][/\ \A x \in Text, level \in Level :
         claims[x][level].by # None => claims'[x][level].by = claims[x][level].by
     /\ \A x \in Text : jobs[x].status \in {"promoted", "review_required"} =>
                          jobs'[x].status = jobs[x].status]_vars

\* Every job is decided in the end, across crashes and suspensions, when the
\* evaluator is local ("a durable librarian job", docs).
JobsAreDecided ==
  \A x \in Text : jobs[x].status = "pending" ~> jobs[x].status \in {"promoted", "review_required"}

\* A pending job of an organization that has consented is taken up by a later
\* poll (memory_queue.py: "The next poll retries pending jobs").
ConsentedIsTaken ==
  \A x \in Text : jobs[x].status = "pending" ~>
    (TextInfo[x].task # None => jobs[x].status # "pending" \/ ~MayLeave(x, consent))
=============================================================================
