------------------------------- MODULE TaskRows -------------------------------
(***************************************************************************)
(* The rows of the tasks and task_steps tables (db.py) and the queries of  *)
(* task.py over them, as operators on the tables.  A lease is kept as the  *)
(* time it has left, lease_expires_at - now, in clock ticks: the code only *)
(* ever compares the two.                                                  *)
(***************************************************************************)
EXTENDS Integers

CONSTANTS
  Task, Step,     \* the ids the tables are keyed by
  Token,          \* lease tokens: a token also stands for the worker id that
                  \* the same UPDATE stores and the same WHERE compares
  None,           \* SQL NULL
  MaxLease,       \* the lease_seconds every claim asks for, in ticks
  MaxLag          \* ticks a request may spend between reading the clock and
                  \* its commit

ASSUME TaskRowsAssumption ==
  /\ MaxLease \in Nat \ {0}
  /\ MaxLag \in Nat
  /\ None \notin Task
  /\ None \notin Step
  /\ None \notin Token

LongExpired == -(MaxLag + 1)     \* every reader of the clock agrees by then
Ttl == LongExpired .. MaxLease

TaskRow == [status : {"absent", "active", "pending_clarification",
                      "completed", "failed"},
            terminal : BOOLEAN]
StepRow == [status : {"absent", "pending", "claimed", "done", "failed"},
            task : Task \cup {None}, token : Token \cup {None}, ttl : Ttl]

NoTask == [status |-> "absent", terminal |-> FALSE]
NoStep == [status |-> "absent", task |-> None, token |-> None, ttl |-> 0]

NewTask == [status |-> "active", terminal |-> FALSE]
Pending(t) == [status |-> "pending", task |-> t, token |-> None, ttl |-> 0]
Claimed(row, tok, left) ==
  [status |-> "claimed", task |-> row.task, token |-> tok, ttl |-> left]
Finished(row, outcome) ==
  [status |-> outcome, task |-> row.task, token |-> None, ttl |-> 0]

Settled(row) == row.status \in {"done", "failed"}
StepsOf(rows, t) == {s \in Step : rows[s].status # "absent" /\ rows[s].task = t}

\* SELECT COUNT(*) ... status IN ('pending','claimed') is not zero
Remaining(rows, t) == \E s \in StepsOf(rows, t) : ~Settled(rows[s])

\* Mutated form: a step's word for a task's verdict.
Verdict_StepWord(rows, t) ==
  IF \E s \in StepsOf(rows, t) : rows[s].status = "failed"
  THEN "failed" ELSE "done"

\* "failed" if failed else "completed"
Verdict(rows, t) ==
  IF \E s \in StepsOf(rows, t) : rows[s].status = "failed"
  THEN "failed" ELSE "completed"

\* UPDATE tasks ... WHERE task_id=? AND is_terminal=FALSE finds a row
IsOpen(rows, t) == t \in Task /\ rows[t].status # "absent" /\ ~rows[t].terminal

Closed(row, verdict) == [status |-> verdict, terminal |-> TRUE]

\* Mutated forms: a claim that ignores the expiry; one that takes no expired lease.
Claimable_AnyTime(row, lag) == row.status \in {"pending", "claimed"}
Claimable_PendingOnly(row, lag) == row.status = "pending"

\* a claim may take the row: as seen by a clock lag ticks slow
Claimable(row, lag) ==
  \/ row.status = "pending"
  \/ row.status = "claimed" /\ row.ttl + lag < 0

\* one tick later
Aged(rows) ==
  [s \in Step |->
     [rows[s] EXCEPT !.ttl =
        IF rows[s].status = "claimed" /\ @ > LongExpired THEN @ - 1 ELSE @]]

-----------------------------------------------------------------------------
(* What the tables must say about each other, whoever writes them.         *)

TerminalSettled(trows, srows) ==
  \A t \in Task : trows[t].terminal => ~Remaining(srows, t)

\* true where every finish names its step's own task
SettledTerminal(trows, srows) ==
  \A t \in Task : StepsOf(srows, t) # {} /\ ~Remaining(srows, t)
                    => trows[t].terminal

Truthful(trows, srows) ==
  \A t \in Task :
    /\ trows[t].terminal => trows[t].status = Verdict(srows, t)
    /\ trows[t].status \in {"completed", "failed"} => trows[t].terminal
=============================================================================
