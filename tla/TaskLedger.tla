------------------------------ MODULE TaskLedger ------------------------------
(***************************************************************************)
(* What TaskManager (task.py) promises: add_step, claim and finish as one  *)
(* atomic step each, and a task that closes in the very step that finishes *)
(* its last open step, if that finish is counted for it: finish counts and *)
(* closes the task its caller's lease names.  TaskStore models the         *)
(* transactions that implement this.                                       *)
(***************************************************************************)
EXTENDS TaskRows

VARIABLES
  tasks,      \* the tasks table
  steps       \* the task_steps table

vars == <<tasks, steps>>

Init ==
  /\ tasks = [t \in Task |-> NoTask]
  /\ steps = [s \in Step |-> NoStep]

CreateTask(t) ==
  /\ tasks[t].status = "absent"
  /\ tasks' = [tasks EXCEPT ![t] = NewTask]
  /\ UNCHANGED steps

AddStep(t, s) ==
  /\ tasks[t].status # "absent" /\ ~tasks[t].terminal
  /\ steps[s].status = "absent"
  /\ steps' = [steps EXCEPT ![s] = Pending(t)]
  /\ UNCHANGED tasks

\* Hands the step to a new holder: only if nobody holds it or its lease is over.
Claim(s, tok, left) ==
  /\ Claimable(steps[s], 0)
  /\ ~tasks[steps[s].task].terminal
  /\ steps' = [steps EXCEPT ![s] = Claimed(@, tok, left)]
  /\ UNCHANGED tasks

\* Records the step's outcome, and closes task t if no step of it is open.
Finish(s, t, outcome) ==
  /\ steps[s].status = "claimed"
  /\ steps' = [steps EXCEPT ![s] = Finished(@, outcome)]
  /\ tasks' = IF IsOpen(tasks, t) /\ ~Remaining(steps', t)
              THEN [tasks EXCEPT ![t] = Closed(@, Verdict(steps', t))]
              ELSE tasks

\* route_task parks an open task for clarification, or resumes it.
Route(t) ==
  /\ ~tasks[t].terminal
  /\ \/ /\ tasks[t].status # "absent"
        /\ tasks' = [tasks EXCEPT ![t].status = "pending_clarification"]
     \/ /\ tasks[t].status = "pending_clarification"
        /\ tasks' = [tasks EXCEPT ![t].status = "active"]
  /\ UNCHANGED steps

Tick ==
  /\ steps' = Aged(steps)
  /\ UNCHANGED tasks

Next ==
  \/ \E t \in Task : CreateTask(t) \/ Route(t)
  \/ \E t \in Task, s \in Step : AddStep(t, s)
  \/ \E s \in Step, tok \in Token, left \in Ttl : Claim(s, tok, left)
  \/ \E s \in Step, t \in Task \cup {None}, outcome \in {"done", "failed"} :
       Finish(s, t, outcome)
  \/ Tick

Spec == Init /\ [][Next]_vars
=============================================================================
