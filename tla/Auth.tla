--------------------------------- MODULE Auth ---------------------------------
(***************************************************************************)
(* Who may call what: operator tokens with a role in one organization, the *)
(* daemon's own two tokens, and worker sessions bound to one task          *)
(* (auth.py, and the dependencies of api.py that use it).  A worker's      *)
(* session is kept as the time it has left, and a Token of TaskRows stands *)
(* for the worker, its session and the lease it may get.                   *)
(***************************************************************************)
EXTENDS TaskRows

CONSTANTS
  Org, User,      \* organizations; ids of operator users
  Role,           \* the roles the runs give out, of Rank's
  HomeOrg,        \* [Task -> Org] : tasks.org_id
  MaxSession      \* the longest ttl_seconds of a session, in ticks

Rank == [viewer |-> 0, operator |-> 1, admin |-> 2]

ASSUME AuthAssumption ==
  /\ Role \subseteq DOMAIN Rank
  /\ HomeOrg \in [Task -> Org]
  /\ MaxSession \in Nat \ {0}
  /\ None \notin Org
  /\ {None, "bootstrap", "daemon_admin"} \cap User = {}

VARIABLES
  users,      \* the operator_users table
  genesis,    \* whether daemon_admins has a row
  sessions    \* the worker_sessions table

authVars == <<users, genesis, sessions>>

\* Whose token a call carries.
Caller == User \cup {"bootstrap", "daemon_admin"}

NoUser    == [org |-> None, role |-> "viewer", active |-> FALSE]
NoSession == [task |-> None, left |-> 0]

AuthTypeOK ==
  /\ users \in [User -> [org : Org \cup {None}, role : DOMAIN Rank, active : BOOLEAN]]
  /\ genesis \in BOOLEAN
  /\ sessions \in [Token -> [task : Task \cup {None}, left : 0..MaxSession]]

AuthInit ==
  /\ users = [u \in User |-> NoUser]
  /\ genesis = FALSE
  /\ sessions = [w \in Token |-> NoSession]

-----------------------------------------------------------------------------
(* Guards.                                                                 *)

\* the bootstrap token is an administrator's until a daemon administrator
\* exists, and nothing afterwards
RequireOperator(who, minimum) ==
  \/ who = "bootstrap" /\ ~genesis
  \/ who = "daemon_admin" /\ genesis
  \/ /\ who \in User
     /\ users[who].active
     /\ Rank[users[who].role] >= Rank[minimum]

\* require_org: the daemon's own tokens manage every organization
ManagesOrg(who, org) ==
  \/ who \in {"bootstrap", "daemon_admin"}
  \/ who \in User /\ users[who].org = org

\* task_row: a daemon administrator belongs to no organization and sees no task
SeesTask(who, t) ==
  \/ who = "bootstrap"
  \/ who \in User /\ users[who].org = HomeOrg[t]

RequireWorker(w, t) == sessions[w].task = t /\ sessions[w].left > 0

-----------------------------------------------------------------------------
(* Operations.                                                             *)

\* connectd init
Genesis ==
  /\ ~genesis
  /\ genesis' = TRUE
  /\ UNCHANGED <<users, sessions>>

CreateOperator(who, u, org, role) ==
  /\ RequireOperator(who, "admin") /\ ManagesOrg(who, org)
  /\ users[u] = NoUser
  /\ users' = [users EXCEPT ![u] = [org |-> org, role |-> role, active |-> TRUE]]
  /\ UNCHANGED <<genesis, sessions>>

RevokeOperator(who, u) ==
  /\ users[u].active
  /\ RequireOperator(who, "admin") /\ ManagesOrg(who, users[u].org)
  /\ who # u
  /\ users' = [users EXCEPT ![u].active = FALSE]
  /\ UNCHANGED <<genesis, sessions>>

\* no two sessions share a token: issue_worker makes a new one
IssueWorker(w, t, ttl) ==
  /\ sessions[w] = NoSession
  /\ sessions' = [sessions EXCEPT ![w] = [task |-> t, left |-> ttl]]
  /\ UNCHANGED <<users, genesis>>

Operators ==
  \/ Genesis
  \/ \E who \in Caller, u \in User :
       \/ RevokeOperator(who, u)
       \/ \E org \in Org, role \in Role : CreateOperator(who, u, org, role)

AgedSessions ==
  [w \in Token |->
     [sessions[w] EXCEPT !.left = IF @ > 0 THEN @ - 1 ELSE 0]]
=============================================================================
