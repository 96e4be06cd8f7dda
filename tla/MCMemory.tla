-------------------------------- MODULE MCMemory --------------------------------
EXTENDS Memory, TLC

\* Two tasks, of one organization or, if there is another, of two; the second
\* was created with the first one's scope as its memory_scope.
MCTaskInfo ==
  [t \in Task |-> [org |-> IF t = "u" /\ "b" \in Org THEN "b" ELSE "a", authority |-> "session_auto",
                   private |-> FALSE, scope |-> IF t = "u" THEN "t" ELSE None]]

MCTextInfo ==
  [x \in Text |-> CASE x = "fact"  -> [task |-> "t", sourced |-> TRUE]
                    [] x = "guess" -> [task |-> "u", sourced |-> FALSE]
                    [] x = "rule"  -> [task |-> None, sourced |-> FALSE]]

Symmetry == Permutations(Librarian)
=============================================================================
