----------------------------- MODULE MCTaskStore ------------------------------
EXTENDS TaskStore, TLC

Symmetry == Permutations(Client) \cup Permutations(Step)
              \cup Permutations(Token) \cup Permutations(Task)
=============================================================================
