------------------------------ MODULE MCAdmission ------------------------------
EXTENDS Admission, TLC

MCToolInfo == [tool \in Tool |-> [tier |-> 2, financial |-> TRUE, metered |-> TRUE,
                               cost |-> MeteredCents(5000, 4)]]

\* dev_fast, balanced and prod_secure
MCProfiles ==
  {[mode |-> mode, sandbox |-> TRUE] : mode \in {"auto_grant", "risk_tiered", "strict_ed25519"}}

\* one tool with two argument hashes
MCAction ==
  {[task |-> "t", who |-> "w", tool |-> "pay", args |-> x] : x \in {"x", "y"}}

\* dear output, and a node whose output is free: the cap, or the token limit, clamps
MCQuotes ==
  {[input |-> 1, output |-> 3, max |-> 4, cap |-> 2],
   [input |-> 3, output |-> 0, max |-> 2, cap |-> 3]}

Symmetry == Permutations(Client) \cup Permutations(Id)
=============================================================================
