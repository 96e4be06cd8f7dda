----------------------------- MODULE MCToolGateway -----------------------------
EXTENDS ToolGateway, TLC

\* a metered tool, one with a fixed price, and a free one
MCToolInfo ==
  [tool \in Tool |->
     CASE tool = "gpu"  -> [tier |-> 2, financial |-> TRUE, metered |-> TRUE, cost |-> 1]
       [] tool = "buy"  -> [tier |-> 2, financial |-> TRUE, metered |-> FALSE, cost |-> 1]
       [] tool = "push" -> [tier |-> 2, financial |-> FALSE, metered |-> FALSE, cost |-> 0]]

\* an action of each kind of tool, and one with other arguments
MCAction ==
  {[task |-> "t", who |-> "w", tool |-> tool, args |-> "x"] : tool \in Tool}
    \cup {[task |-> "t", who |-> "w", tool |-> "gpu", args |-> "y"]}

Symmetry == Permutations(Client) \cup Permutations(Id)
=============================================================================
