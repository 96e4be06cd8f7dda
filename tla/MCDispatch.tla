------------------------------ MODULE MCDispatch ------------------------------
EXTENDS Dispatch, TLC

CONSTANTS t1, t2, s1, o1, workbench, deploy, retired

MCHomeOrg == [t \in Task |-> o1]
MCStepTask == [s \in Step |-> t1]
MCTier == [tool \in Tool |-> IF tool = deploy THEN 2 ELSE 1]

Opt(id, next, tool) == [id |-> id, next |-> next, tool |-> tool]

\* Leaves at the first hop (too early), the second and the third, a link back
\* to the root, and one past the third hop.
GoodTree ==
  [root  |-> "a",
   nodes |-> [n \in {"a", "b", "c"} |->
     CASE n = "a" -> [hop |-> 1, options |-> <<Opt("x", "b", None), Opt("y", Leaf, workbench)>>]
       [] n = "b" -> [hop |-> 2, options |-> <<Opt("x", "c", None), Opt("y", Leaf, workbench)>>]
       [] n = "c" -> [hop |-> 3, options |-> <<Opt("x", Leaf, deploy), Opt("y", Leaf, retired),
                                               Opt("z", Leaf, None)>>]]]

\* A root that links to itself, a hop out of order, and an option given twice.
BadTree ==
  [root  |-> "a",
   nodes |-> [n \in {"a", "b"} |->
     CASE n = "a" -> [hop |-> 1, options |-> <<Opt("x", "a", None), Opt("y", "b", None)>>]
       [] n = "b" -> [hop |-> 3, options |-> <<Opt("x", Leaf, deploy), Opt("x", Leaf, workbench)>>]]]

MCTrees == {GoodTree, BadTree}
MCChoices == {"x", "y", "z"}

Profile(mode, runtime, proxied) == [mode |-> mode, runtime |-> runtime, proxied |-> proxied]
MCSettings ==
  {Profile("strict_ed25519", "container", TRUE),
   Profile("risk_tiered", "subprocess", FALSE)}

Symmetry == Permutations(Dispatcher) \cup Permutations(Token)
=============================================================================
