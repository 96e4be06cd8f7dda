-------------------------------- MODULE Router --------------------------------
(***************************************************************************)
(* The decision tree walk of router.py and model.py.  A tree names its     *)
(* root and maps node names to a hop number and a sequence of options; the *)
(* classifier has answered for every node of the tree, in one call, before *)
(* the walk starts, and the walk takes at most three hops.  An option      *)
(* whose next_node is no string denies the route: here it names no node,   *)
(* which denies it at the next hop.                                        *)
(***************************************************************************)
EXTENDS Integers, Sequences

MaxHops    == 3
MaxOptions == 4
Leaf       == "LEAF_RESOLVED"

Start(tree) == [status |-> "walking", at |-> tree.root, hops |-> <<>>]
Denied      == [status |-> "denied", at |-> Leaf, hops |-> <<>>]

\* the options of a node the answer names
Matches(node, answer) ==
  {i \in DOMAIN node.options : node.options[i].id = answer.choice}

Chosen(node, answer) == node.options[CHOOSE i \in Matches(node, answer) : TRUE]

Visited(r) == {r.hops[i].node : i \in DOMAIN r.hops}

\* Whether the walk may take a hop at the node it stands on.
Passable(tree, answers, r) ==
  /\ r.at \in DOMAIN tree.nodes
  /\ r.at \notin Visited(r)
  /\ tree.nodes[r.at].hop = Len(r.hops) + 1
  /\ answers[r.at].confident
  /\ \E i \in DOMAIN tree.nodes[r.at].options :
       Matches(tree.nodes[r.at], answers[r.at]) = {i}

\* Mutated form: a leaf may be resolved at the first hop.
Hop_AnyLeaf(tree, answers, r) ==
  IF r.status # "walking" THEN r
  ELSE IF ~Passable(tree, answers, r) THEN Denied
  ELSE LET option == Chosen(tree.nodes[r.at], answers[r.at])
       IN  [status |-> IF option.next = Leaf THEN "resolved" ELSE "walking",
            at     |-> option.next,
            hops   |-> Append(r.hops, [node |-> r.at, option |-> option])]

\* One round of traverse's loop.
Hop(tree, answers, r) ==
  IF r.status # "walking" THEN r
  ELSE IF ~Passable(tree, answers, r) THEN Denied
  ELSE LET option == Chosen(tree.nodes[r.at], answers[r.at])
           hops   == Append(r.hops, [node |-> r.at, option |-> option])
       IN  IF option.next = Leaf /\ Len(hops) < 2 THEN Denied
           ELSE [status |-> IF option.next = Leaf THEN "resolved" ELSE "walking",
                 at     |-> option.next,
                 hops   |-> hops]

\* Three hops; a walk that has found no leaf by then is denied.
Traverse(tree, answers) ==
  LET r == Hop(tree, answers, Hop(tree, answers, Hop(tree, answers, Start(tree))))
  IN  IF r.status = "resolved" THEN r ELSE Denied

\* The classifier is asked only about a tree all of whose nodes have one to
\* four options, and must answer for each of them.
Decide(tree, answers) ==
  IF /\ \A n \in DOMAIN tree.nodes :
          Len(tree.nodes[n].options) \in 1..MaxOptions
     /\ DOMAIN tree.nodes \subseteq DOMAIN answers
  THEN Traverse(tree, answers)
  ELSE Denied

\* the option a resolved walk ends in: its tool is the route's
LeafOf(r) == r.hops[Len(r.hops)].option

-----------------------------------------------------------------------------
(* What a resolved route must be, whatever computed it.                    *)

\* hops follow the tree's own links: from its root, over distinct nodes, each
\* by one of the node's options, to a leaf met at the second hop or the third
IsPath(tree, hops) ==
  /\ Len(hops) \in 2..MaxHops
  /\ hops[1].node = tree.root
  /\ \A i \in 1..Len(hops) :
       /\ hops[i].node \in DOMAIN tree.nodes
       /\ \E k \in DOMAIN tree.nodes[hops[i].node].options :
            hops[i].option = tree.nodes[hops[i].node].options[k]
  /\ \A i \in 1 .. Len(hops) - 1 : hops[i + 1].node = hops[i].option.next
  /\ \A i \in 1..Len(hops) : hops[i].option.next = Leaf <=> i = Len(hops)
  /\ \A i, j \in 1..Len(hops) : i # j => hops[i].node # hops[j].node

\* at every node of the walk the classifier was sure of the option taken
FollowsAnswers(answers, hops) ==
  \A i \in 1..Len(hops) :
    /\ answers[hops[i].node].confident
    /\ hops[i].option.id = answers[hops[i].node].choice
=============================================================================
