--------------------------------- MODULE MCNodes ---------------------------------
EXTENDS Nodes

\* A paid local node with a health URL owned by one organization, and a managed
\* external node of another.
MCNodeInfo ==
  [n \in Node |->
     CASE n = "desk"  -> [org |-> "a", tier |-> "local_only", airgapped |-> TRUE, allowed |-> Privacy,
                          paid |-> TRUE, source |-> "url"]
       [] n = "cloud" -> [org |-> "b", tier |-> "external", airgapped |-> FALSE,
                          allowed |-> Privacy, paid |-> FALSE, source |-> "m"]]

MCRequest == {[org |-> "b", privacy |-> "secret_sensitive"], [org |-> "a", privacy |-> "repo_sensitive"]}
=============================================================================
