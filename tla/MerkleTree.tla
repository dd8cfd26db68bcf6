----------------------------- MODULE MerkleTree -----------------------------
(***************************************************************************)
(* CMerkelTree, the hash tree over the transactions of a block: an array   *)
(* of nodes that first holds the digests of the transactions and is then   *)
(* overwritten level by level until its first node is the root.            *)
(*                                                                         *)
(* A tree is [nodes, num]: m_pNodes, as long as m_nAllocNum, and m_nCurNum.*)
(* A digest is the data itself, wrapped: what differs has another digest.  *)
(* The second half of a node is scratch of one computation and left out.   *)
(***************************************************************************)
EXTENDS Integers, Sequences

CONSTANTS InitNodes, \* MERKEL_TREE_INIT_NODE_COUNT, scaled down
          NodeStep   \* MERKEL_TREE_NODE_INCREASE_STEP, scaled down

Uninitialised == <<"junk">>

LeafDigest(data) == <<"leaf", data>>

\* Mutant: the half that CalculateHashValue copies the left value to is left
\* out of the digest.
CalculateRightHashValue(left, right) == <<"node", right>>

\* The digest of two nodes, the right one first.
CalculateHashValue(left, right) == <<"node", right, left>>

NewTree == [nodes |-> [i \in 1..InitNodes |-> Uninitialised], num |-> 0]

Clear(tree) == [tree EXCEPT !.num = 0]

InceaseNode(tree) ==
  [tree EXCEPT !.nodes =
     [i \in 1..(Len(tree.nodes) + NodeStep) |->
        IF i <= tree.num THEN tree.nodes[i] ELSE Uninitialised]]

AddLeafNode(tree, data) ==
  LET room == IF tree.num >= Len(tree.nodes) THEN InceaseNode(tree) ELSE tree
  IN [nodes |-> [room.nodes EXCEPT ![tree.num + 1] = LeafDigest(data)],
      num |-> tree.num + 1]

\* Node k of the level above size nodes. The last of an odd number is its own
\* partner.
Above(nodes, size, k) ==
  LET left  == 2 * k - 1
      right == IF left < size THEN left + 1 ELSE left
  IN  [nodes EXCEPT ![k] = CalculateHashValue(nodes[left], nodes[right])]

\* One level of size nodes, in place: a node of the level above overwrites one
\* that is not read again.
Level(nodes, size) ==
  LET above[k \in 0..(size + 1) \div 2] ==
        IF k = 0 THEN nodes ELSE Above(above[k - 1], size, k)
  IN  above[(size + 1) \div 2]

\* The loop over the levels: as long as a level has more than one node, the
\* next one takes its place. It has ended after size rounds at the latest.
NextLevel(b) ==
  IF b.size <= 1 THEN b
  ELSE [nodes |-> Level(b.nodes, b.size), size |-> (b.size + 1) \div 2]

BuildLevels(nodes, size) ==
  LET built[n \in 0..size] ==
        IF n = 0 THEN [nodes |-> nodes, size |-> size] ELSE NextLevel(built[n - 1])
  IN  built[size].nodes

\* Fails, and changes nothing, without a leaf: size 0 is built at once.
BuildMerkleTree(tree) == [tree EXCEPT !.nodes = BuildLevels(@, tree.num)]

GetRoot(tree) == tree.nodes[1]
=============================================================================
