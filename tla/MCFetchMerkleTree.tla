------------------------- MODULE MCFetchMerkleTree -------------------------
(* FetchMerkleTree with short lists of leaves as answers: a leaf too many  *)
(* or too few, of another round, with another value, in another order.     *)
(* Where a second leaf may not be a random number it may not be one of the *)
(* other protocol's either, so only the latter is among the answers.       *)
EXTENDS FetchMerkleTree, SequencesExt

Later == {leaf \in Leaf : leaf.kind # "random"}

MCTrees ==
    BoundedSeq(Leaf, 1) \cup
    {<<first, second>> : first \in Leaf, second \in Later} \cup
    {Append(AgreedTree(r), leaf) : r \in Root, leaf \in Later}

=============================================================================
