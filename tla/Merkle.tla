------------------------------- MODULE Merkle -------------------------------
(***************************************************************************)
(* packages/core/src/merkle.ts and merkle-frontier.ts: the Merkle tree of  *)
(* RFC 6962 over the receipt hashes of one chain, as the verifier builds   *)
(* it from every entry, as the signer keeps it from one append to the next,*)
(* and as an audit path climbs it.                                         *)
(*                                                                         *)
(* A hash is the term it is taken of, so two are equal when what was       *)
(* hashed is; a leaf and a node are terms of different lengths, which is   *)
(* what the prefixes 0x00 and 0x01 are for.                                *)
(***************************************************************************)
EXTENDS Integers, Sequences, SequencesExt

LeafHash(entry) == <<"leaf", entry>>
NodeHash(left, right) == <<"node", left, right>>
EmptyHash == <<>>

\* Where a function of the source throws.
NoHash == <<"refused">>

\* The largest power of two below n.
SplitPoint(n) == CHOOSE k \in {2^i : i \in 0..n} : k < n /\ n <= 2 * k

Left(entries) == SubSeq(entries, 1, SplitPoint(Len(entries)))
Right(entries) == SubSeq(entries, SplitPoint(Len(entries)) + 1, Len(entries))

RECURSIVE MerkleRoot(_)
MerkleRoot(entries) ==
    IF entries = <<>> THEN EmptyHash
    ELSE IF Len(entries) = 1 THEN LeafHash(entries[1])
    ELSE NodeHash(MerkleRoot(Left(entries)), MerkleRoot(Right(entries)))

-----------------------------------------------------------------------------
(* Audit paths: sibling hashes from the leaf upwards, indices from 0.       *)

RECURSIVE InclusionProof(_, _)
InclusionProof(entries, index) ==
    IF Len(entries) = 1 THEN <<>>
    ELSE LET k == SplitPoint(Len(entries)) IN
         IF index < k
         THEN Append(InclusionProof(Left(entries), index), MerkleRoot(Right(entries)))
         ELSE Append(InclusionProof(Right(entries), index - k), MerkleRoot(Left(entries)))

RECURSIVE AuditPathLength(_, _)
AuditPathLength(index, size) ==
    IF size <= 1 THEN 0
    ELSE LET k == SplitPoint(size) IN
         1 + IF index < k THEN AuditPathLength(index, k) ELSE AuditPathLength(index - k, size - k)

\* Up past the levels at which a node on the right edge has no sibling.
RECURSIVE Climb(_, _)
Climb(leaf, last) ==
    IF leaf # 0 /\ leaf % 2 = 0 THEN Climb(leaf \div 2, last \div 2) ELSE <<leaf, last>>

\* One step of a path: the side of the sibling follows from the position.
Step(at, sibling) ==
    LET fromTheLeft == at.leaf = at.last \/ at.leaf % 2 = 1
        level == IF fromTheLeft THEN Climb(at.leaf, at.last) ELSE <<at.leaf, at.last>>
    IN  [node |-> IF fromTheLeft THEN NodeHash(sibling, at.node) ELSE NodeHash(at.node, sibling),
         leaf |-> level[1] \div 2,
         last |-> level[2] \div 2]

RootFromInclusionProof(entry, index, size, path) ==
    IF index \notin 0..(size - 1) \/ Len(path) # AuditPathLength(index, size) THEN NoHash
    ELSE FoldLeft(Step, [node |-> LeafHash(entry), leaf |-> index, last |-> size - 1], path).node

-----------------------------------------------------------------------------
(* The frontier: the roots of the perfect subtrees, the largest first.      *)

EmptyFrontier == [size |-> 0, nodes |-> <<>>]

\* The new leaf merges once for every trailing 1 bit of the old size.
RECURSIVE Carry(_, _, _)
Carry(nodes, node, size) ==
    IF size % 2 = 0 THEN Append(nodes, node)
    ELSE Carry(Front(nodes), NodeHash(Last(nodes), node), size \div 2)

FrontierAppend(frontier, entry) ==
    [size |-> frontier.size + 1,
     nodes |-> Carry(frontier.nodes, LeafHash(entry), frontier.size)]

FrontierRoot(frontier) ==
    IF frontier.nodes = <<>> THEN EmptyHash
    ELSE FoldRight(NodeHash, Front(frontier.nodes), Last(frontier.nodes))
=============================================================================
