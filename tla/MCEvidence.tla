----------------------------- MODULE MCEvidence -----------------------------
(* Values of the constants of Evidence for model checking: the trees are    *)
(* Merkle's, whose three ways of coming by a root are compared on every     *)
(* tree of at most MCLeaves entries.                                        *)
EXTENDS Evidence

Tree == INSTANCE Merkle

MCRootOf(entries) == Tree!MerkleRoot(entries)
MCFrontierRootOf(entries) ==
    Tree!FrontierRoot(FoldLeft(Tree!FrontierAppend, Tree!EmptyFrontier, entries))
MCPathOf(entries, index) == Tree!InclusionProof(entries, index)
MCRootFromPath(entry, index, size, path) == Tree!RootFromInclusionProof(entry, index, size, path)

ASSUME MCConstants == EvidenceConstants

MCLeaves == 12
Entries(n) == [i \in 1..n |-> i]

(* merkle-frontier.ts 10-13: the root the signer keeps is the root of the   *)
(* tree of all the entries.                                                 *)
ASSUME FrontierGivesTheRoot ==
    \A n \in 0..MCLeaves : FrontierRootOf(Entries(n)) = RootOf(Entries(n))

(* merkle.ts 88-95: a path rebuilds the root for the entry at its position, *)
(* and for no other entry, position or length.                              *)
ASSUME PathsProveTheirEntry ==
    \A n \in 1..MCLeaves : \A i \in 0..(n - 1) :
        LET path == PathOf(Entries(n), i)
            proves(entry, index) == RootFromPath(entry, index, n, path) = RootOf(Entries(n))
        IN  \A entry \in 1..n, index \in 0..n : proves(entry, index) <=> entry = i + 1 /\ index = i
=============================================================================
