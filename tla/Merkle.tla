------------------------------- MODULE Merkle -------------------------------
(***************************************************************************)
(* The Merkle tree of crates/evidence/src/merkle.rs: roots, audit paths    *)
(* and their verification.  BLAKE3 is symbolic: a digest is the tuple of   *)
(* what was hashed, prefix first.  Leaves are byte strings; since they are *)
(* digests themselves, the digest of an inner node is a possible leaf too. *)
(***************************************************************************)
EXTENDS Options, SequencesExt

CONSTANTS
    LeafBytes,      \* leaves to build trees from
    MaxLeaves,      \* bound: leaves of a tree
    MaxClaimed,     \* bound: leaves of a tree that arbitrary claims are made about
    MaxSteps        \* bound: steps of an arbitrary audit path

ASSUME MerkleAssumption ==
    MaxLeaves \in Nat \ {0} /\ MaxClaimed \in 1..MaxLeaves /\ MaxSteps \in Nat

VARIABLES
    leaves,     \* leaves of the tree
    claim       \* an inclusion claim about it: [leaf, proof, honest], or None

merkleVars == <<leaves, claim>>

-----------------------------------------------------------------------------
\* Mutant: leaves are not hashed with a prefix of their own.
LeafHashBare(bytes) == bytes

LeafHash(bytes) == <<"leaf", bytes>>

NodeHash(left, right) == <<"node", left, right>>

\* k doubles while 2k < n.
RECURSIVE Doubled(_, _)
Doubled(k, n) == IF k * 2 < n THEN Doubled(k * 2, n) ELSE k

SplitPoint(n) == Doubled(1, n)

RECURSIVE SubtreeRoot(_)
SubtreeRoot(ls) ==
    IF Len(ls) = 1 THEN LeafHash(ls[1])
    ELSE LET k == SplitPoint(Len(ls))
         IN  NodeHash(SubtreeRoot(SubSeq(ls, 1, k)), SubtreeRoot(SubSeq(ls, k + 1, Len(ls))))

MerkleRoot(ls) == IF ls = <<>> THEN <<"empty">> ELSE SubtreeRoot(ls)

Step(sibling, onLeft) == [sibling |-> sibling, sibling_on_left |-> onLeft]

\* Mutant: the step is pushed before the path below it.
RECURSIVE PathRootFirst(_, _)
PathRootFirst(ls, index) ==
    IF Len(ls) = 1 THEN <<>>
    ELSE LET k     == SplitPoint(Len(ls))
             left  == SubSeq(ls, 1, k)
             right == SubSeq(ls, k + 1, Len(ls))
         IN  IF index < k
             THEN <<Step(SubtreeRoot(right), FALSE)>> \o PathRootFirst(left, index)
             ELSE <<Step(SubtreeRoot(left), TRUE)>> \o PathRootFirst(right, index - k)

\* path(): from the leaf up; index counts from 0.
RECURSIVE Path(_, _)
Path(ls, index) ==
    IF Len(ls) = 1 THEN <<>>
    ELSE LET k     == SplitPoint(Len(ls))
             left  == SubSeq(ls, 1, k)
             right == SubSeq(ls, k + 1, Len(ls))
         IN  IF index < k
             THEN Append(Path(left, index), Step(SubtreeRoot(right), FALSE))
             ELSE Append(Path(right, index - k), Step(SubtreeRoot(left), TRUE))

VerifyInclusion(leaf, index, size, proof, root) ==
    /\ index < size
    /\ root = FoldLeft(LAMBDA hash, step : IF step.sibling_on_left
                                           THEN NodeHash(step.sibling, hash)
                                           ELSE NodeHash(hash, step.sibling),
                       LeafHash(leaf), proof)

-----------------------------------------------------------------------------
(* Trees are grown leaf by leaf, and claims are made about them. *)

MerkleInit == leaves = <<>> /\ claim = None

AddLeaf ==
    /\ claim = None
    /\ Len(leaves) < MaxLeaves
    /\ \E bytes \in LeafBytes : leaves' = Append(leaves, bytes)
    /\ UNCHANGED claim

\* inclusion_proof() for an index in range.
Prove ==
    /\ claim = None
    /\ \E index \in 0..(Len(leaves) - 1) :
          claim' = Some([leaf |-> leaves[index + 1], index |-> index, honest |-> TRUE,
                      proof |-> Path(leaves, index)])
    /\ UNCHANGED leaves

\* The digests a claim can be put together from: those of all runs of leaves.
Digests ==
    {SubtreeRoot(SubSeq(leaves, i, j)) : <<i, j>> \in
        {p \in (1..Len(leaves)) \X (1..Len(leaves)) : p[1] <= p[2]}}

\* A claim about any byte string, with any path.
ClaimAny ==
    /\ claim = None
    /\ Len(leaves) <= MaxClaimed
    /\ \E leaf \in LeafBytes \cup Digests, index \in 0..(Len(leaves) - 1),
          proof \in SeqOf([sibling : Digests, sibling_on_left : BOOLEAN], MaxSteps) :
          claim' = Some([leaf |-> leaf, index |-> index, honest |-> FALSE, proof |-> proof])
    /\ UNCHANGED leaves

MerkleNext == AddLeaf \/ Prove \/ ClaimAny

MerkleSpec == MerkleInit /\ [][MerkleNext]_merkleVars

-----------------------------------------------------------------------------
(* Properties. *)

Claimed == Get(claim)

Verified == VerifyInclusion(Claimed.leaf, Claimed.index, Len(leaves), Claimed.proof,
                            MerkleRoot(leaves))

\* The smallest number of levels that has room for n leaves.
Levels(n) == CHOOSE h \in 0..n : 2^h >= n /\ \A g \in 0..(h - 1) : 2^g < n

\* The audit path computed for a leaf verifies, and is never longer than the
\* levels of a balanced tree.
HonestProofs ==
    claim # None /\ Claimed.honest => Verified /\ Len(Claimed.proof) <= Levels(Len(leaves))

\* A root stands for one list of leaves: no other list, shorter, longer or with
\* an inner node in the place of a leaf, has the same root. Checkpoint
\* verification compares nothing but roots.
RootsInjective ==
    claim = None /\ Len(leaves) <= MaxClaimed =>
       \A other \in SeqOf(LeafBytes \cup Digests, Len(leaves)) :
          MerkleRoot(other) = MerkleRoot(leaves) => other = leaves

\* Only leaves have inclusion proofs, whatever the path is put together from.
InclusionSound ==
    claim # None /\ Verified => \E i \in DOMAIN leaves : leaves[i] = Claimed.leaf
=============================================================================
