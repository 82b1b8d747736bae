------------------------------- MODULE Merkle -------------------------------
(***************************************************************************)
(* The Merkle commitments of the node and of the contracts, as pure       *)
(* operators.                                                              *)
(*                                                                         *)
(* Node side (src/tachyon-node/src/aggregator/mod.rs): build_merkle_tree  *)
(* hashes each feed, then each level pairwise in position order, an odd   *)
(* last node hashed on its own, and returns every level concatenated,     *)
(* root last; get_merkle_proof walks that vector.  A hash is kept as the  *)
(* term it was computed from, [feed |-> f] for hash_data of a feed and    *)
(* [sha |-> input] for an inner node, so two hashes are equal exactly     *)
(* when their inputs are: sha256 without collisions.                      *)
(*                                                                         *)
(* Contract side (tachyon-verifier verify_price and verify_batch,         *)
(* tachyon-state-compression verify_proof): keccak over sorted pairs.     *)
(* The comparison needs an order on hashes, so a contract hash is a       *)
(* natural number and the pair hash an injective pairing function.        *)
(* Indices are 0-based as in the code.                                    *)
(***************************************************************************)
EXTENDS Naturals, Sequences

-----------------------------------------------------------------------------
(* Node side.                                                              *)

(* hash_data: sha256 of the serialized feed.                             *)
HashData(f) == [feed |-> f]

NodeHash(x) == [sha |-> x]

(* One level up: pairs are hashed as the concatenation of the two hex     *)
(* strings, an odd last node as its own string.                           *)
NextLevel(lvl) ==
    [i \in 1..((Len(lvl) + 1) \div 2) |->
        IF 2 * i <= Len(lvl)
        THEN NodeHash(<<lvl[2 * i - 1], lvl[2 * i]>>)
        ELSE NodeHash(<<lvl[2 * i - 1]>>)]

RECURSIVE BuildUp(_, _)
BuildUp(current, tree) ==
    IF Len(current) <= 1 THEN tree
    ELSE LET next == NextLevel(current) IN BuildUp(next, tree \o next)

(* build_merkle_tree: the leaf hashes of the feeds, then every level.     *)
BuildMerkleTree(feeds) ==
    LET leaves == [i \in 1..Len(feeds) |-> HashData(feeds[i])]
    IN  IF feeds = <<>> THEN <<>> ELSE BuildUp(leaves, leaves)

(* The while loop of get_merkle_proof: at each level push tree[sibling]   *)
(* if the sibling index is below level_size, then halve both.             *)
RECURSIVE ProofLoop(_, _, _, _)
ProofLoop(tree, index, levelSize, proof) ==
    IF levelSize <= 1 THEN proof
    ELSE LET sibling == IF index % 2 = 0 THEN index + 1 ELSE index - 1
             next == IF sibling < levelSize
                     THEN Append(proof, tree[sibling + 1]) ELSE proof
         IN  ProofLoop(tree, index \div 2, (levelSize + 1) \div 2, next)

(* get_merkle_proof: level_size starts at (tree.len() + 1) / 2.           *)
GetMerkleProof(tree, leafIndex) ==
    ProofLoop(tree, leafIndex, (Len(tree) + 1) \div 2, <<>>)

-----------------------------------------------------------------------------
(* Contract side.                                                          *)

(* keccak(a || b) for two 32-byte hashes: the Cantor pairing, injective.  *)
Keccak(a, b) == ((a + b) * (a + b + 1)) \div 2 + b

(* A variant of VerifyStep that hashes in proof order (mutant).           *)
VerifyStepUnsorted(current, element) == Keccak(current, element)

(* One step of the proof loop: the smaller hash goes first.               *)
VerifyStep(current, element) ==
    IF current < element THEN Keccak(current, element)
    ELSE Keccak(element, current)

RECURSIVE VerifyLoop(_, _)
VerifyLoop(current, proof) ==
    IF proof = <<>> THEN current
    ELSE VerifyLoop(VerifyStep(current, Head(proof)), Tail(proof))

(* The proof check of verify_price, verify_batch and verify_proof: the    *)
(* proof, applied to the leaf hash, must give the root.                   *)
VerifyProof(leafHash, proof, root) == VerifyLoop(leafHash, proof) = root

(* verify_batch: one result per price, the proof check of each; a batch  *)
(* whose lengths differ is refused (MismatchedInputs, modelled as {}).    *)
VerifyBatch(leafHashes, proofs, root) ==
    IF Len(leafHashes) # Len(proofs) THEN {}
    ELSE [i \in 1..Len(leafHashes) |-> VerifyProof(leafHashes[i], proofs[i], root)]

(* verify_price also refuses a price 60 seconds old or more.              *)
VerifyPrice(leafHash, proof, root, now, timestamp) ==
    VerifyProof(leafHash, proof, root) /\ now - timestamp < 60
=============================================================================
