---------------------------- MODULE StakeVoting ----------------------------
(***************************************************************************)
(* The stake arithmetic of the consensus stage and of the settlement      *)
(* contract, as pure operators:                                            *)
(*   tally_votes, select_leader, verify_quorum                            *)
(*       src/tachyon-node/src/consensus/mod.rs                             *)
(*   the vote count of submit_root_with_consensus                         *)
(*       src/l2-contracts/programs/tachyon-state-compression/src/lib.rs    *)
(*                                                                         *)
(* A validator list is a sequence of [pubkey, stake] in the order         *)
(* query_validators returns it.  A vote map (HashMap<String, Vote>, keyed *)
(* by voter) is a set of [voter, root, stake] records with distinct       *)
(* voters.  The contract's Vec<ConsensusVote> is a sequence of [root,     *)
(* stake].  Where the code walks a HashMap, the order is unspecified and  *)
(* the operator returns the set of results the walk can produce.          *)
(***************************************************************************)
EXTENDS Naturals, Sequences, FiniteSets, FiniteSetsExt

CONSTANTS
    NoLeader,     \* Option::None from select_leader
    NoRoot,       \* Option::None as a consensus root; [0u8; 32] on chain
    LeaderSeed    \* the multiplier 12345 of select_leader

(* Sum of the stakes of a validator list (iter().map(stake).sum()).       *)
RECURSIVE StakePrefix(_, _)
StakePrefix(vals, i) == IF i = 0 THEN 0 ELSE StakePrefix(vals, i - 1) + vals[i].stake

TotalStake(vals) == StakePrefix(vals, Len(vals))

(* The stake a vote map gives a root (root_stakes in tally_votes and      *)
(* verify_quorum, root_votes in the contract).                            *)
RootStake(votes, r) == MapThenSumSet(LAMBDA v : v.stake, {v \in votes : v.root = r})

VotedRoots(votes) == {v.root : v \in votes}

(* (total_stake * 2) / 3 with integer division, in all three places.      *)
QuorumThreshold(total) == (total * 2) \div 3

(* tally_votes: the roots the HashMap walk may return first, each with    *)
(* its stake, or <<NoRoot, 0>> when no root reaches the threshold.        *)
TallyVotes(votes, total) ==
    LET winners == {r \in VotedRoots(votes) :
                      RootStake(votes, r) >= QuorumThreshold(total)}
    IN  IF winners = {} THEN {<<NoRoot, 0>>}
        ELSE {<<r, RootStake(votes, r)>> : r \in winners}

(* verify_quorum: some root has at least the threshold.                   *)
VerifyQuorum(votes, total) ==
    \E r \in VotedRoots(votes) : RootStake(votes, r) >= QuorumThreshold(total)

(* A variant of LeaderFrom that stops when the running sum reaches the    *)
(* target instead of exceeding it (mutant).                               *)
RECURSIVE LeaderFromReach(_, _, _, _)
LeaderFromReach(vals, i, cumulative, target) ==
    IF i > Len(vals) THEN vals[1].pubkey
    ELSE IF cumulative + vals[i].stake >= target THEN vals[i].pubkey
    ELSE LeaderFromReach(vals, i + 1, cumulative + vals[i].stake, target)

(* The running-sum loop of select_leader from index i on; past the end it *)
(* falls back to validators.first().                                      *)
RECURSIVE LeaderFrom(_, _, _, _)
LeaderFrom(vals, i, cumulative, target) ==
    IF i > Len(vals) THEN vals[1].pubkey
    ELSE IF cumulative + vals[i].stake > target THEN vals[i].pubkey
    ELSE LeaderFrom(vals, i + 1, cumulative + vals[i].stake, target)

(* select_leader(validators, slot)                                        *)
SelectLeader(vals, slot) ==
    IF vals = <<>> \/ TotalStake(vals) = 0 THEN NoLeader
    ELSE LeaderFrom(vals, 1, 0, (slot * LeaderSeed) % TotalStake(vals))

(* The vote count of submit_root_with_consensus: root_votes summed from   *)
(* the Vec, then a HashMap walk keeping the first root with strictly more *)
(* stake than the best so far, starting from 0 stake and the zero root.   *)
(* The result is the set of (consensus_root, max_stake) the walk can give.*)
ChainVoteCount(votes) ==
    LET roots   == {votes[i].root : i \in 1..Len(votes)}
        stakeOf(r) == MapThenSumSet(LAMBDA i : votes[i].stake,
                                    {i \in 1..Len(votes) : votes[i].root = r})
        best    == {r \in roots : stakeOf(r) > 0 /\
                                  \A q \in roots : stakeOf(q) <= stakeOf(r)}
    IN  IF best = {} THEN {<<NoRoot, 0>>} ELSE {<<r, stakeOf(r)>> : r \in best}

(* submit_root_with_consensus accepts root when the walk can end on root  *)
(* with max_stake at or above the threshold of the caller's total_stake.  *)
ChainAccepts(root, total, votes) ==
    \E res \in ChainVoteCount(votes) :
        /\ res[2] >= QuorumThreshold(total)
        /\ res[1] = root
=============================================================================
