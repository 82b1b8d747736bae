--------------------------- MODULE MCStakeVoting ---------------------------
(***************************************************************************)
(* Checks the operators of StakeVoting over every small input: a state is *)
(* one input, chosen by Init, and the checks are invariants over it.      *)
(***************************************************************************)
EXTENDS StakeVoting, SequencesExt

CONSTANTS Pubkeys, MaxStake, MaxSlot, RootValues

VARIABLES vals, slot, votes, total

inputs == <<vals, slot, votes, total>>

(* Validator lists as the spec's ValidatorSet gives them: each pubkey at  *)
(* most once, in ascending order.                                         *)
SortedLists ==
    UNION {LET ks == SetToSortSeq(K, <) IN
             {[i \in 1..Len(ks) |-> [pubkey |-> ks[i], stake |-> st[i]]] :
                st \in [1..Len(ks) -> 0..MaxStake]} : K \in SUBSET Pubkeys}

(* Vote maps: each validator of the list votes for one root with its      *)
(* stake, or does not vote.                                               *)
VoteMaps(vs) ==
    {{[voter |-> vs[i].pubkey, root |-> ch[i], stake |-> vs[i].stake] :
        i \in {j \in 1..Len(vs) : ch[j] # NoRoot}} :
       ch \in [1..Len(vs) -> RootValues \cup {NoRoot}]}

MCInit ==
    /\ vals \in SortedLists
    /\ slot \in 0..MaxSlot
    /\ votes \in VoteMaps(vals)
    /\ total = TotalStake(vals)

MCNext == UNCHANGED inputs

MCSpec == MCInit /\ [][MCNext]_inputs

(* Spec section 4.4 step 6: the leader is the first validator whose       *)
(* running stake sum strictly exceeds (slot * 12345) mod total_stake, and *)
(* there is none when the total stake is 0.  select_leader must agree.    *)
LeaderSpec ==
    IF TotalStake(vals) = 0 THEN NoLeader
    ELSE LET target == (slot * LeaderSeed) % TotalStake(vals)
             i == CHOOSE k \in 1..Len(vals) :
                    StakePrefix(vals, k) > target /\
                    \A j \in 1..(k - 1) : StakePrefix(vals, j) <= target
         IN vals[i].pubkey

LeaderIsCumulativeDraw == SelectLeader(vals, slot) = LeaderSpec

(* The point of a 2/3 quorum: when the votes come from the validators     *)
(* that make up a positive total_stake, two different roots never both    *)
(* reach it, so tally_votes cannot pick between two winners by HashMap    *)
(* order and verify_quorum speaks for one root.  Zero stakes are left out *)
(* (a zero total, or a vote of no weight, meets a threshold of 0 whatever *)
(* the rounding), so what is checked is the rounding of (total*2)/3.      *)
QuorumIsUnique ==
    (total > 0 /\ \A v \in votes : v.stake > 0) =>
        \A r1, r2 \in VotedRoots(votes) :
            (RootStake(votes, r1) >= QuorumThreshold(total) /\
             RootStake(votes, r2) >= QuorumThreshold(total)) => r1 = r2
=============================================================================
