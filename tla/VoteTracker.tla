----------------------------- MODULE VoteTracker -----------------------------
(***************************************************************************)
(* The node's vote tracker (src/tachyon-node/src/vote/oracle_vote.rs).    *)
(*                                                                         *)
(* VoteTracker keeps the votes of each root, the VoteState of each        *)
(* registered validator and total_stake.  Roots and validators are model  *)
(* values; a vote is its voter, its root and the stake it declares.       *)
(* batch_number, timestamps and signatures are left out: nothing the      *)
(* tracker computes reads them.  total_stake is a u64; the model keeps it *)
(* as an integer and bounds it by MaxTotalStake, so the subtraction of    *)
(* update_stake is checked for underflow by TotalStakeCoversRegistered.   *)
(***************************************************************************)
EXTENDS Integers, Sequences, FiniteSets, Functions, SequencesExt

CONSTANTS
    Validators,      \* validator pubkeys
    TrackerRoots,    \* Merkle roots voted on
    StakeValues,     \* stakes a caller passes
    MaxTotalStake,   \* bound on total_stake (stands for u64::MAX)
    MaxTrackerVotes  \* bound on the number of votes recorded

VARIABLES
    trackerStates,  \* validator -> VoteState, or [registered |-> FALSE]
    rootVotes,      \* root -> sequence of votes recorded for it
    trackerTotal    \* total_stake

trackerVars == <<trackerStates, rootVotes, trackerTotal>>

NotRegistered == [registered |-> FALSE]

TrackerInit ==
    /\ trackerStates = [v \in Validators |-> NotRegistered]
    /\ rootVotes = [r \in TrackerRoots |-> <<>>]
    /\ trackerTotal = 0

(* register_validator: insert overwrites any earlier VoteState of the     *)
(* validator, and its stake is added to total_stake either way.           *)
RegisterValidator(v, s) ==
    /\ trackerTotal + s <= MaxTotalStake
    /\ trackerStates' = [trackerStates EXCEPT ![v] =
                           [registered |-> TRUE, stake |-> s, votes |-> <<>>]]
    /\ trackerTotal' = trackerTotal + s
    /\ UNCHANGED rootVotes

(* A variant of update_stake that takes the new stake off and adds the    *)
(* old one back (mutant).                                                  *)
UpdateStakeSwapped(v, s) ==
    IF trackerStates[v].registered
    THEN /\ trackerTotal - s + trackerStates[v].stake <= MaxTotalStake
         /\ trackerTotal' = trackerTotal - s + trackerStates[v].stake
         /\ trackerStates' = [trackerStates EXCEPT ![v].stake = s]
         /\ UNCHANGED rootVotes
    ELSE UNCHANGED trackerVars

(* update_stake: total_stake - state.stake + new_stake, for a registered  *)
(* validator only.                                                         *)
UpdateStake(v, s) ==
    IF trackerStates[v].registered
    THEN /\ trackerTotal - trackerStates[v].stake + s <= MaxTotalStake
         /\ trackerTotal' = trackerTotal - trackerStates[v].stake + s
         /\ trackerStates' = [trackerStates EXCEPT ![v].stake = s]
         /\ UNCHANGED rootVotes
    ELSE UNCHANGED trackerVars

VotesRecorded == FoldFunction(LAMBDA r, acc : Len(r) + acc, 0, rootVotes)

(* record_vote: the vote is appended to its root's list whoever cast it,  *)
(* and to the voter's VoteState if the voter is registered.  Neither the  *)
(* declared stake nor an earlier vote of the same voter is checked.       *)
RecordVote(voter, root, stake) ==
    LET vote == [voter |-> voter, root |-> root, stake |-> stake]
    IN  /\ VotesRecorded < MaxTrackerVotes
        /\ rootVotes' = [rootVotes EXCEPT ![root] = Append(@, vote)]
        /\ trackerStates' =
              IF trackerStates[voter].registered
              THEN [trackerStates EXCEPT ![voter].votes = Append(@, vote)]
              ELSE trackerStates
        /\ UNCHANGED trackerTotal

(* get_stake_weight: the sum of the stakes the root's votes declare.      *)
StakeWeight(root) ==
    FoldSeq(LAMBDA vote, acc : vote.stake + acc, 0, rootVotes[root])

(* has_consensus: never with total_stake 0, else weight >= 2*total/3.     *)
HasConsensus(root) ==
    /\ trackerTotal # 0
    /\ StakeWeight(root) >= (trackerTotal * 2) \div 3

TrackerNext ==
    \/ \E v \in Validators, s \in StakeValues : RegisterValidator(v, s)
    \/ \E v \in Validators, s \in StakeValues : UpdateStake(v, s)
    \/ \E v \in Validators, r \in TrackerRoots, s \in StakeValues :
          RecordVote(v, r, s)

-----------------------------------------------------------------------------
RegisteredStake ==
    FoldFunction(LAMBDA st, acc : (IF st.registered THEN st.stake ELSE 0) + acc,
                 0, trackerStates)

(* total_stake never falls below the stakes of the registered validators, *)
(* through any sequence of register_validator (re-registrations           *)
(* included) and update_stake calls: so the subtraction                   *)
(* total_stake - state.stake in update_stake never underflows the u64.    *)
TotalStakeCoversRegistered == trackerTotal >= RegisteredStake
=============================================================================
