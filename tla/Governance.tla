----------------------------- MODULE Governance -----------------------------
(***************************************************************************)
(* The TACH governance program:                                            *)
(* src/l2-contracts/programs/tachyon-governance/src/lib.rs.                *)
(*                                                                         *)
(* One GovernanceState, one StakerInfo (seed "staker-v2") per staker, the  *)
(* vault and rewards-pool token accounts, the stakers' and the            *)
(* authority's token accounts, and the proposals.  Every instruction is    *)
(* atomic: a failed require! or a token transfer from an account that     *)
(* holds too little aborts it with no change, so each is one action whose *)
(* guard is all of its checks.  Counters nothing reads (total_stakers,    *)
(* total_rewards_distributed, compounded_rewards, total_rewards_claimed)  *)
(* and text (titles, log messages) are left out.                          *)
(***************************************************************************)
EXTENDS Naturals, Sequences, FiniteSets, FiniteSetsExt

CONSTANTS
    Stakers,            \* staker keys
    Legacy,             \* Stakers -> Nat: stake in an old 25-byte account
    LegacyTime,         \* last_stake_timestamp stored in the old account
    InitialWallet,      \* Stakers -> Nat: TACH each staker holds
    AuthorityFunds,     \* TACH in the authority's token account
    StartTime,          \* unix time when the model starts
    MaxTime,            \* bound on the clock
    SecondsPerDay,      \* the 86400 of the reward formulas
    Cooldown,           \* the 7 days of unstake
    ClaimDailyRewards,  \* the daily_rewards constant of claim_rewards
    InitialRate,        \* daily_rewards_rate set by initialize
    PoolRefillThreshold,\* pool_refill_threshold set by initialize
    EpochDuration,      \* epoch_duration set by initialize
    VotingPeriod,       \* voting_period given to initialize
    MinProposalStake,   \* min_proposal_stake given to initialize
    InitialMinStake,    \* min_stake given to initialize
    TierThresholds,     \* <<bronze, silver, gold, platinum>> stake durations
    MaxProposals,       \* bound on create_proposal
    MaxTally,           \* bound on votes_for + votes_against of a proposal
    Amounts,            \* token amounts a caller passes
    MinStakeValues,     \* values the authority may pass to update_min_stake
    RateValues,         \* values the authority may pass to update_rewards_rate
    PerfValues          \* (uptime, submissions, accurate) inputs

ASSUME Legacy \in [Stakers -> Nat] /\ InitialWallet \in [Stakers -> Nat]
ASSUME LegacyTime <= StartTime /\ StartTime <= MaxTime
ASSUME TierThresholds \in Seq(Nat) /\ Len(TierThresholds) = 4

\* The 1_000_000 of stake_percentage and the 10000 basis points.
Precision == 1000000
Bps == 10000

VARIABLES
    now,            \* Clock::get().unix_timestamp
    minStake,       \* governance_state.min_stake
    paused,         \* governance_state.rewards_paused
    rate,           \* governance_state.daily_rewards_rate
    lastEpoch,      \* governance_state.last_epoch_distribution
    totalStaked,    \* governance_state.total_staked
    vault,          \* balance of the vault token account
    pool,           \* balance of the rewards-pool token account
    wallet,         \* Stakers -> balance of each staker's token account
    authWallet,     \* balance of the authority's token account
    info,           \* Stakers -> StakerInfo, or NoInfo before init
    recovered,      \* stakers whose legacy stake recover_old_stake moved
    proposals       \* Seq of [for, against, status, ends]

vars == <<now, minStake, paused, rate, lastEpoch, totalStaked, vault, pool,
          wallet, authWallet, info, recovered, proposals>>

NoInfo == [exists |-> FALSE]

(* The StakerInfo fields some instruction reads.                          *)
NewInfo(staked, ts, claimTs) ==
    [exists |-> TRUE, staked |-> staked, lastStake |-> ts,
     lastClaim |-> claimTs, firstStake |-> ts, tier |-> 0,
     uptime |-> Bps, subs |-> 0, acc |-> 0]

Has(s) == info[s].exists

(* stake_percentage, shared by claim_rewards and                          *)
(* calculate_total_rewards_internal.                                      *)
StakePercentage(s) ==
    IF totalStaked > 0 THEN (info[s].staked * Precision) \div totalStaked ELSE 0

(* The reward of claim_rewards: a fixed daily amount over the time since  *)
(* last_stake_timestamp.                                                  *)
ClaimAmount(s) ==
    (ClaimDailyRewards * StakePercentage(s) * (now - info[s].lastStake))
        \div (SecondsPerDay * Precision)

(* The performance multiplier: the average of accuracy and uptime.        *)
PerformanceMultiplier(s) ==
    IF info[s].subs > 0
    THEN ((info[s].acc * Bps) \div info[s].subs + info[s].uptime) \div 2
    ELSE Bps

LoyaltyMultiplier(t) ==
    CASE t = 4 -> 15000 [] t = 3 -> 12000 [] t = 2 -> 11000 [] OTHER -> Bps

(* calculate_total_rewards_internal: daily_rewards_rate over the time     *)
(* since last_claim_timestamp, times the performance and loyalty          *)
(* multipliers.                                                           *)
TotalRewards(s) ==
    LET base == (rate * StakePercentage(s) * (now - info[s].lastClaim))
                    \div (SecondsPerDay * Precision)
        perf == (base * PerformanceMultiplier(s)) \div Bps
    IN  (perf * LoyaltyMultiplier(info[s].tier)) \div Bps

(* The loyalty tier of update_loyalty_tier for a stake duration d.        *)
TierFor(d) ==
    CASE d >= TierThresholds[4] -> 4 [] d >= TierThresholds[3] -> 3
      [] d >= TierThresholds[2] -> 2 [] d >= TierThresholds[1] -> 1
      [] OTHER -> 0

(* The stake the old program recorded, already in the vault and counted  *)
(* in total_staked.                                                      *)
LegacyTotal == MapThenSumSet(LAMBDA s : Legacy[s], Stakers)

Init ==
    /\ now = StartTime
    /\ minStake = InitialMinStake
    /\ paused = FALSE
    /\ rate = InitialRate
    /\ lastEpoch = StartTime
    /\ totalStaked = LegacyTotal
    /\ vault = LegacyTotal
    /\ pool = 0
    /\ wallet = InitialWallet
    /\ authWallet = AuthorityFunds
    /\ info = [s \in Stakers |-> NoInfo]
    /\ recovered = {}
    /\ proposals = <<>>

(* Time passes between instructions.                                      *)
Tick ==
    /\ now < MaxTime
    /\ now' = now + 1
    /\ UNCHANGED <<minStake, paused, rate, lastEpoch, totalStaked, vault, pool,
                   wallet, authWallet, info, recovered, proposals>>

(* init_staker: creates the StakerInfo (Anchor init fails if it exists).  *)
InitStaker(s) ==
    /\ ~Has(s)
    /\ info' = [info EXCEPT ![s] = NewInfo(0, now, now)]
    /\ UNCHANGED <<now, minStake, paused, rate, lastEpoch, totalStaked, vault,
                   pool, wallet, authWallet, recovered, proposals>>

(* stake: the new total must reach min_stake; the tokens go from the      *)
(* staker's account to the vault.                                         *)
Stake(s, amount) ==
    /\ Has(s)
    /\ info[s].staked + amount >= minStake
    /\ wallet[s] >= amount
    /\ wallet' = [wallet EXCEPT ![s] = @ - amount]
    /\ vault' = vault + amount
    /\ info' = [info EXCEPT ![s].staked = @ + amount, ![s].lastStake = now]
    /\ totalStaked' = totalStaked + amount
    /\ UNCHANGED <<now, minStake, paused, rate, lastEpoch, pool, authWallet,
                   recovered, proposals>>

(* A variant of Unstake without the staked_amount check, whose u64        *)
(* subtraction then goes below zero (mutant).                             *)
UnstakeNoBalanceCheck(s, amount) ==
    /\ Has(s)
    /\ now - info[s].lastStake >= Cooldown
    /\ vault >= amount
    /\ vault' = vault - amount
    /\ wallet' = [wallet EXCEPT ![s] = @ + amount]
    /\ info' = [info EXCEPT ![s].staked = @ - amount]
    /\ totalStaked' = totalStaked - amount
    /\ UNCHANGED <<now, minStake, paused, rate, lastEpoch, pool, authWallet,
                   recovered, proposals>>

(* unstake: enough stake, the 7-day cooldown since last_stake_timestamp,  *)
(* and a remainder of 0 or at least min_stake; the tokens go from the     *)
(* vault back to the staker.                                              *)
Unstake(s, amount) ==
    /\ Has(s)
    /\ info[s].staked >= amount
    /\ now - info[s].lastStake >= Cooldown
    /\ LET remaining == info[s].staked - amount
       IN  remaining = 0 \/ remaining >= minStake
    /\ vault >= amount
    /\ vault' = vault - amount
    /\ wallet' = [wallet EXCEPT ![s] = @ + amount]
    /\ info' = [info EXCEPT ![s].staked = @ - amount]
    /\ totalStaked' = totalStaked - amount
    /\ UNCHANGED <<now, minStake, paused, rate, lastEpoch, pool, authWallet,
                   recovered, proposals>>

(* create_proposal: the proposer needs min_proposal_stake; the proposal   *)
(* gets id total_proposals and closes voting_period from now.             *)
CreateProposal(s) ==
    /\ Has(s)
    /\ info[s].staked >= MinProposalStake
    /\ Len(proposals) < MaxProposals
    /\ proposals' = Append(proposals, [for |-> 0, against |-> 0,
                                       status |-> "Active",
                                       ends |-> now + VotingPeriod])
    /\ UNCHANGED <<now, minStake, paused, rate, lastEpoch, totalStaked, vault,
                   pool, wallet, authWallet, info, recovered>>

(* The model's bound on repeated votes: nothing in vote limits them.      *)
WithinTally(p, power) == p.for + p.against + power <= MaxTally

(* vote: an active proposal before voting_ends_at; the voter's current    *)
(* staked_amount is added to one side.  Nothing records who voted.        *)
CastVote(s, i, voteFor) ==
    /\ Has(s)
    /\ proposals[i].status = "Active"
    /\ now < proposals[i].ends
    /\ WithinTally(proposals[i], info[s].staked)
    /\ proposals' = [proposals EXCEPT
                        ![i] = IF voteFor
                               THEN [@ EXCEPT !.for = @ + info[s].staked]
                               ELSE [@ EXCEPT !.against = @ + info[s].staked]]
    /\ UNCHANGED <<now, minStake, paused, rate, lastEpoch, totalStaked, vault,
                   pool, wallet, authWallet, info, recovered>>

(* execute_proposal (authority): an active proposal once voting has       *)
(* ended is Executed on a simple majority of a non-zero tally, else       *)
(* Rejected.                                                              *)
ExecuteProposal(i) ==
    /\ proposals[i].status = "Active"
    /\ now >= proposals[i].ends
    /\ LET p == proposals[i]
           passed == p.for > p.against /\ p.for + p.against > 0
       IN  proposals' = [proposals EXCEPT ![i].status =
                            IF passed THEN "Executed" ELSE "Rejected"]
    /\ UNCHANGED <<now, minStake, paused, rate, lastEpoch, totalStaked, vault,
                   pool, wallet, authWallet, info, recovered>>

(* claim_rewards: the reward must be positive and the pool must hold it;  *)
(* it goes to the staker's account and last_stake_timestamp restarts.     *)
(* Neither rewards_paused nor last_claim_timestamp is consulted.          *)
ClaimRewards(s) ==
    /\ Has(s)
    /\ LET rewards == ClaimAmount(s)
       IN  /\ rewards > 0
           /\ pool >= rewards
           /\ pool' = pool - rewards
           /\ wallet' = [wallet EXCEPT ![s] = @ + rewards]
    /\ info' = [info EXCEPT ![s].lastStake = now]
    /\ UNCHANGED <<now, minStake, paused, rate, lastEpoch, totalStaked, vault,
                   authWallet, recovered, proposals>>

(* claim_and_compound: refused while paused; the reward of                *)
(* calculate_total_rewards_internal must be positive and in the pool.     *)
(* The transfer goes to the staker's token account, yet the reward is     *)
(* also added to staked_amount and total_staked.                          *)
ClaimAndCompound(s) ==
    /\ Has(s) /\ ~paused
    /\ LET rewards == TotalRewards(s)
       IN  /\ rewards > 0 /\ pool >= rewards
           /\ pool' = pool - rewards
           /\ wallet' = [wallet EXCEPT ![s] = @ + rewards]
           /\ info' = [info EXCEPT ![s].staked = @ + rewards,
                                   ![s].lastClaim = now]
           /\ totalStaked' = totalStaked + rewards
    /\ UNCHANGED <<now, minStake, paused, rate, lastEpoch, vault, authWallet,
                   recovered, proposals>>

(* fund_rewards_pool (authority) and auto_refill_rewards_pool (only when  *)
(* the pool is below pool_refill_threshold): tokens from the authority's  *)
(* account into the pool.                                                 *)
FundRewardsPool(amount, refill) ==
    /\ refill => pool < PoolRefillThreshold
    /\ authWallet >= amount
    /\ authWallet' = authWallet - amount
    /\ pool' = pool + amount
    /\ UNCHANGED <<now, minStake, paused, rate, lastEpoch, totalStaked, vault,
                   wallet, info, recovered, proposals>>

(* The authority's parameter instructions: update_min_stake,              *)
(* set_rewards_paused and update_rewards_rate.                            *)
UpdateMinStake(v) ==
    /\ minStake' = v
    /\ UNCHANGED <<now, paused, rate, lastEpoch, totalStaked, vault, pool,
                   wallet, authWallet, info, recovered, proposals>>

SetRewardsPaused(b) ==
    /\ paused' = b
    /\ UNCHANGED <<now, minStake, rate, lastEpoch, totalStaked, vault, pool,
                   wallet, authWallet, info, recovered, proposals>>

UpdateRewardsRate(r) ==
    /\ rate' = r
    /\ UNCHANGED <<now, minStake, paused, lastEpoch, totalStaked, vault, pool,
                   wallet, authWallet, info, recovered, proposals>>

(* update_performance (authority): overwrite the three metrics.           *)
UpdatePerformance(s, p) ==
    /\ Has(s)
    /\ info' = [info EXCEPT ![s].uptime = p[1], ![s].subs = p[2],
                            ![s].acc = p[3]]
    /\ UNCHANGED <<now, minStake, paused, rate, lastEpoch, totalStaked, vault,
                   pool, wallet, authWallet, recovered, proposals>>

(* distribute_epoch_rewards: once per epoch while not paused; it only     *)
(* moves last_epoch_distribution.                                         *)
DistributeEpochRewards ==
    /\ ~paused
    /\ now >= lastEpoch + EpochDuration
    /\ lastEpoch' = now
    /\ UNCHANGED <<now, minStake, paused, rate, totalStaked, vault, pool,
                   wallet, authWallet, info, recovered, proposals>>

(* update_loyalty_tier: the tier for the time since first_stake_timestamp *)
(* replaces the stored one only if it is higher.                          *)
UpdateLoyaltyTier(s) ==
    /\ Has(s)
    /\ LET t == TierFor(now - info[s].firstStake)
       IN  info' = [info EXCEPT ![s].tier = IF t > @ THEN t ELSE @]
    /\ UNCHANGED <<now, minStake, paused, rate, lastEpoch, totalStaked, vault,
                   pool, wallet, authWallet, recovered, proposals>>

(* A variant of RecoverOldStake that adds the old stake to total_staked   *)
(* a second time (mutant).                                                *)
RecoverOldStakeRecount(s) ==
    /\ Legacy[s] > 0
    /\ ~Has(s)
    /\ info' = [info EXCEPT ![s] = NewInfo(Legacy[s], LegacyTime, LegacyTime)]
    /\ recovered' = recovered \cup {s}
    /\ totalStaked' = totalStaked + Legacy[s]
    /\ UNCHANGED <<now, minStake, paused, rate, lastEpoch, vault,
                   pool, wallet, authWallet, proposals>>

(* recover_old_stake: for an old 25-byte account, create the staker-v2    *)
(* account (Anchor init) with the old staked_amount and timestamp.        *)
(* total_staked and the vault already hold the old stake.                 *)
RecoverOldStake(s) ==
    /\ Legacy[s] > 0
    /\ ~Has(s)
    /\ info' = [info EXCEPT ![s] = NewInfo(Legacy[s], LegacyTime, LegacyTime)]
    /\ recovered' = recovered \cup {s}
    /\ UNCHANGED <<now, minStake, paused, rate, lastEpoch, totalStaked, vault,
                   pool, wallet, authWallet, proposals>>

(* cleanup_staker_account (the staker itself): last_claim_timestamp goes  *)
(* to 0, first_stake_timestamp to last_stake_timestamp, and the tier and  *)
(* metrics back to their defaults.                                        *)
CleanupStakerAccount(s) ==
    /\ Has(s)
    /\ info' = [info EXCEPT ![s].lastClaim = 0,
                            ![s].firstStake = info[s].lastStake,
                            ![s].tier = 0, ![s].uptime = Bps,
                            ![s].subs = 0, ![s].acc = 0]
    /\ UNCHANGED <<now, minStake, paused, rate, lastEpoch, totalStaked, vault,
                   pool, wallet, authWallet, recovered, proposals>>

Next ==
    \/ Tick
    \/ DistributeEpochRewards
    \/ \E v \in MinStakeValues : UpdateMinStake(v)
    \/ \E b \in BOOLEAN : SetRewardsPaused(b)
    \/ \E r \in RateValues : UpdateRewardsRate(r)
    \/ \E a \in Amounts, refill \in BOOLEAN : FundRewardsPool(a, refill)
    \/ \E i \in 1..Len(proposals) : ExecuteProposal(i)
    \/ \E s \in Stakers :
          \/ InitStaker(s) \/ RecoverOldStake(s) \/ CleanupStakerAccount(s)
          \/ ClaimRewards(s) \/ ClaimAndCompound(s) \/ UpdateLoyaltyTier(s)
          \/ CreateProposal(s)
          \/ \E a \in Amounts : Stake(s, a) \/ Unstake(s, a)
          \/ \E p \in PerfValues : UpdatePerformance(s, p)
          \/ \E i \in 1..Len(proposals), f \in BOOLEAN : CastVote(s, i, f)

Spec == Init /\ [][Next]_vars

-----------------------------------------------------------------------------

Info == [exists : {TRUE}, staked : Nat, lastStake : Nat, lastClaim : Nat,
         firstStake : Nat, tier : 0..4, uptime : Nat, subs : Nat, acc : Nat]

TypeOK ==
    /\ now \in StartTime..MaxTime
    /\ {minStake, rate, lastEpoch, totalStaked, vault, pool, authWallet} \subseteq Nat
    /\ paused \in BOOLEAN
    /\ wallet \in [Stakers -> Nat]
    /\ info \in [Stakers -> Info \cup {NoInfo}]
    /\ recovered \subseteq Stakers
    /\ proposals \in Seq([for : Nat, against : Nat,
                          status : {"Active", "Executed", "Rejected"},
                          ends : Nat])

(* The stake a staker account records, 0 before the account exists.      *)
StakeOf(s) == IF Has(s) THEN info[s].staked ELSE 0

(* total_staked is the sum of every staked_amount plus the old-program    *)
(* stake not yet moved by recover_old_stake: stake, unstake,              *)
(* claim_and_compound and recovery each keep the global counter and the   *)
(* per-staker amounts in step, through any interleaving of stakers.       *)
TotalStakedIsSum ==
    totalStaked =
        MapThenSumSet(StakeOf, Stakers)
      + MapThenSumSet(LAMBDA s : IF s \in recovered THEN 0 ELSE Legacy[s],
                      Stakers)

(* The vault holds at least total_staked, so every staker can unstake     *)
(* what the program records as staked.  unstake pays from the vault;      *)
(* claim_and_compound credits stake it pays out of the rewards pool to    *)
(* the staker's own account.                                              *)
VaultCoversStake == vault >= totalStaked

(* A proposal's tally never exceeds the stake its voters hold: vote adds *)
(* the voter's staked_amount to one side, and a staker's power should    *)
(* count once per proposal.  The Vote accounts hold no record of who has *)
(* voted, so the same signer can call vote again.                         *)
TallyWithinStake ==
    \A i \in 1..Len(proposals) :
        proposals[i].for + proposals[i].against <= MapThenSumSet(StakeOf, Stakers)
=============================================================================
