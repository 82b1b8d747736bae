------------------------- MODULE SequencerRegistry -------------------------
(***************************************************************************)
(* The sequencer registry program:                                         *)
(* src/l2-contracts/programs/tachyon-sequencer/src/lib.rs.                 *)
(*                                                                         *)
(* One SequencerState (seed "sequencer") and one SequencerInfo per         *)
(* registered pubkey (seed "sequencer-info", pubkey).  Every instruction  *)
(* is atomic: a failed require! or an `init` of an account that exists    *)
(* aborts it with no change, so each action's guard is all its checks.    *)
(* The signer of an instruction is any key; the `authority` argument of   *)
(* initialize and the pubkeys passed are any key.  Timestamps, bumps and  *)
(* log text are left out.                                                  *)
(***************************************************************************)
EXTENDS Naturals

CONSTANTS
    Keys,          \* signers and the pubkeys they pass
    StakeAmounts,  \* stake_amount and slash_amount arguments
    MinStakes,     \* min_stake arguments of initialize
    MaxBatches     \* bound on total_batches_submitted

VARIABLES
    seqState,  \* SequencerState, or [exists |-> FALSE] before initialize
    seqInfo    \* Keys -> SequencerInfo, or [exists |-> FALSE]

seqVars == <<seqState, seqInfo>>

NoAccount == [exists |-> FALSE]

SeqInit ==
    /\ seqState = NoAccount
    /\ seqInfo = [k \in Keys |-> NoAccount]

(* initialize: `init` of the "sequencer" PDA; whoever pays first sets the  *)
(* authority.                                                              *)
InitializeSequencer(authority, minStake) ==
    /\ ~seqState.exists
    /\ seqState' = [exists |-> TRUE, authority |-> authority,
                    min_stake |-> minStake, active_sequencers |-> 0,
                    total_batches_submitted |-> 0, is_permissioned |-> TRUE]
    /\ UNCHANGED seqInfo

(* transfer_authority: has_one = authority.                               *)
TransferSequencerAuthority(signer, new) ==
    /\ seqState.exists /\ signer = seqState.authority
    /\ seqState' = [seqState EXCEPT !.authority = new]
    /\ UNCHANGED seqInfo

(* register_sequencer: authority only, stake at least min_stake, and the  *)
(* `init` of the pubkey's SequencerInfo.                                   *)
RegisterSequencer(signer, pubkey, stake) ==
    /\ seqState.exists /\ signer = seqState.authority
    /\ stake >= seqState.min_stake
    /\ ~seqInfo[pubkey].exists
    /\ seqInfo' = [seqInfo EXCEPT ![pubkey] =
                     [exists |-> TRUE, pubkey |-> pubkey, stake_amount |-> stake,
                      batches_submitted |-> 0, is_active |-> TRUE]]
    /\ seqState' = [seqState EXCEPT !.active_sequencers = @ + 1]

(* submit_batch: the signer's SequencerInfo must be active.  Nothing reads *)
(* is_permissioned.                                                        *)
SubmitBatch(signer) ==
    /\ seqState.exists /\ seqInfo[signer].exists
    /\ seqInfo[signer].is_active
    /\ seqState.total_batches_submitted < MaxBatches
    /\ seqInfo' = [seqInfo EXCEPT ![signer].batches_submitted = @ + 1]
    /\ seqState' = [seqState EXCEPT !.total_batches_submitted = @ + 1]

(* A variant of SlashSequencer that leaves is_active alone (mutant).     *)
SlashSequencerKeepActive(signer, pubkey, amount) ==
    /\ seqState.exists /\ signer = seqState.authority
    /\ seqInfo[pubkey].exists
    /\ seqInfo[pubkey].stake_amount >= amount
    /\ seqInfo' = [seqInfo EXCEPT ![pubkey].stake_amount = @ - amount]
    /\ UNCHANGED seqState

(* slash_sequencer: authority only; the stake drops by the amount and a   *)
(* sequencer left below min_stake is deactivated.  active_sequencers is   *)
(* not decremented.                                                        *)
SlashSequencer(signer, pubkey, amount) ==
    /\ seqState.exists /\ signer = seqState.authority
    /\ seqInfo[pubkey].exists
    /\ seqInfo[pubkey].stake_amount >= amount
    /\ LET left == seqInfo[pubkey].stake_amount - amount
       IN  seqInfo' = [seqInfo EXCEPT ![pubkey].stake_amount = left,
                                      ![pubkey].is_active =
                                          IF left < seqState.min_stake
                                          THEN FALSE ELSE @]
    /\ UNCHANGED seqState

(* set_permissioned: authority only.                                       *)
SetPermissioned(signer, b) ==
    /\ seqState.exists /\ signer = seqState.authority
    /\ seqState' = [seqState EXCEPT !.is_permissioned = b]
    /\ UNCHANGED seqInfo

SeqNext ==
    \/ \E k \in Keys, m \in MinStakes : InitializeSequencer(k, m)
    \/ \E s, k \in Keys : TransferSequencerAuthority(s, k)
    \/ \E s, k \in Keys, a \in StakeAmounts : RegisterSequencer(s, k, a)
    \/ \E s \in Keys : SubmitBatch(s)
    \/ \E s, k \in Keys, a \in StakeAmounts : SlashSequencer(s, k, a)
    \/ \E s \in Keys, b \in BOOLEAN : SetPermissioned(s, b)

-----------------------------------------------------------------------------
(* A sequencer submit_batch accepts holds at least min_stake: register    *)
(* refuses less, and slash_sequencer deactivates a sequencer it leaves    *)
(* below min_stake, whatever sequence of registrations, batches, slashes  *)
(* and authority transfers came before.                                    *)
ActiveSequencersStaked ==
    \A k \in Keys :
        seqInfo[k].exists /\ seqInfo[k].is_active =>
            seqInfo[k].stake_amount >= seqState.min_stake
=============================================================================
