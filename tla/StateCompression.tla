-------------------------- MODULE StateCompression --------------------------
(***************************************************************************)
(* The root-storage instructions of the state-compression program         *)
(* (src/l2-contracts/programs/tachyon-state-compression/src/lib.rs)       *)
(* other than submit_root_with_consensus, which OraclePipeline models,    *)
(* composed with the sequencer registry whose SequencerInfo accounts      *)
(* submit_root accepts as a second way to authorise a root.               *)
(*                                                                         *)
(* submit_root declares that account as Option<Account<SequencerInfo>>    *)
(* with seeds::program = the sequencer program.  Anchor loads an          *)
(* Account<T> only if T's owner, the declaring program, owns it; the      *)
(* registry's accounts are owned by the sequencer program, so passing one *)
(* makes the instruction fail, and without one only the authority may    *)
(* submit.  The account's layout also differs from the registry's: where  *)
(* this program reads is_active, the registry stores the low byte of      *)
(* batches_submitted.  submit_root_with_consensus checks no signer at all *)
(* (OraclePipeline, AcceptedRootHasQuorum).                               *)
(***************************************************************************)
EXTENDS SequencerRegistry

CONSTANTS
    Roots   \* roots a submitter passes

VARIABLES
    l2State   \* L2State, or [exists |-> FALSE] before initialize

rootVars == <<l2State>>

scVars == <<seqVars, rootVars>>

RootInit == l2State = NoAccount

(* initialize: `init` of the "l2-state" PDA by whoever pays first.        *)
InitializeL2(authority) ==
    /\ ~l2State.exists
    /\ l2State' = [exists |-> TRUE, authority |-> authority, root |-> "zero",
                   batch_number |-> 0]
    /\ UNCHANGED seqVars

(* transfer_authority: has_one = authority.                               *)
TransferL2Authority(signer, new) ==
    /\ l2State.exists /\ signer = l2State.authority
    /\ l2State' = [l2State EXCEPT !.authority = new]
    /\ UNCHANGED seqVars

(* A failed account load: the instruction aborts.                         *)
LoadError == [loaded |-> FALSE]

(* Account<SequencerInfo> of PDA ("sequencer-info", k) under the          *)
(* sequencer program: missing, or owned by that program, so not loadable. *)
LoadSequencerInfo(k) == LoadError

(* submit_root, signed by `signer`, with or without the sequencer-info    *)
(* account: the signer must be the authority or pass a loadable, active   *)
(* SequencerInfo of its own key.                                           *)
SubmitRoot(signer, withInfo, root) ==
    /\ l2State.exists
    /\ l2State.batch_number < MaxBatches
    /\ IF withInfo
       THEN LET si == LoadSequencerInfo(signer)
            IN  si.loaded /\ si.is_active /\ si.sequencer = signer
       ELSE signer = l2State.authority
    /\ l2State' = [l2State EXCEPT !.root = root, !.batch_number = @ + 1]
    /\ UNCHANGED seqVars

RootNext ==
    \/ \E k \in Keys : InitializeL2(k)
    \/ \E s, k \in Keys : TransferL2Authority(s, k)
    \/ \E s \in Keys, w \in BOOLEAN, r \in Roots : SubmitRoot(s, w, r)

ScNext == (SeqNext /\ UNCHANGED rootVars) \/ RootNext

=============================================================================
