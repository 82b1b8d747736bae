-------------------------------- MODULE L2Core --------------------------------
(***************************************************************************)
(* The L2 core program (src/l2-contracts/programs/tachyon-l2-core/src/     *)
(* lib.rs): one L2CoreState account (seed "l2-core").  Every instruction   *)
(* is atomic; a failed require! or an `init` of the existing account       *)
(* aborts it.  The three program ids initialize records, the feed count   *)
(* and the timestamp are left out: nothing reads them.                     *)
(***************************************************************************)
EXTENDS Naturals

CONSTANTS
    CoreSigners,   \* keys that sign instructions or are passed as authority
    BatchNumbers,  \* batch_number arguments of update_batch
    MaxPublishers  \* bound on total_publishers

VARIABLE core   \* L2CoreState, or [exists |-> FALSE] before initialize

NoCore == [exists |-> FALSE]

CoreInit == core = NoCore

(* initialize: `init` of the PDA by whoever pays first, with any          *)
(* authority.                                                              *)
InitializeCore(authority) ==
    /\ ~core.exists
    /\ core' = [exists |-> TRUE, authority |-> authority, total_batches |-> 0,
                total_publishers |-> 0, is_paused |-> FALSE]

(* The require! every other instruction starts with.                      *)
CoreAuthorized(signer) == core.exists /\ signer = core.authority

(* update_batch: authority only and not paused; total_batches becomes the *)
(* caller's batch_number, whatever it was.                                 *)
UpdateBatch(signer, batchNumber) ==
    /\ CoreAuthorized(signer) /\ ~core.is_paused
    /\ core' = [core EXCEPT !.total_batches = batchNumber]

(* register_publisher: authority only; counts, records nothing.           *)
RegisterPublisher(signer) ==
    /\ CoreAuthorized(signer) /\ core.total_publishers < MaxPublishers
    /\ core' = [core EXCEPT !.total_publishers = @ + 1]

(* pause and resume: authority only.                                       *)
Pause(signer) ==
    /\ CoreAuthorized(signer)
    /\ core' = [core EXCEPT !.is_paused = TRUE]

Resume(signer) ==
    /\ CoreAuthorized(signer)
    /\ core' = [core EXCEPT !.is_paused = FALSE]

CoreNext ==
    \/ \E k \in CoreSigners : InitializeCore(k)
    \/ \E k \in CoreSigners, b \in BatchNumbers : UpdateBatch(k, b)
    \/ \E k \in CoreSigners : RegisterPublisher(k)
    \/ \E k \in CoreSigners : Pause(k) \/ Resume(k)
=============================================================================
