--------------------------------- MODULE Poh ---------------------------------
(***************************************************************************)
(* The node's proof-of-history recorder and service                       *)
(* (src/tachyon-node/src/poh/oracle_poh.rs).                              *)
(*                                                                         *)
(* The state of PohRecorder is current_hash, num_hashes and              *)
(* hashes_per_tick; PohService adds running.  The hash chain itself is   *)
(* left out: what the properties tell apart is how many hashes each step  *)
(* adds, so current_hash is abstracted to num_hashes; ticks counts the    *)
(* tick entries.  Each method takes &mut self, so calls never interleave. *)
(***************************************************************************)
EXTENDS Naturals

CONSTANTS
    HashesPerTick,  \* hashes_per_tick passed to PohService::new
    HashCounts,     \* values of n passed to hash_n
    MaxHashes,      \* bound on num_hashes
    MaxTicks        \* bound on the number of ticks

VARIABLES
    numHashes,  \* recorder.num_hashes
    running,    \* PohService.running
    ticks       \* number of tick entries returned

pohVars == <<numHashes, running, ticks>>

PohInit ==
    /\ numHashes = 0
    /\ running = FALSE
    /\ ticks = 0

(* hash: one SHA-256 of the current hash.                                 *)
Hash ==
    /\ numHashes + 1 <= MaxHashes
    /\ numHashes' = numHashes + 1
    /\ UNCHANGED <<running, ticks>>

(* hash_n: n calls of hash.                                               *)
HashN(n) ==
    /\ numHashes + n <= MaxHashes
    /\ numHashes' = numHashes + n
    /\ UNCHANGED <<running, ticks>>

(* record / record_price: the price data is hashed into the chain, one    *)
(* hash.  Nothing checks running.                                         *)
Record ==
    /\ numHashes + 1 <= MaxHashes
    /\ numHashes' = numHashes + 1
    /\ UNCHANGED <<running, ticks>>

(* tick / generate_tick: hash_n(hashes_per_tick - num_hashes %            *)
(* hashes_per_tick), and return an entry with the new num_hashes.         *)
Tick ==
    LET until == HashesPerTick - (numHashes % HashesPerTick)
    IN  /\ numHashes + until <= MaxHashes /\ ticks < MaxTicks
        /\ numHashes' = numHashes + until
        /\ ticks' = ticks + 1
        /\ UNCHANGED running

Start == running' = TRUE /\ UNCHANGED <<numHashes, ticks>>

Stop == running' = FALSE /\ UNCHANGED <<numHashes, ticks>>

PohNext ==
    \/ Hash
    \/ \E n \in HashCounts : HashN(n)
    \/ Record
    \/ Tick
    \/ Start
    \/ Stop

=============================================================================
