--------------------------- MODULE OraclePipeline ---------------------------
(***************************************************************************)
(* The batch path of a set of oracle nodes and the settlement contract:   *)
(*   aggregator tick -> batch channel -> consensus -> consensus channel   *)
(*   -> sequencer -> submit_root_with_consensus on chain,                 *)
(* with the shutdown broadcast of start_node (src/tachyon-node/src/       *)
(* main.rs).  Each stage is one tokio task looping on a select! over its  *)
(* input channel and the shutdown receiver; a send into a bounded channel *)
(* is awaited inside the select arm, so a stage blocked on a full channel *)
(* does not see shutdown until the send completes or fails.               *)
(*                                                                         *)
(* The price flow into the aggregator and the Merkle construction are     *)
(* abstracted: a tick that emits a batch picks its root from Roots.       *)
(***************************************************************************)
EXTENDS Naturals, Sequences, FiniteSets, StakeVoting

CONSTANTS
    Nodes,          \* the oracle nodes
    Roots,          \* Merkle roots a batch can carry
    StakeAccount,   \* staked_amount of each node's "staker-v2" PDA, or NoAccount
    NoAccount,
    BadProgramId,   \* nodes whose config.program_id does not parse
    FallbackStake,  \* the 100_000_000_000_000 of the query_validators fallback
    ChanCap,        \* capacity of the batch and consensus channels (100)
    MaxBatches,     \* bound: batches each node's aggregator emits
    MaxSlot         \* bound: the settlement chain's slot

ASSUME StakeAccount \in [Nodes -> Nat \cup {NoAccount}]
ASSUME MaxBatches \in [Nodes -> Nat]
ASSUME BadProgramId \subseteq Nodes /\ FallbackStake \in Nat \ {0}
ASSUME NoRoot \notin Roots

VARIABLES
    slot,        \* the chain's current slot (rpc get_slot)
    shutdown,    \* shutdown_tx.send(()) has happened
    agg,         \* aggregator task: "idle" | "sending" | "stopped"
    aggOut,      \* the batch the aggregator is awaiting batch_tx.send on
    batchQ,      \* batch channel contents
    cons,        \* consensus task: "idle" | "sending" | "stopped"
    consOut,     \* the result consensus is awaiting consensus_tx.send on
    resultQ,     \* consensus channel contents
    seq,         \* sequencer task: "idle" | "stopped"
    made,        \* batches each aggregator has emitted (bounded)
    chain,       \* L2State: [current_root, batch_number, last_update]
    accepted,    \* every accepted submission, in order; history only
    leaders,     \* every <<node, slot>> a node judged itself leader of
    cast         \* every <<node, root>> a node put its own vote on

vars == <<slot, shutdown, agg, aggOut, batchQ, cons, consOut, resultQ, seq,
          made, chain, accepted, leaders, cast>>

Batch  == [root : Roots, ts : 0..MaxSlot]
Result == [batch : Batch, consensus_root : Roots \cup {NoRoot},
           total_stake : Nat, is_leader : BOOLEAN, slot : 0..MaxSlot]
NoItem == [none |-> TRUE]

(* query_validators and its caller's fallback: an unparsable program id   *)
(* is the Err path, answered with the node alone at FallbackStake; a      *)
(* failed or missing get_account gives no validators and total 0; a       *)
(* staker account gives the node alone with its staked_amount.            *)
QueryValidators(n, accountOk) ==
    IF n \in BadProgramId
    THEN <<<<[pubkey |-> n, stake |-> FallbackStake]>>, FallbackStake>>
    ELSE IF ~accountOk \/ StakeAccount[n] = NoAccount THEN <<<<>>, 0>>
    ELSE <<<<[pubkey |-> n, stake |-> StakeAccount[n]]>>, StakeAccount[n]>>

(* A variant of SubmitBuilds that does not depend on the governance      *)
(* program id (mutant).                                                   *)
SubmitBuildsAlways(n) == TRUE

(* submit_to_chain gets past building its instruction: it parses         *)
(* config.program_id for the governance PDA (sequencer/mod.rs 82) and     *)
(* returns Err before sending when that fails.                            *)
SubmitBuilds(n) == n \notin BadProgramId

(* A variant of ChanSend that enqueues past the capacity (mutant).        *)
ChanSendUnbounded(q, item, receiverGone) ==
    IF receiverGone THEN <<q, TRUE>> ELSE <<Append(q, item), TRUE>>

(* A variant of ChanSend that waits on a closed channel as if it were     *)
(* full (mutant).                                                         *)
ChanSendWaitClosed(q, item, receiverGone) ==
    IF Len(q) < ChanCap THEN <<Append(q, item), TRUE>> ELSE <<q, FALSE>>

(* mpsc::Sender::send(item).await as one step: Err (item dropped) once    *)
(* the receiver task has ended, else enqueue when there is room; the      *)
(* second component says whether the await has completed.                 *)
ChanSend(q, item, receiverGone) ==
    IF receiverGone THEN <<q, TRUE>>
    ELSE IF Len(q) < ChanCap THEN <<Append(q, item), TRUE>>
    ELSE <<q, FALSE>>

Init ==
    /\ slot = 0
    /\ shutdown = FALSE
    /\ agg = [n \in Nodes |-> "idle"]
    /\ aggOut = [n \in Nodes |-> NoItem]
    /\ batchQ = [n \in Nodes |-> <<>>]
    /\ cons = [n \in Nodes |-> "idle"]
    /\ consOut = [n \in Nodes |-> NoItem]
    /\ resultQ = [n \in Nodes |-> <<>>]
    /\ seq = [n \in Nodes |-> "idle"]
    /\ made = [n \in Nodes |-> 0]
    /\ chain = [current_root |-> NoRoot, batch_number |-> 0, last_update |-> 0]
    /\ accepted = <<>>
    /\ leaders = {}
    /\ cast = {}

(* The settlement chain advances its slot.                                *)
AdvanceSlot ==
    /\ slot < MaxSlot
    /\ slot' = slot + 1
    /\ UNCHANGED <<shutdown, agg, aggOut, batchQ, cons, consOut, resultQ, seq,
                   made, chain, accepted, leaders, cast>>

(* ctrl_c in start_node: shutdown_tx.send(()).                            *)
SignalShutdown ==
    /\ ~shutdown
    /\ shutdown' = TRUE
    /\ UNCHANGED <<slot, agg, aggOut, batchQ, cons, consOut, resultQ, seq,
                   made, chain, accepted, leaders, cast>>

(* start_aggregator, ticker arm, when the cache yields a non-empty batch: *)
(* build_merkle_batch stamps it with the current time, and the task then  *)
(* awaits batch_tx.send.  A tick with nothing to send changes nothing.    *)
AggregatorTick(n) ==
    /\ agg[n] = "idle" /\ made[n] < MaxBatches[n]
    /\ \E r \in Roots : aggOut' = [aggOut EXCEPT ![n] = [root |-> r, ts |-> slot]]
    /\ agg' = [agg EXCEPT ![n] = "sending"]
    /\ made' = [made EXCEPT ![n] = @ + 1]
    /\ UNCHANGED <<slot, shutdown, batchQ, cons, consOut, resultQ, seq, chain,
                   accepted, leaders, cast>>

(* The awaited batch_tx.send completes (sent or Err), then the cache is   *)
(* cleared and the loop resumes.                                          *)
AggregatorSend(n) ==
    /\ agg[n] = "sending"
    /\ LET res == ChanSend(batchQ[n], aggOut[n], cons[n] = "stopped") IN
         /\ res[2]
         /\ batchQ' = [batchQ EXCEPT ![n] = res[1]]
    /\ agg' = [agg EXCEPT ![n] = "idle"]
    /\ aggOut' = [aggOut EXCEPT ![n] = NoItem]
    /\ UNCHANGED <<slot, shutdown, cons, consOut, resultQ, seq, made, chain,
                   accepted, leaders, cast>>

(* start_consensus, batch arm (mod.rs 50-126): get_slot (0 on error),     *)
(* query_validators with its fallback, the node's own vote with its       *)
(* stake, tally_votes, select_leader, then await consensus_tx.send.       *)
ConsensusHandle(n) ==
    /\ cons[n] = "idle" /\ batchQ[n] # <<>>
    /\ LET b == Head(batchQ[n]) IN
       \E s \in {slot, 0}, accountOk \in BOOLEAN :
         LET q        == QueryValidators(n, accountOk)
             vals     == q[1]
             total    == q[2]
             ourStake == IF vals # <<>> /\ vals[1].pubkey = n THEN vals[1].stake ELSE 0
             votes    == {[voter |-> n, root |-> b.root, stake |-> ourStake]}
             isLeader == SelectLeader(vals, s) = n
         IN \E t \in TallyVotes(votes, total) :
              /\ consOut' = [consOut EXCEPT ![n] =
                    [batch |-> b, consensus_root |-> t[1], total_stake |-> total,
                     is_leader |-> isLeader, slot |-> s]]
              /\ leaders' = IF isLeader THEN leaders \cup {<<n, s>>} ELSE leaders
              /\ cast' = cast \cup {<<n, b.root>>}
    /\ batchQ' = [batchQ EXCEPT ![n] = Tail(@)]
    /\ cons' = [cons EXCEPT ![n] = "sending"]
    /\ UNCHANGED <<slot, shutdown, agg, aggOut, resultQ, seq, made, chain, accepted>>

ConsensusSend(n) ==
    /\ cons[n] = "sending"
    /\ LET res == ChanSend(resultQ[n], consOut[n], seq[n] = "stopped") IN
         /\ res[2]
         /\ resultQ' = [resultQ EXCEPT ![n] = res[1]]
    /\ cons' = [cons EXCEPT ![n] = "idle"]
    /\ consOut' = [consOut EXCEPT ![n] = NoItem]
    /\ UNCHANGED <<slot, shutdown, agg, aggOut, batchQ, seq, made, chain,
                   accepted, leaders, cast>>

(* submit_root_with_consensus (lib.rs 90-151): the votes are trusted, the *)
(* caller's total_stake sets the threshold, and the state is overwritten  *)
(* with no check against the previous root or timestamp.                  *)
SubmitRootWithConsensus(n, root, ts, total, votes) ==
    /\ ChainAccepts(root, total, votes)
    /\ chain' = [current_root |-> root, batch_number |-> chain.batch_number + 1,
                 last_update |-> ts]
    /\ accepted' = Append(accepted, [node |-> n, root |-> root, ts |-> ts,
                                     total_stake |-> total])

(* start_sequencer, result arm (sequencer/mod.rs 33-48): drop unless      *)
(* is_leader; otherwise submit_to_chain, whose single vote claims the     *)
(* whole total_stake.  It fails before sending when the governance        *)
(* program id does not parse (line 82); the transaction may fail or be    *)
(* rejected; an error is logged and the batch is never retried.           *)
SequencerHandle(n) ==
    /\ seq[n] = "idle" /\ resultQ[n] # <<>>
    /\ LET r == Head(resultQ[n]) IN
         \/ /\ ~r.is_leader
            /\ UNCHANGED <<chain, accepted>>
         \/ /\ r.is_leader /\ ~SubmitBuilds(n)
            /\ UNCHANGED <<chain, accepted>>
         \/ /\ r.is_leader /\ SubmitBuilds(n)
            /\ UNCHANGED <<chain, accepted>>
         \/ /\ r.is_leader /\ SubmitBuilds(n)
            /\ SubmitRootWithConsensus(n, r.batch.root, r.batch.ts, r.total_stake,
                   <<[root |-> r.batch.root, stake |-> r.total_stake]>>)
    /\ resultQ' = [resultQ EXCEPT ![n] = Tail(@)]
    /\ UNCHANGED <<slot, shutdown, agg, aggOut, batchQ, cons, consOut, seq, made,
                   leaders, cast>>

(* The shutdown arm of a stage's select!: taken only while the task is    *)
(* back in its select, and then the task ends, dropping its receiver.     *)
AggregatorStop(n) ==
    /\ shutdown /\ agg[n] = "idle"
    /\ agg' = [agg EXCEPT ![n] = "stopped"]
    /\ UNCHANGED <<slot, shutdown, aggOut, batchQ, cons, consOut, resultQ, seq,
                   made, chain, accepted, leaders, cast>>

ConsensusStop(n) ==
    /\ shutdown /\ cons[n] = "idle"
    /\ cons' = [cons EXCEPT ![n] = "stopped"]
    /\ UNCHANGED <<slot, shutdown, agg, aggOut, batchQ, consOut, resultQ, seq,
                   made, chain, accepted, leaders, cast>>

SequencerStop(n) ==
    /\ shutdown /\ seq[n] = "idle"
    /\ seq' = [seq EXCEPT ![n] = "stopped"]
    /\ UNCHANGED <<slot, shutdown, agg, aggOut, batchQ, cons, consOut, resultQ,
                   made, chain, accepted, leaders, cast>>

AllStopped ==
    \A n \in Nodes : agg[n] = "stopped" /\ cons[n] = "stopped" /\ seq[n] = "stopped"

(* tokio::join! in start_node returns: nothing is left to happen.         *)
Terminated == AllStopped /\ UNCHANGED vars

Next ==
    \/ AdvanceSlot
    \/ SignalShutdown
    \/ \E n \in Nodes :
         \/ AggregatorTick(n) \/ AggregatorSend(n) \/ AggregatorStop(n)
         \/ ConsensusHandle(n) \/ ConsensusSend(n) \/ ConsensusStop(n)
         \/ SequencerHandle(n) \/ SequencerStop(n)
    \/ Terminated

(* Every task is polled by the runtime, so a task step that stays enabled *)
(* happens.  select! polls its branches in random order, so the           *)
(* aggregator's shutdown arm, which its own ticker can keep pre-empting,  *)
(* is eventually taken if enabled infinitely often (strong fairness); the *)
(* later stages' inputs run dry once the stage before them has stopped,   *)
(* so weak fairness is enough for their shutdown arms.                    *)
Fairness ==
    \A n \in Nodes :
        /\ WF_vars(AggregatorSend(n)) /\ WF_vars(ConsensusHandle(n))
        /\ WF_vars(ConsensusSend(n)) /\ WF_vars(SequencerHandle(n))
        /\ SF_vars(AggregatorStop(n)) /\ WF_vars(ConsensusStop(n))
        /\ WF_vars(SequencerStop(n))

Spec == Init /\ [][Next]_vars /\ Fairness

-----------------------------------------------------------------------------

TypeOK ==
    /\ slot \in 0..MaxSlot /\ shutdown \in BOOLEAN
    /\ agg \in [Nodes -> {"idle", "sending", "stopped"}]
    /\ cons \in [Nodes -> {"idle", "sending", "stopped"}]
    /\ seq \in [Nodes -> {"idle", "stopped"}]
    /\ aggOut \in [Nodes -> Batch \cup {NoItem}]
    /\ consOut \in [Nodes -> Result \cup {NoItem}]
    /\ \A n \in Nodes : /\ batchQ[n] \in Seq(Batch) /\ Len(batchQ[n]) <= ChanCap
                        /\ resultQ[n] \in Seq(Result) /\ Len(resultQ[n]) <= ChanCap
    /\ \A n \in Nodes : made[n] \in 0..MaxBatches[n]
    /\ chain.current_root \in Roots \cup {NoRoot}

(* Every root the contract accepts was submitted by a node that holds     *)
(* stake in governance: query_validators gives an unstaked node no        *)
(* validators, and the FallbackStake path of an unparsable program id     *)
(* fails again in submit_to_chain before anything is sent.                *)
OnlyStakedNodesSubmit ==
    \A i \in 1..Len(accepted) :
        LET n == accepted[i].node IN
            StakeAccount[n] # NoAccount /\ StakeAccount[n] > 0

(* The comment on select_leader says every node selects the same leader   *)
(* for a given slot: no two nodes judge themselves leader of one slot.    *)
UniqueLeader ==
    \A p, q \in leaders : p[2] = q[2] => p[1] = q[1]

(* A root the contract accepts has votes from at least 2/3 of the stake   *)
(* the governance accounts hold (spec section 4.4, the contract's doc     *)
(* comment): counting the nodes that really voted for that root.          *)
AcceptedRootHasQuorum ==
    LET staked == {n \in Nodes : StakeAccount[n] # NoAccount}
        realTotal == MapThenSumSet(LAMBDA n : StakeAccount[n], staked)
        backing(r) == MapThenSumSet(LAMBDA n : StakeAccount[n],
                                    {n \in staked : <<n, r>> \in cast})
    IN \A i \in 1..Len(accepted) :
          3 * backing(accepted[i].root) >= 2 * realTotal

(* Once shutdown is broadcast, every stage task of every node ends: no    *)
(* task stays blocked on a send into a channel whose reader has ended.    *)
AllStagesStop == shutdown ~> AllStopped
=============================================================================
