--------------------------- MODULE MCComponents ----------------------------
(***************************************************************************)
(* Components checked side by side in one run.  part says which component *)
(* a behaviour is of; the variables of the other components keep a fixed  *)
(* value, so the state spaces add up rather than multiply.                *)
(*   "leader"  select_leader over every small validator list and slot;    *)
(*   "merkle"  the node's and the contracts' Merkle operators over every  *)
(*             batch of up to MaxLeaves distinct leaf hashes;             *)
(*   "breaker" the fetcher's circuit breakers as a state machine;         *)
(*   "outliers" remove_outliers over every list of up to MaxPrices prices *)
(*             in 1..MaxPrice;                                            *)
(*   "prices"  the fetcher, peers and the aggregator passing updates;     *)
(*   "crds"    CRDS tables of several nodes exchanging push and pull      *)
(*             messages over a lossy network;                             *)
(*   "streamer" recv_from and send_to on one socket and one packet batch. *)
(***************************************************************************)
EXTENDS MCStakeVoting, Merkle, OutlierFilter, Functions

CONSTANTS
    MaxLeaves,   \* the largest tree; leaf hashes are 1..MaxLeaves
    Exchanges, Threshold, Timeout, MaxRetries, NoFailure,
    MaxPrices, MaxPrice,  \* price lists of length 1..MaxPrices over 1..MaxPrice
    AssetOrder, Node, PeerKeys, MinPublishers, ChanCap, MaxRounds,
    MaxPeerMsgs,
    CrdsNodes, MaxEntries, MaxClock, MaxMsgs,
    PacketsPerBatch, BatchGrowth, SocketBuf, MaxArrivals, MaxCalls

VARIABLES part, leaves, breaker, up, result, prices,
          fq, out, round, priceCh, gossipCh, cache, peerSent, pending,
          table, clock, msgs,
          spc, callResult, nonblocking, sockErr, elapsed, ri, batch,
          arrived, taken, callStart, sent, calls

flowVars == <<fq, out, round, priceCh, gossipCh, cache, peerSent, pending>>

crdsVars == <<table, clock, msgs>>

streamerVars == <<spc, callResult, nonblocking, sockErr, elapsed, ri, batch,
                  arrived, taken, callStart, sent, calls>>

partVars == <<part, leaves, vals, slot, votes, total, breaker, up, result, prices,
              flowVars, crdsVars, streamerVars>>

nonBreakerVars == <<part, leaves, vals, slot, votes, total, prices, flowVars,
                    crdsVars, streamerVars>>

nonFlowVars == <<part, leaves, vals, slot, votes, total, breaker, up, result,
                 prices, crdsVars, streamerVars>>

nonCrdsVars == <<part, leaves, vals, slot, votes, total, breaker, up, result,
                 prices, flowVars, streamerVars>>

nonStreamerVars == <<part, leaves, vals, slot, votes, total, breaker, up, result,
                     prices, flowVars, crdsVars>>

CB == INSTANCE CircuitBreaker

PF == INSTANCE PriceFlow

CR == INSTANCE Crds WITH Nodes <- CrdsNodes

ST == INSTANCE Streamer

(* A step of the streamer, the other parts unchanged.                     *)
StreamerStep(A) == part = "streamer" /\ A /\ UNCHANGED nonStreamerVars

(* A step of the CRDS exchange, the other parts unchanged.                *)
CrdsStep(A) == part = "crds" /\ A /\ UNCHANGED nonCrdsVars

(* Leaf hashes of a batch: distinct values, in every order.               *)
LeafSeqs ==
    UNION {{f \in [1..n -> 1..MaxLeaves] : IsInjective(f)} : n \in 1..MaxLeaves}

NoVoting == vals = <<>> /\ slot = 0 /\ votes = {} /\ total = 0

IdleBreakers == breaker = [e \in Exchanges |-> CB!NewBreaker]
                /\ up = [e \in Exchanges |-> TRUE]
                /\ result = [e \in Exchanges |-> "none"]

PriceSeqs == UNION {[1..n -> 1..MaxPrice] : n \in 1..MaxPrices}

PartInit ==
    /\ part \in {"leader", "merkle", "breaker", "outliers", "prices", "crds",
                 "streamer"}
    /\ IF part = "leader" THEN MCInit ELSE NoVoting
    /\ IF part = "merkle" THEN leaves \in LeafSeqs ELSE leaves = <<>>
    /\ IF part = "breaker" THEN CB!Init ELSE IdleBreakers
    /\ IF part = "outliers" THEN prices \in PriceSeqs ELSE prices = <<>>
    /\ PF!FlowInit /\ CR!CrdsInit /\ ST!StreamerInit

PartNext ==
    \/ part \in {"leader", "merkle", "outliers"} /\ UNCHANGED partVars
    \/ /\ part = "breaker" /\ CB!Next
       /\ UNCHANGED nonBreakerVars
    \/ /\ part = "prices" /\ PF!FlowNext
       /\ UNCHANGED nonFlowVars
    \/ CrdsStep(CR!CrdsNext)
    \/ StreamerStep(ST!StreamerNext)
    \/ part = "streamer" /\ calls = MaxCalls /\ spc = "idle" /\ UNCHANGED partVars

(* Two assets, as config.assets lists them.                               *)
MCAssetOrder == <<"BTC", "ETH">>

(* A step of the price path, the other parts unchanged.                   *)
FlowStep(A) == part = "prices" /\ A /\ UNCHANGED nonFlowVars

(* Each node pulls from each peer again and again (the spec's pull_ms     *)
(* timer); a request or a response that the network keeps offering is    *)
(* eventually taken, so not every message between two nodes is lost; and  *)
(* no message stays in flight for ever: it is delivered or lost.          *)
CrdsFairness ==
    /\ WF_partVars(CrdsStep(\E m \in msgs :
                      CR!ProcessPullRequest(m) \/ CR!ProcessValues(m) \/ CR!Lose(m)))
    /\ \A n \in CrdsNodes : \A p \in CrdsNodes \ {n} :
          /\ SF_partVars(CrdsStep(CR!CreatePullRequest(n, p)))
          /\ SF_partVars(CrdsStep(\E m \in msgs :
                            m.type = "pullreq" /\ m.from = n /\ m.to = p
                            /\ CR!ProcessPullRequest(m)))
    /\ \A n \in CrdsNodes :
          SF_partVars(CrdsStep(\E m \in msgs :
                         m.type = "pullresp" /\ m.to = n /\ CR!ProcessValues(m)))

PartSpec ==
    /\ PartInit /\ [][PartNext]_partVars
    /\ WF_partVars(part = "breaker" /\ CB!Tick /\ UNCHANGED nonBreakerVars)
    /\ \A e \in Exchanges :
          WF_partVars(part = "breaker" /\ CB!FetchPriceRobust(e)
                      /\ UNCHANGED nonBreakerVars)
    /\ WF_partVars(FlowStep(PF!FetchTick)) /\ WF_partVars(FlowStep(PF!FetchAsset))
    /\ WF_partVars(FlowStep(PF!SendUpdate)) /\ WF_partVars(FlowStep(PF!RecvLocal))
    /\ WF_partVars(FlowStep(PF!RecvGossip)) /\ WF_partVars(FlowStep(PF!AggTick))
    /\ CrdsFairness
    /\ WF_partVars(StreamerStep(ST!RecvLoop))
    /\ WF_partVars(StreamerStep(ST!WaitElapses))

(* select_leader agrees with the spec's cumulative draw (see              *)
(* LeaderIsCumulativeDraw) on every small validator list and slot.        *)
LeaderDraw == part = "leader" => LeaderIsCumulativeDraw

(* The spec's Merkle rule: parent = keccak(min(a,b) || max(a,b)), an odd  *)
(* node is promoted.  SpecLevels lists the levels, leaves first.          *)
SortedPair(a, b) == IF a < b THEN Keccak(a, b) ELSE Keccak(b, a)

RECURSIVE SpecLevels(_)
SpecLevels(lvl) ==
    IF Len(lvl) <= 1 THEN <<lvl>>
    ELSE <<lvl>> \o SpecLevels(
            [i \in 1..((Len(lvl) + 1) \div 2) |->
                IF 2 * i <= Len(lvl) THEN SortedPair(lvl[2 * i - 1], lvl[2 * i])
                ELSE lvl[2 * i - 1]])

(* The spec's sibling proof of leaf i (0-based): the sibling of its        *)
(* ancestor at each level below the root, none where it was promoted.     *)
SpecProof(levels, i) ==
    LET sib(k) == LET a == i \div (2 ^ (k - 1))
                  IN  IF a % 2 = 0 THEN a + 1 ELSE a - 1
        has(k) == sib(k) < Len(levels[k])
        ks == SelectSeq([k \in 1..(Len(levels) - 1) |-> k], has)
    IN  [j \in 1..Len(ks) |-> levels[ks[j]][sib(ks[j]) + 1]]

(* The contracts accept every leaf of a tree built by the spec's rule    *)
(* with its sibling proof, whatever order the hashes fall in: verify_batch *)
(* (and verify_price, verify_proof, which share its loop) sorts each pair *)
(* the way the rule does.                                                 *)
ContractVerifiesSpecProofs ==
    part = "merkle" =>
        LET levels == SpecLevels(leaves)
            root == levels[Len(levels)][1]
            proofs == [i \in 1..Len(leaves) |-> SpecProof(levels, i - 1)]
        IN  VerifyBatch(leaves, proofs, root) = [i \in 1..Len(leaves) |-> TRUE]

(* The siblings of leaf i's ancestors in the vector build_merkle_tree     *)
(* returns, whose levels sit one after another: each level's offset is    *)
(* the sizes of the levels below it.                                      *)
RECURSIVE NodePath(_, _, _, _, _)
NodePath(tree, offset, size, index, proof) ==
    IF size <= 1 THEN proof
    ELSE LET sibling == IF index % 2 = 0 THEN index + 1 ELSE index - 1
             next == IF sibling < size
                     THEN Append(proof, tree[offset + sibling + 1]) ELSE proof
         IN  NodePath(tree, offset + size, (size + 1) \div 2, index \div 2, next)

(* get_merkle_proof returns, for every leaf of the tree build_merkle_tree *)
(* made, the sibling of the leaf's ancestor at each level: the proof the  *)
(* node hands out names nodes of its own tree.                            *)
NodeProofIsSiblingPath ==
    part = "merkle" =>
        LET tree == BuildMerkleTree(leaves)
        IN  \A i \in 0..(Len(leaves) - 1) :
                GetMerkleProof(tree, i) = NodePath(tree, 0, Len(leaves), i, <<>>)
(* Honest nodes with the same feeds commit to the same root.  The spec    *)
(* sorts leaves by asset_id for this; build_merkle_batch takes them in    *)
(* the iteration order of its price_cache HashMap, which every process    *)
(* seeds differently, so the feeds may reach build_merkle_tree in any     *)
(* order.                                                                 *)
RootIndependentOfFeedOrder ==
    part = "merkle" =>
        \A order \in SetToSeqs(Range(leaves)) :
            Last(BuildMerkleTree(order)) = Last(BuildMerkleTree(leaves))
(* See CircuitBreaker: each breaker refines the spec's breaker, and one   *)
(* whose exchange comes back for good ends Closed.  In the other parts    *)
(* the breakers stay new and their exchanges up.                          *)
BreakerImplementsSpec == CB!ImplementsBreakerSpec

BreakerRecovers == CB!BreakerRecovers
(* test_remove_outliers: of 100, 101, 102 and 200, remove_outliers keeps *)
(* three prices, dropping 200.  Generally, a price isolated from the     *)
(* others (farther from each of them than ten times their whole spread)  *)
(* is an outlier and is dropped.  The filter keeps prices within three   *)
(* population standard deviations of the mean, and no price of a sample  *)
(* of n lies more than sqrt(n - 1) of them away, so below ten prices     *)
(* nothing is ever dropped.                                               *)
Isolated(i, xs) ==
    LET others == {xs[j] : j \in DOMAIN xs \ {i}}
        spread == Max(others) - Min(others)
    IN  \A o \in others : (xs[i] - o) * (xs[i] - o) > 100 * spread * spread

IsolatedPriceRemoved ==
    part = "outliers" /\ Len(prices) >= 3 =>
        \A i \in DOMAIN prices :
            Isolated(i, prices) => Len(RemoveOutliers(prices)) < Len(prices)
(* See PriceFlow: every update the fetcher sends is in a later batch.     *)
(* In the other parts nothing is ever sent.                               *)
LocalPriceBatched == PF!LocalPriceBatched

(* See Crds: pull anti-entropy spreads every label to every node.  In the *)
(* other parts every table stays empty.                                   *)
LabelsConverge == CR!LabelsConverge

(* See Streamer: recv_from never indexes past the batch it resized, an    *)
(* Ok(i) hands back exactly the i datagrams read, and a call that has     *)
(* read a datagram returns.  In the other parts recv_from is never called. *)
BatchIndexInBounds == ST!BatchIndexInBounds

RecvReturnsReceived == ST!RecvReturnsReceived

RecvReturns == ST!RecvReturns
=============================================================================
