------------------------------ MODULE PriceFlow ------------------------------
(***************************************************************************)
(* The node's price path, from the exchanges to the aggregator's batches  *)
(* (src/tachyon-node/src/fetcher/mod.rs, aggregator/mod.rs, the receive   *)
(* loop of gossip/mod.rs, and the channels main.rs connects them with).   *)
(*                                                                         *)
(* start_price_fetcher, on every tick, walks the configured assets in     *)
(* order; for each it fetches from the asset's exchanges and, if any      *)
(* answered, sends one PriceUpdate with the node's own pubkey on the      *)
(* bounded price channel, waiting while it is full.  handle_peer forwards *)
(* every PriceUpdate a connected peer sends onto the gossip channel.      *)
(* start_aggregator selects among the two channels and its ticker: an     *)
(* update is appended to the asset's cache entry; a tick with a non-empty *)
(* cache builds a batch of the assets with at least min_publishers        *)
(* distinct publishers, sends it if it has a feed, and clears the cache.  *)
(*                                                                         *)
(* Prices, confidences and timestamps are left out: an update is its      *)
(* asset, its publisher and the fetch round it came from.  pending is a   *)
(* history variable: the local updates sent and not yet part of a batch.  *)
(***************************************************************************)
EXTENDS Naturals, Sequences, FiniteSets

CONSTANTS
    AssetOrder,     \* the symbols of config.assets, in order, distinct
    Node,           \* this node's pubkey
    PeerKeys,       \* node_pubkey values peers put in the updates they send
    MinPublishers,  \* config.min_publishers
    ChanCap,        \* capacity of the price and gossip channels (1000)
    MaxRounds,      \* bound on fetcher ticks
    MaxPeerMsgs     \* bound on updates received from peers

VARIABLES
    fq,        \* assets the current fetcher tick has still to fetch
    out,       \* the update the fetcher is waiting to send, or NoUpdate
    round,     \* fetcher ticks so far
    priceCh,   \* price_tx -> price_rx
    gossipCh,  \* gossip_tx -> gossip_rx
    cache,     \* price_cache: asset -> updates, <<>> for no entry
    peerSent,  \* updates peers have sent so far
    pending    \* local updates sent and not yet in a batch

Assets == {AssetOrder[i] : i \in 1..Len(AssetOrder)}

flowVars == <<fq, out, round, priceCh, gossipCh, cache, peerSent, pending>>

Update(a, k, r) == [asset |-> a, pub |-> k, round |-> r]

NoUpdate == Update("none", "none", 0)

LocalUpdates == {Update(a, Node, r) : a \in Assets, r \in 1..MaxRounds}

EmptyCache == [a \in Assets |-> <<>>]

FlowInit ==
    /\ fq = <<>> /\ out = NoUpdate /\ round = 0
    /\ priceCh = <<>> /\ gossipCh = <<>>
    /\ cache = EmptyCache /\ peerSent = 0 /\ pending = {}

-----------------------------------------------------------------------------
(* start_price_fetcher.                                                    *)

(* The ticker fires: the loop over config.assets starts.                   *)
FetchTick ==
    /\ fq = <<>> /\ out = NoUpdate /\ round < MaxRounds
    /\ fq' = AssetOrder /\ round' = round + 1
    /\ UNCHANGED <<out, priceCh, gossipCh, cache, peerSent, pending>>

(* fetch_asset_prices for the next asset: no exchange answered and the    *)
(* asset is skipped, or the median of the answers becomes an update.      *)
FetchAsset ==
    /\ fq # <<>> /\ out = NoUpdate
    /\ \/ fq' = Tail(fq) /\ UNCHANGED out
       \/ out' = Update(Head(fq), Node, round) /\ UNCHANGED fq
    /\ UNCHANGED <<round, priceCh, gossipCh, cache, peerSent, pending>>

(* price_tx.send(update).await: waits for room in the channel.            *)
SendUpdate ==
    /\ out # NoUpdate /\ Len(priceCh) < ChanCap
    /\ priceCh' = Append(priceCh, out)
    /\ pending' = pending \cup {out}
    /\ out' = NoUpdate /\ fq' = Tail(fq)
    /\ UNCHANGED <<round, gossipCh, cache, peerSent>>

-----------------------------------------------------------------------------
(* handle_peer: a PriceUpdate read from a peer's stream is forwarded.     *)
(* Nothing checks that its node_pubkey is the peer's.                      *)
PeerUpdate(a, k) ==
    /\ peerSent < MaxPeerMsgs /\ Len(gossipCh) < ChanCap
    /\ gossipCh' = Append(gossipCh, Update(a, k, 0))
    /\ peerSent' = peerSent + 1
    /\ UNCHANGED <<fq, out, round, priceCh, cache, pending>>

-----------------------------------------------------------------------------
(* start_aggregator.                                                       *)

Cached(u) == [cache EXCEPT ![u.asset] = Append(@, u)]

RecvLocal ==
    /\ priceCh # <<>>
    /\ cache' = Cached(Head(priceCh)) /\ priceCh' = Tail(priceCh)
    /\ UNCHANGED <<fq, out, round, gossipCh, peerSent, pending>>

RecvGossip ==
    /\ gossipCh # <<>>
    /\ cache' = Cached(Head(gossipCh)) /\ gossipCh' = Tail(gossipCh)
    /\ UNCHANGED <<fq, out, round, priceCh, peerSent, pending>>

(* build_merkle_batch: publisher_prices keeps one price per publisher.    *)
Publishers(c, a) == {c[a][i].pub : i \in 1..Len(c[a])}

(* A variant of BatchFeeds that also skips an asset with exactly          *)
(* min_publishers publishers (mutant).                                    *)
BatchFeedsStrict(c, minPub) ==
    {a \in Assets : c[a] # <<>> /\ Cardinality(Publishers(c, a)) > minPub}

(* The assets build_merkle_batch makes a feed of.                         *)
BatchFeeds(c, minPub) ==
    {a \in Assets : c[a] # <<>> /\ Cardinality(Publishers(c, a)) >= minPub}

(* The ticker fires: the batch is sent to consensus if it has a feed, and *)
(* the cache is cleared either way.  The updates of a feed's assets are   *)
(* then part of a batch; the others are dropped.  With an empty cache the *)
(* code skips the build, and the step changes nothing.                    *)
AggTick ==
    /\ LET feeds == BatchFeeds(cache, MinPublishers)
       IN  pending' = {u \in pending :
                          ~(u.asset \in feeds
                            /\ \E i \in 1..Len(cache[u.asset]) :
                                  cache[u.asset][i] = u)}
    /\ cache' = EmptyCache
    /\ UNCHANGED <<fq, out, round, priceCh, gossipCh, peerSent>>

FlowNext ==
    \/ FetchTick \/ FetchAsset \/ SendUpdate
    \/ \E a \in Assets, k \in PeerKeys : PeerUpdate(a, k)
    \/ RecvLocal \/ RecvGossip \/ AggTick

(* tokio::select! picks at random among the ready branches, so a branch   *)
(* that stays ready is taken; the fetcher task runs on its own.           *)
FlowFairness ==
    /\ WF_flowVars(FetchTick) /\ WF_flowVars(FetchAsset)
    /\ WF_flowVars(SendUpdate) /\ WF_flowVars(RecvLocal)
    /\ WF_flowVars(RecvGossip) /\ WF_flowVars(AggTick)

FlowSpec == FlowInit /\ [][FlowNext]_flowVars /\ FlowFairness

-----------------------------------------------------------------------------
FlowTypeOK ==
    /\ round \in 0..MaxRounds /\ peerSent \in 0..MaxPeerMsgs
    /\ Len(priceCh) <= ChanCap /\ Len(gossipCh) <= ChanCap
    /\ pending \subseteq LocalUpdates

(* Every price the node fetches and sends to its aggregator ends up in a  *)
(* Merkle batch: build_merkle_batch does not drop it for having too few   *)
(* publishers.                                                             *)
LocalPriceBatched == \A u \in LocalUpdates : u \in pending ~> u \notin pending
=============================================================================
