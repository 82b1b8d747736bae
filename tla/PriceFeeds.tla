------------------------------ MODULE PriceFeeds ------------------------------
(***************************************************************************)
(* The price-feeds program                                                 *)
(* (src/l2-contracts/programs/tachyon-price-feeds/src/lib.rs).            *)
(*                                                                         *)
(* One PriceFeed account per symbol (seed "price-feed", symbol).  Each    *)
(* instruction is atomic: a failed require!, a failed account constraint  *)
(* or an `init` of an existing account aborts it with no change.  Prices  *)
(* are small integers; confidence, expo, timestamps, description and      *)
(* decimals are left out, and so is the string-length check of            *)
(* initialize_feed, which every symbol of the model passes.  aggSource is *)
(* a history variable: the price vector of the aggregate_prices call that *)
(* wrote the feed's price, <<>> if another instruction wrote it last.     *)
(***************************************************************************)
EXTENDS Integers, Sequences, FiniteSets, TLC

CONSTANTS
    Symbols,      \* symbols of the feeds
    FeedSigners,  \* keys that sign instructions
    PriceValues,  \* prices a caller passes
    MaxPrices     \* bound on the length of the prices vector

VARIABLES
    feeds,      \* symbol -> PriceFeed, or [exists |-> FALSE]
    aggSource   \* symbol -> prices of the aggregate that set the price

feedVars == <<feeds, aggSource>>

FeedStatus == [Inactive |-> 0, Active |-> 1, Deprecated |-> 2]

NoFeed == [exists |-> FALSE]

FeedsInit ==
    /\ feeds = [s \in Symbols |-> NoFeed]
    /\ aggSource = [s \in Symbols |-> <<>>]

(* initialize_feed: `init` of the symbol's PDA; the signer becomes its    *)
(* authority.                                                              *)
InitializeFeed(signer, sym) ==
    /\ ~feeds[sym].exists
    /\ feeds' = [feeds EXCEPT ![sym] =
                   [exists |-> TRUE, authority |-> signer, price |-> 0,
                    publisher_count |-> 0, status |-> FeedStatus.Inactive]]
    /\ UNCHANGED aggSource

(* update_price: the signer must be the feed's authority or pass some     *)
(* governance_state account; any account will do, nothing checks it.      *)
UpdatePrice(signer, sym, withGovernance, price) ==
    /\ feeds[sym].exists
    /\ signer = feeds[sym].authority \/ withGovernance
    /\ feeds' = [feeds EXCEPT ![sym].price = price,
                              ![sym].status = FeedStatus.Active]
    /\ aggSource' = [aggSource EXCEPT ![sym] = <<>>]

(* A variant of Median that indexes the vector as passed, unsorted         *)
(* (mutant).                                                               *)
MedianUnsorted(prices) == prices[Len(prices) \div 2 + 1]

(* sorted_prices[sorted_prices.len() / 2]: the upper of the two central   *)
(* elements when the length is even.                                       *)
Median(prices) ==
    LET sorted == SortSeq(prices, LAMBDA x, y : x < y)
    IN  sorted[Len(sorted) \div 2 + 1]

(* aggregate_prices: any signer, on any feed, with 1 to 100 prices; the   *)
(* median becomes the price.                                               *)
AggregatePrices(sym, prices) ==
    /\ feeds[sym].exists
    /\ prices # <<>> /\ Len(prices) <= 100
    /\ feeds' = [feeds EXCEPT ![sym].price = Median(prices),
                              ![sym].publisher_count = Len(prices),
                              ![sym].status = FeedStatus.Active]
    /\ aggSource' = [aggSource EXCEPT ![sym] = prices]

(* update_status: has_one = authority, and status at most 2.              *)
UpdateStatus(signer, sym, status) ==
    /\ feeds[sym].exists /\ signer = feeds[sym].authority
    /\ status <= 2
    /\ feeds' = [feeds EXCEPT ![sym].status = status]
    /\ UNCHANGED aggSource

PriceVectors == UNION {[1..n -> PriceValues] : n \in 0..MaxPrices}

FeedsNext ==
    \/ \E k \in FeedSigners, s \in Symbols : InitializeFeed(k, s)
    \/ \E k \in FeedSigners, s \in Symbols, g \in BOOLEAN, p \in PriceValues :
          UpdatePrice(k, s, g, p)
    \/ \E s \in Symbols, ps \in PriceVectors : AggregatePrices(s, ps)
    \/ \E k \in FeedSigners, s \in Symbols, st \in 0..3 : UpdateStatus(k, s, st)

-----------------------------------------------------------------------------
(* m is a median of ps: an element with at most half of ps below it and  *)
(* at most half above it.                                                  *)
IsMedianOf(m, ps) ==
    /\ \E i \in DOMAIN ps : ps[i] = m
    /\ 2 * Cardinality({i \in DOMAIN ps : ps[i] < m}) <= Len(ps)
    /\ 2 * Cardinality({i \in DOMAIN ps : ps[i] > m}) <= Len(ps)

(* The price a feed holds after aggregate_prices is a median of the       *)
(* prices that call passed, and publisher_count their number, until an    *)
(* update_price overwrites it, whatever order the callers passed them in. *)
AggregatedPriceIsMedian ==
    \A s \in Symbols :
        aggSource[s] # <<>> =>
            /\ IsMedianOf(feeds[s].price, aggSource[s])
            /\ feeds[s].publisher_count = Len(aggSource[s])
=============================================================================
