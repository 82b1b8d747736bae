---------------------------- MODULE MCContracts -----------------------------
(***************************************************************************)
(* The on-chain programs, and the node's local stores, checked side by    *)
(* side in one run for safety.  part says which component a behaviour is  *)
(* of; the others keep their initial value, so the state spaces add up    *)
(* rather than multiply.                                                  *)
(*   "governance" the governance program of MCGovernance;                  *)
(*   "sequencing" the sequencer registry and the state-compression        *)
(*                program's root submission that reads it;               *)
(*   "feeds"      the price-feeds program;                                 *)
(*   "core"       the L2 core program;                                     *)
(*   "bridge"     the bridge program;                                      *)
(*   "tracker"    the node's vote tracker;                                 *)
(*   "poh"        the node's proof-of-history recorder and service;        *)
(*   "accounts"   threads calling the node's account store and cache;     *)
(*   "ledger"     the node's price history ledger;                         *)
(*   "turbine"    nodes flooding Merkle roots over a lossy network;        *)
(*   "tower"      the node's vote tower, its root only advancing;          *)
(*   "gossip"     the TCP gossip networks of nodes whose process may stop. *)
(***************************************************************************)
EXTENDS MCGovernance, StateCompression, PriceFeeds, L2Core, Bridge

CONSTANTS
    Validators, TrackerRoots, StakeValues, MaxTotalStake, MaxTrackerVotes,
    HashesPerTick, HashCounts, MaxHashes, MaxTicks,
    DbThreads, AccountKeys, AccountVals, MaxSize, MaxBatch,
    LedgerSymbols, Timestamps, BatchNums, Cutoffs,
    TNodes, TRoots, TStakes, Fanout, MaxHops, TreeOps,
    TowerSlots, TowerRoots, TowerNoRoot, TowerNoBatch, TowerCap,
    GNodes, Callers, Freezable, Updates, MaxConns, MaxBroadcasts,
    MaxHeartbeats, MaxResets, WindowCap, MaxCoalesce

VARIABLES part,
          trackerStates, rootVotes, trackerTotal,
          numHashes, running, ticks,
          db, acache, pc, opKey, opVal, batchLeft, batchAll,
          ledger, storedKeys, deletable,
          trees, seen, inFlight,
          towerVotes, last_voted, root_batch, vote_history, lockouts,
          towerSigned,
          conn, wire, ends, rst, backlog, peers, knownPeers, peerLock,
          acceptor, handler, hb, app, forwarded, readUpdates, counts, frozen

VT == INSTANCE VoteTracker

PH == INSTANCE Poh

AD == INSTANCE AccountsDb

LG == INSTANCE Ledger

TB == INSTANCE Propagation

(* A root that only advances: the spec's "root advance" to a batch the    *)
(* chain accepted, at or above the current root.                          *)
TowerAdvancingRoot(rb) ==
    IF rb = TowerNoBatch THEN TowerSlots ELSE {b \in TowerSlots : b >= rb}

TW == INSTANCE OracleTower
        WITH Slots <- TowerSlots, Roots <- TowerRoots, NoRoot <- TowerNoRoot,
             NoBatch <- TowerNoBatch, RootCandidates <- TowerAdvancingRoot,
             votes <- towerVotes, signed <- towerSigned

GN == INSTANCE GossipNetwork

trackerVars == <<trackerStates, rootVotes, trackerTotal>>

pohVars == <<numHashes, running, ticks>>

dbVars == <<db, acache, pc, opKey, opVal, batchLeft, batchAll>>

ledgerVars == <<ledger, storedKeys, deletable>>

turbineVars == <<trees, seen, inFlight>>

towerVars == <<towerVotes, last_voted, root_batch, vote_history, lockouts,
               towerSigned>>

gossipVars == <<conn, wire, ends, rst, backlog, peers, knownPeers, peerLock,
                acceptor, handler, hb, app, forwarded, readUpdates, counts,
                frozen>>

nodeVars == <<trackerVars, pohVars, dbVars, ledgerVars, turbineVars, towerVars,
              gossipVars>>

otherVars == <<feedVars, core, bridge, nodeVars>>

allVars == <<part, vars, scVars, otherVars>>

(* Prices a caller passes: negative, zero and positive, as an i64 may be.  *)
MCPriceValues == {-1, 0, 2}

ContractsInit ==
    /\ part \in {"governance", "sequencing", "feeds", "core", "bridge",
                 "tracker", "poh", "accounts", "ledger", "turbine", "tower",
                 "gossip"}
    /\ Init /\ SeqInit /\ RootInit /\ FeedsInit /\ CoreInit /\ BridgeInit
    /\ VT!TrackerInit /\ PH!PohInit /\ AD!DbInit /\ LG!LedgerInit
    /\ TB!PropagationInit /\ TW!Init /\ GN!GossipInit

(* The variables of the contracts, for a step of a node store.            *)
contractVars == <<part, vars, scVars, feedVars, core, bridge>>

ContractsNext ==
    \/ part = "governance" /\ Next /\ UNCHANGED <<part, scVars, otherVars>>
    \/ part = "sequencing" /\ ScNext /\ UNCHANGED <<part, vars, otherVars>>
    \/ part = "feeds" /\ FeedsNext
       /\ UNCHANGED <<part, vars, scVars, core, bridge, nodeVars>>
    \/ part = "core" /\ CoreNext
       /\ UNCHANGED <<part, vars, scVars, feedVars, bridge, nodeVars>>
    \/ part = "bridge" /\ BridgeNext
       /\ UNCHANGED <<part, vars, scVars, feedVars, core, nodeVars>>
    \/ part = "tracker" /\ VT!TrackerNext
       /\ UNCHANGED <<contractVars, pohVars, dbVars, ledgerVars,
                      turbineVars, towerVars, gossipVars>>
    \/ part = "poh" /\ PH!PohNext
       /\ UNCHANGED <<contractVars, trackerVars, dbVars, ledgerVars,
                      turbineVars, towerVars, gossipVars>>
    \/ part = "accounts" /\ AD!DbNext
       /\ UNCHANGED <<contractVars, trackerVars, pohVars, ledgerVars,
                      turbineVars, towerVars, gossipVars>>
    \/ part = "ledger" /\ LG!LedgerNext
       /\ UNCHANGED <<contractVars, trackerVars, pohVars, dbVars,
                      turbineVars, towerVars, gossipVars>>
    \/ part = "turbine" /\ TB!PropagationNext
       /\ UNCHANGED <<contractVars, trackerVars, pohVars, dbVars, ledgerVars,
                      towerVars, gossipVars>>
    \/ part = "tower" /\ TW!Next
       /\ UNCHANGED <<contractVars, trackerVars, pohVars, dbVars, ledgerVars,
                      turbineVars, gossipVars>>
    \/ part = "gossip" /\ GN!GossipNext
       /\ UNCHANGED <<contractVars, trackerVars, pohVars, dbVars, ledgerVars,
                      turbineVars, towerVars>>
    \* The gossip networks may come to rest with every map lock free, or
    \* once a node's process has stopped (a lock may then be held forever,
    \* which the run frozen_peer shows); never with a live node left holding
    \* its lock otherwise.
    \/ /\ part = "gossip" /\ ~ENABLED GN!GossipNext
       /\ (\E n \in GNodes : frozen[n]) \/ \A n \in GNodes : peerLock[n] = "free"
       /\ UNCHANGED allVars

ContractsSpec == ContractsInit /\ [][ContractsNext]_allVars

(* See VoteTracker, AccountsDb and Ledger.  In the other parts the        *)
(* tracker is empty, the store idle and the ledger empty.                *)
TotalStakeCoversRegistered == VT!TotalStakeCoversRegistered

CacheBounded == AD!CacheBounded

PruningDeletesOnlyOldPrices == LG!PruningDeletesOnlyOldPrices

(* See OracleTower: the tower's votes fit it and agree with vote_history, *)
(* and above the root no batch is voted for two roots.  In the other      *)
(* parts the tower is empty.                                               *)
TowerTypeOK == TW!TypeOK

NoEquivocationAboveRoot == TW!NoEquivocationAboveRoot

RecentVotesMatchHistory == TW!RecentVotesMatchHistory

=============================================================================
