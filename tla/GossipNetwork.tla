---------------------------- MODULE GossipNetwork ----------------------------
(***************************************************************************)
(* The node's TCP gossip network (src/tachyon-node/src/gossip/mod.rs).     *)
(*                                                                         *)
(* Each node runs GossipNetwork::start: an accept loop that puts every     *)
(* accepted stream in the peer map and spawns handle_peer for it, and a   *)
(* heartbeat task.  handle_peer takes its stream out of the map and reads *)
(* it until the peer goes away, forwarding PriceUpdate messages on        *)
(* gossip_tx.  A caller of the node may connect_to_peer, which puts the   *)
(* outbound stream in the map under the peer's listen address, and       *)
(* broadcast_price_update, which writes to every stream in the map.  The  *)
(* peer map is one tokio RwLock: the accept loop, handle_peer and         *)
(* connect_to_peer hold it for one insert or remove, while send_heartbeat *)
(* and broadcast_price_update hold it across the awaited write_all to     *)
(* every peer and the removal of the peers whose write failed.            *)
(*                                                                         *)
(* A connection is a pair of byte streams, up (client to server) and      *)
(* down (server to client); a message is one serde_json value written by  *)
(* one write_all.  TCP keeps no message boundaries: one read returns the  *)
(* bytes of up to MaxCoalesce whole messages, and serde_json::from_slice  *)
(* parses them only when they are exactly one value.  A write_all waits  *)
(* while the peer's receive window holds WindowCap unread messages.       *)
(* Dropping a TcpStream closes its end: the peer reads end of stream, and *)
(* the next write to it succeeds and brings back a reset, after which     *)
(* reads and writes fail; dropping it with unread data sends the reset at *)
(* once.  The network may reset a connection.  An outbound key is the     *)
(* peer's node, an inbound key the connection (the peer's ephemeral       *)
(* port).  Connections to the node's own address are left out.  Nothing  *)
(* in the node calls connect_to_peer or broadcast_price_update; Callers   *)
(* are the nodes of a program that would.                                 *)
(***************************************************************************)
EXTENDS Naturals, Sequences, FiniteSets

CONSTANTS
    GNodes,         \* nodes, each listening on its gossip_port
    Callers,        \* nodes whose caller uses connect_to_peer and broadcast
    Freezable,      \* nodes whose process may stop without closing its sockets
    Updates,        \* price updates a caller broadcasts
    MaxConns,       \* bound on TCP connections made
    MaxBroadcasts,  \* bound on broadcast_price_update calls
    MaxHeartbeats,  \* bound on heartbeat rounds of a node with no lost peer
    MaxResets,      \* bound on connections the network resets
    WindowCap,      \* unread messages a receive window holds
    MaxCoalesce     \* whole messages one stream.read may return

VARIABLES
    conn,         \* connection -> [cli, srv], or NoConn before it is made
    wire,         \* connection -> [up, down]: messages written, not yet read
    ends,         \* connection -> [cli, srv]: the end is not yet dropped
    rst,          \* connection -> a reset has reached it
    backlog,      \* node -> connections its listener has not accepted
    peers,        \* node -> the peer map: key -> connection
    knownPeers,   \* node -> known_peers
    peerLock,     \* node -> "free", or the task holding the write lock
    acceptor,     \* node -> connection the accept loop is inserting, or 0
    handler,      \* connection -> its handle_peer task at the server
    hb,           \* node -> the heartbeat task's round
    app,          \* node -> the caller of connect_to_peer and broadcast
    forwarded,    \* node -> updates handle_peer sent on gossip_tx
    readUpdates,  \* history: node -> updates handle_peer read from a stream
    counts,       \* [conns, broadcasts, resets], and heartbeats per node
    frozen        \* node -> its process has stopped

gossipVars == <<conn, wire, ends, rst, backlog, peers, knownPeers, peerLock,
                acceptor, handler, hb, app, forwarded, readUpdates, counts,
                frozen>>

Conns == 1..MaxConns

NoConn == [cli |-> "none", srv |-> "none"]

Announce == "announce"

Heartbeat == "heartbeat"

Idle == [pc |-> "idle", c |-> 0, msg |-> Heartbeat, todo |-> {}, failed |-> {}]

GossipInit ==
    /\ conn = [c \in Conns |-> NoConn]
    /\ wire = [c \in Conns |-> [up |-> <<>>, down |-> <<>>]]
    /\ ends = [c \in Conns |-> [cli |-> FALSE, srv |-> FALSE]]
    /\ rst = [c \in Conns |-> FALSE]
    /\ backlog = [n \in GNodes |-> {}]
    /\ peers = [n \in GNodes |-> [k \in {} |-> 0]]
    /\ knownPeers = [n \in GNodes |-> <<>>]
    /\ peerLock = [n \in GNodes |-> "free"]
    /\ acceptor = [n \in GNodes |-> 0]
    /\ handler = [c \in Conns |-> "none"]
    /\ hb = [n \in GNodes |-> Idle]
    /\ app = [n \in GNodes |-> Idle]
    /\ forwarded = [n \in GNodes |-> {}]
    /\ readUpdates = [n \in GNodes |-> {}]
    /\ counts = [conns |-> 0, broadcasts |-> 0, resets |-> 0,
                 heartbeats |-> [n \in GNodes |-> 0]]
    /\ frozen = [n \in GNodes |-> FALSE]

(* Node n's end of c, the stream it writes and the one it reads.          *)
Side(n, c) == IF conn[c].cli = n THEN "cli" ELSE "srv"

Far(n, c) == IF conn[c].cli = n THEN "srv" ELSE "cli"

Out(n, c) == IF conn[c].cli = n THEN "up" ELSE "down"

In(n, c) == IF conn[c].cli = n THEN "down" ELSE "up"

(* The peer map with key k mapped to c, and without the keys of K.        *)
MapPut(f, k, c) == [x \in DOMAIN f \cup {k} |-> IF x = k THEN c ELSE f[x]]

MapDrop(f, K) == [x \in DOMAIN f \ K |-> f[x]]

(* Node n drops its streams of the connections S.                         *)
DropEnds(n, S) ==
    /\ ends' = [c \in Conns |-> IF c \in S THEN [ends[c] EXCEPT ![Side(n, c)] = FALSE]
                                ELSE ends[c]]
    /\ rst' = [c \in Conns |-> rst[c] \/ (c \in S /\ wire[c][In(n, c)] # <<>>)]

WriteOutcome(n, c) ==
    CASE rst[c] -> "fail"
      [] ~ends[c][Far(n, c)] -> "ok"
      [] Len(wire[c][Out(n, c)]) < WindowCap -> "ok"
      [] OTHER -> "wait"

Write(n, c, m) ==
    /\ wire' = IF ends[c][Far(n, c)]
               THEN [wire EXCEPT ![c][Out(n, c)] = Append(@, m)] ELSE wire
    /\ rst' = [rst EXCEPT ![c] = @ \/ ~ends[c][Far(n, c)]]

(* A peer whose loss a write would detect is still in n's map.            *)
LostMapped(n) == \E k \in DOMAIN peers[n] :
                    rst[peers[n][k]] \/ ~ends[peers[n][k]][Far(n, peers[n][k])]

-----------------------------------------------------------------------------
(* The accept loop.                                                        *)

AcceptTake(n) ==
    /\ acceptor[n] = 0
    /\ \E c \in backlog[n] : /\ acceptor' = [acceptor EXCEPT ![n] = c]
                             /\ backlog' = [backlog EXCEPT ![n] = @ \ {c}]
    /\ UNCHANGED <<frozen, conn, wire, ends, rst, peers, knownPeers, peerLock,
                   handler, hb, app, forwarded, readUpdates, counts>>

(* peers.insert, known_peers.push and the spawn of handle_peer.            *)
AcceptInsert(n) ==
    LET c == acceptor[n]
    IN  /\ c # 0 /\ peerLock[n] = "free"
        /\ peers' = [peers EXCEPT ![n] = MapPut(@, c, c)]
        /\ knownPeers' = [knownPeers EXCEPT ![n] = Append(@, c)]
        /\ handler' = [handler EXCEPT ![c] = "start"]
        /\ acceptor' = [acceptor EXCEPT ![n] = 0]
        /\ UNCHANGED <<frozen, conn, wire, ends, rst, backlog, peerLock, hb,
                       app, forwarded, readUpdates, counts>>

-----------------------------------------------------------------------------
(* handle_peer.                                                            *)

(* peers.remove(&addr): the stream, or "Peer not found" when a heartbeat  *)
(* or broadcast has removed it first.                                      *)
HandlePeerTake(c) ==
    LET n == conn[c].srv
    IN  /\ handler[c] = "start" /\ peerLock[n] = "free"
        /\ IF c \in DOMAIN peers[n]
           THEN /\ peers' = [peers EXCEPT ![n] = MapDrop(@, {c})]
                /\ handler' = [handler EXCEPT ![c] = "reading"]
           ELSE /\ handler' = [handler EXCEPT ![c] = "done"]
                /\ UNCHANGED peers
        /\ UNCHANGED <<frozen, conn, wire, ends, rst, backlog, knownPeers,
                       peerLock, acceptor, hb, app, forwarded, readUpdates,
                       counts>>

(* One stream.read: k whole messages; a PriceUpdate is forwarded when it  *)
(* is the whole of what was read.                                          *)
HandlePeerRead(c) ==
    LET n == conn[c].srv
        avail == wire[c].up
    IN  /\ handler[c] = "reading" /\ ~rst[c] /\ avail # <<>>
        /\ \E k \in 1..MaxCoalesce :
              /\ k <= Len(avail)
              /\ wire' = [wire EXCEPT ![c].up = SubSeq(@, k + 1, Len(@))]
              /\ readUpdates' = [readUpdates EXCEPT ![n] =
                                   @ \cup ({avail[i] : i \in 1..k} \cap Updates)]
              /\ forwarded' = IF k = 1 /\ avail[1] \in Updates
                              THEN [forwarded EXCEPT ![n] = @ \cup {avail[1]}]
                              ELSE forwarded
        /\ UNCHANGED <<frozen, conn, ends, rst, backlog, peers, knownPeers,
                       peerLock, acceptor, handler, hb, app, counts>>

(* Ok(0) after the client's end is dropped, or an error after a reset:    *)
(* the loop breaks and the stream is dropped.                              *)
HandlePeerEnd(c) ==
    LET n == conn[c].srv
    IN  /\ handler[c] = "reading"
        /\ rst[c] \/ (wire[c].up = <<>> /\ ~ends[c].cli)
        /\ handler' = [handler EXCEPT ![c] = "done"]
        /\ DropEnds(n, {c})
        /\ UNCHANGED <<frozen, conn, wire, backlog, peers, knownPeers,
                       peerLock, acceptor, hb, app, forwarded, readUpdates,
                       counts>>

-----------------------------------------------------------------------------
(* send_heartbeat and broadcast_price_update: a round that holds the      *)
(* write lock, writes msg to every stream of the map (in HashMap order),  *)
(* then removes the keys whose write failed and drops their streams.      *)

RoundStart(n, msg) ==
    [pc |-> "write", c |-> 0, msg |-> msg, todo |-> DOMAIN peers[n], failed |-> {}]

(* One write_all of the round r of node n; the new round.                  *)
RoundWrite(n, r, k) ==
    LET c == peers[n][k]
    IN  IF WriteOutcome(n, c) = "ok"
        THEN [r EXCEPT !.todo = @ \ {k}]
        ELSE [r EXCEPT !.todo = @ \ {k}, !.failed = @ \cup {k}]

RoundWriteStep(n, r, k) ==
    LET c == peers[n][k]
    IN  /\ WriteOutcome(n, c) # "wait"
        /\ IF WriteOutcome(n, c) = "ok" THEN Write(n, c, r.msg)
           ELSE UNCHANGED <<frozen, wire, rst>>

(* The end of a round: the failed keys removed, the lock released.         *)
RoundEnd(n, r) ==
    /\ peers' = [peers EXCEPT ![n] = MapDrop(@, r.failed)]
    /\ DropEnds(n, {peers[n][k] : k \in r.failed})
    /\ peerLock' = [peerLock EXCEPT ![n] = "free"]

(* The heartbeat interval fires; a node with no lost peer in its map has  *)
(* MaxHeartbeats rounds.                                                   *)
HeartbeatBegin(n) ==
    /\ hb[n].pc = "idle" /\ peerLock[n] = "free"
    /\ counts.heartbeats[n] < MaxHeartbeats \/ LostMapped(n)
    /\ peerLock' = [peerLock EXCEPT ![n] = "heartbeat"]
    /\ hb' = [hb EXCEPT ![n] = RoundStart(n, Heartbeat)]
    /\ counts' = [counts EXCEPT !.heartbeats[n] =
                    IF @ < MaxHeartbeats THEN @ + 1 ELSE @]
    /\ UNCHANGED <<frozen, conn, wire, ends, rst, backlog, peers, knownPeers,
                   acceptor, handler, app, forwarded, readUpdates>>

HeartbeatWrite(n) ==
    /\ hb[n].pc = "write"
    /\ \E k \in hb[n].todo : /\ RoundWriteStep(n, hb[n], k)
                             /\ hb' = [hb EXCEPT ![n] = RoundWrite(n, @, k)]
    /\ UNCHANGED <<frozen, conn, ends, backlog, peers, knownPeers, peerLock,
                   acceptor, handler, app, forwarded, readUpdates, counts>>

HeartbeatEnd(n) ==
    /\ hb[n].pc = "write" /\ hb[n].todo = {}
    /\ RoundEnd(n, hb[n])
    /\ hb' = [hb EXCEPT ![n] = Idle]
    /\ UNCHANGED <<frozen, conn, wire, backlog, knownPeers, acceptor, handler,
                   app, forwarded, readUpdates, counts>>

-----------------------------------------------------------------------------
(* The node's caller.                                                      *)

(* connect_to_peer: TcpStream::connect completes into the peer's backlog. *)
ConnectBegin(n, m) ==
    /\ app[n].pc = "idle" /\ n \in Callers /\ m # n /\ counts.conns < MaxConns
    /\ LET c == counts.conns + 1
       IN  /\ conn' = [conn EXCEPT ![c] = [cli |-> n, srv |-> m]]
           /\ ends' = [ends EXCEPT ![c] = [cli |-> TRUE, srv |-> TRUE]]
           /\ backlog' = [backlog EXCEPT ![m] = @ \cup {c}]
           /\ app' = [app EXCEPT ![n] = [Idle EXCEPT !.pc = "announce", !.c = c]]
    /\ counts' = [counts EXCEPT !.conns = @ + 1]
    /\ UNCHANGED <<frozen, wire, rst, peers, knownPeers, peerLock, acceptor,
                   handler, hb, forwarded, readUpdates>>

(* write_all of the Announce; on error the ? returns it and drops the     *)
(* stream.                                                                 *)
ConnectAnnounce(n) ==
    LET c == app[n].c
    IN  /\ app[n].pc = "announce" /\ WriteOutcome(n, c) # "wait"
        /\ IF WriteOutcome(n, c) = "ok"
           THEN /\ Write(n, c, Announce)
                /\ app' = [app EXCEPT ![n].pc = "insert"]
                /\ UNCHANGED ends
           ELSE /\ DropEnds(n, {c})
                /\ app' = [app EXCEPT ![n] = Idle]
                /\ UNCHANGED wire
        /\ UNCHANGED <<frozen, conn, backlog, peers, knownPeers, peerLock,
                       acceptor, handler, hb, forwarded, readUpdates, counts>>

(* peers.insert under the peer's address, dropping a stream it replaces,  *)
(* and known_peers.push.                                                   *)
ConnectInsert(n) ==
    LET c == app[n].c
        m == conn[c].srv
    IN  /\ app[n].pc = "insert" /\ peerLock[n] = "free"
        /\ peers' = [peers EXCEPT ![n] = MapPut(@, m, c)]
        /\ DropEnds(n, IF m \in DOMAIN peers[n] THEN {peers[n][m]} ELSE {})
        /\ knownPeers' = [knownPeers EXCEPT ![n] = Append(@, m)]
        /\ app' = [app EXCEPT ![n] = Idle]
        /\ UNCHANGED <<frozen, conn, wire, backlog, peerLock, acceptor,
                       handler, hb, forwarded, readUpdates, counts>>

BroadcastBegin(n, u) ==
    /\ app[n].pc = "idle" /\ n \in Callers /\ peerLock[n] = "free"
    /\ counts.broadcasts < MaxBroadcasts
    /\ peerLock' = [peerLock EXCEPT ![n] = "broadcast"]
    /\ app' = [app EXCEPT ![n] = RoundStart(n, u)]
    /\ counts' = [counts EXCEPT !.broadcasts = @ + 1]
    /\ UNCHANGED <<frozen, conn, wire, ends, rst, backlog, peers, knownPeers,
                   acceptor, handler, hb, forwarded, readUpdates>>

BroadcastWrite(n) ==
    /\ app[n].pc = "write"
    /\ \E k \in app[n].todo : /\ RoundWriteStep(n, app[n], k)
                              /\ app' = [app EXCEPT ![n] = RoundWrite(n, @, k)]
    /\ UNCHANGED <<frozen, conn, ends, backlog, peers, knownPeers, peerLock,
                   acceptor, handler, hb, forwarded, readUpdates, counts>>

BroadcastEnd(n) ==
    /\ app[n].pc = "write" /\ app[n].todo = {}
    /\ RoundEnd(n, app[n])
    /\ app' = [app EXCEPT ![n] = Idle]
    /\ UNCHANGED <<frozen, conn, wire, backlog, knownPeers, acceptor, handler,
                   hb, forwarded, readUpdates, counts>>

-----------------------------------------------------------------------------
(* Faults.  The network resets a connection (a route fails, a peer host   *)
(* reboots).  A node's process stops (a VM pause, SIGSTOP) and never      *)
(* resumes: its kernel still accepts connections and fills receive       *)
(* windows, but none of its tasks runs.                                    *)
NetworkReset(c) ==
    /\ conn[c] # NoConn /\ ~rst[c] /\ (ends[c].cli \/ ends[c].srv)
    /\ counts.resets < MaxResets
    /\ rst' = [rst EXCEPT ![c] = TRUE]
    /\ counts' = [counts EXCEPT !.resets = @ + 1]
    /\ UNCHANGED <<frozen, conn, wire, ends, backlog, peers, knownPeers,
                   peerLock, acceptor, handler, hb, app, forwarded,
                   readUpdates>>

Freeze(n) ==
    /\ n \in Freezable /\ ~frozen[n]
    /\ frozen' = [frozen EXCEPT ![n] = TRUE]
    /\ UNCHANGED <<conn, wire, ends, rst, backlog, peers, knownPeers,
                   peerLock, acceptor, handler, hb, app, forwarded,
                   readUpdates, counts>>

(* The tasks of a node, which run while its process does.                 *)
AcceptLoop(n) == ~frozen[n] /\ (AcceptTake(n) \/ AcceptInsert(n))

HeartbeatTask(n) ==
    ~frozen[n] /\ (HeartbeatBegin(n) \/ HeartbeatWrite(n) \/ HeartbeatEnd(n))

CallerTask(n) ==
    /\ ~frozen[n]
    /\ \/ ConnectAnnounce(n) \/ ConnectInsert(n)
       \/ BroadcastWrite(n) \/ BroadcastEnd(n)

HandlePeer(c) ==
    /\ handler[c] \in {"start", "reading"} /\ ~frozen[conn[c].srv]
    /\ HandlePeerTake(c) \/ HandlePeerRead(c) \/ HandlePeerEnd(c)

GossipNext ==
    \/ \E n \in GNodes :
          \/ AcceptLoop(n) \/ HeartbeatTask(n) \/ CallerTask(n)
          \/ ~frozen[n] /\ \E m \in GNodes : ConnectBegin(n, m)
          \/ ~frozen[n] /\ \E u \in Updates : BroadcastBegin(n, u)
          \/ Freeze(n)
    \/ \E c \in Conns : HandlePeer(c) \/ NetworkReset(c)

-----------------------------------------------------------------------------
=============================================================================
