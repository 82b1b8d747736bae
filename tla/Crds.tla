-------------------------------- MODULE Crds --------------------------------
(***************************************************************************)
(* The CRDS table and its push/pull exchange between nodes                *)
(* (src/tachyon-node/src/gossip/crds.rs, gossip/push_pull.rs).            *)
(*                                                                         *)
(* Each node keeps a table from CrdsLabel to a versioned value.  Values   *)
(* are ContactInfo, labelled by the originator's pubkey, so a label is a  *)
(* node and a value is the wallclock its originator stamped it with; a   *)
(* table maps every label to that wallclock, 0 for no entry.  insert      *)
(* keeps a value only if its wallclock is newer than the stored one and   *)
(* prunes the table to 80% of max_entries, oldest first, when it grows    *)
(* past max_entries.  A pull request carries the labels the sender holds; *)
(* the responder returns its values whose label is not among them; the    *)
(* requester inserts each.  A push carries the values newer than a       *)
(* caller's `since`.                                                       *)
(*                                                                         *)
(* The messages travel over an unreliable network: msgs is the set in     *)
(* flight, any of which may be lost, and they are taken in any order.     *)
(* No task of the node drives these operations; each is an action any     *)
(* node may take, as the spec's gossip overlay (section 4.2) would.       *)
(***************************************************************************)
EXTENDS Naturals, FiniteSets

CONSTANTS
    Nodes,       \* the nodes; each originates the ContactInfo label of its pubkey
    MaxEntries,  \* Crds::max_entries
    MaxClock,    \* bound on the wallclocks a node stamps
    MaxMsgs      \* bound on the messages in flight

VARIABLES
    table,   \* table[n][l]: wallclock of n's value for label l, 0 if none
    clock,   \* the last wallclock each node stamped on its own value
    msgs     \* messages in flight

crdsVars == <<table, clock, msgs>>

Labels == Nodes

Entries(t) == {l \in Labels : t[l] # 0}

CrdsInit ==
    /\ table = [n \in Nodes |-> [l \in Labels |-> 0]]
    /\ clock = [n \in Nodes |-> 0]
    /\ msgs = {}

-----------------------------------------------------------------------------
(* Crds.                                                                   *)

(* should_override: the newer wallclock wins.                              *)
ShouldOverride(existing, new) == new > existing

(* prune: sort by wallclock and remove the oldest len - 80% of            *)
(* max_entries; equal wallclocks fall in HashMap order, so any of them.    *)
Prune(t) ==
    LET es == Entries(t)
        k == IF Cardinality(es) > (MaxEntries * 80) \div 100
             THEN Cardinality(es) - (MaxEntries * 80) \div 100 ELSE 0
    IN  {[l \in Labels |-> IF l \in r THEN 0 ELSE t[l]] :
            r \in {r \in SUBSET es :
                      Cardinality(r) = k
                      /\ \A x \in r, y \in es \ r : t[x] <= t[y]}}

(* insert of the value <<l, wc>>: the tables it may leave.                 *)
Insert(t, l, wc) ==
    IF t[l] # 0 /\ ~ShouldOverride(t[l], wc) THEN {t}
    ELSE LET u == [t EXCEPT ![l] = wc]
         IN  IF Cardinality(Entries(u)) > MaxEntries THEN Prune(u) ELSE {u}

(* Inserting a vector of values one by one, in the order it arrived: any  *)
(* order, since the sender built it from its HashMap.                     *)
RECURSIVE InsertAll(_, _)
InsertAll(t, vs) ==
    IF vs = {} THEN {t}
    ELSE UNION {UNION {InsertAll(u, vs \ {v}) : u \in Insert(t, v[1], v[2])}
                   : v \in vs}

Values(t) == {<<l, t[l]>> : l \in Entries(t)}

-----------------------------------------------------------------------------
(* A node stamps a new ContactInfo of its own and inserts it.              *)
Originate(n) ==
    /\ clock[n] < MaxClock
    /\ clock' = [clock EXCEPT ![n] = @ + 1]
    /\ \E u \in Insert(table[n], n, clock[n] + 1) :
          table' = [table EXCEPT ![n] = u]
    /\ UNCHANGED msgs

Send(m) == Cardinality(msgs) < MaxMsgs /\ msgs' = msgs \cup {m}

(* PushGossip::create_push_message, to a peer select_peers returned.      *)
CreatePush(n, p, since) ==
    /\ n # p
    /\ LET vs == {v \in Values(table[n]) : v[2] > since}
       IN  vs # {} /\ Send([type |-> "push", to |-> p, vals |-> vs])
    /\ UNCHANGED <<table, clock>>

(* PullGossip::create_pull_request: the labels n holds, to peer p.        *)
CreatePullRequest(n, p) ==
    /\ n # p
    /\ Send([type |-> "pullreq", from |-> n, to |-> p,
             filter |-> Entries(table[n])])
    /\ UNCHANGED <<table, clock>>

(* A variant of ResponseValues that returns what the requester already    *)
(* has (mutant).                                                           *)
ResponseValuesKnown(t, filter) == {v \in Values(t) : v[1] \in filter}

(* process_pull_request: the values whose label is not in the filter.     *)
ResponseValues(t, filter) == {v \in Values(t) : v[1] \notin filter}

(* The peer answers a pull request with a PullResponse.                   *)
ProcessPullRequest(m) ==
    /\ m \in msgs /\ m.type = "pullreq"
    /\ msgs' = (msgs \ {m}) \cup
                 {[type |-> "pullresp", to |-> m.from,
                   vals |-> ResponseValues(table[m.to], m.filter)]}
    /\ UNCHANGED <<table, clock>>

(* process_pull_response, and the receipt of a push: insert each value.   *)
ProcessValues(m) ==
    /\ m \in msgs /\ m.type \in {"pullresp", "push"}
    /\ msgs' = msgs \ {m}
    /\ \E u \in InsertAll(table[m.to], m.vals) :
          table' = [table EXCEPT ![m.to] = u]
    /\ UNCHANGED clock

(* The network loses a message.                                            *)
Lose(m) ==
    /\ m \in msgs /\ msgs' = msgs \ {m}
    /\ UNCHANGED <<table, clock>>

CrdsNext ==
    \/ \E n \in Nodes : Originate(n)
    \/ \E n, p \in Nodes, s \in 0..MaxClock : CreatePush(n, p, s)
    \/ \E n, p \in Nodes : CreatePullRequest(n, p)
    \/ \E m \in msgs : ProcessPullRequest(m) \/ ProcessValues(m) \/ Lose(m)

-----------------------------------------------------------------------------
CrdsTypeOK ==
    /\ table \in [Nodes -> [Labels -> 0..MaxClock]]
    /\ clock \in [Nodes -> 0..MaxClock]

Known(n) == Entries(table[n])

(* Pull anti-entropy: once nodes stop stamping new values, every label    *)
(* some node holds ends up held by every node, though the network loses   *)
(* messages, as long as each node keeps pulling from each peer and not    *)
(* every message to a node is lost.  It rests on process_pull_request     *)
(* returning exactly the labels the requester lacks.                      *)
LabelsConverge == <>[](\A n, p \in Nodes : Known(n) = Known(p))
=============================================================================
