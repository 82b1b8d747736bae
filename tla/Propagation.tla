----------------------------- MODULE Propagation -----------------------------
(***************************************************************************)
(* Merkle root propagation (src/tachyon-node/src/turbine/                  *)
(* oracle_propagation.rs).                                                 *)
(*                                                                         *)
(* Each node has a PropagationManager: the roots it has seen and an        *)
(* Arc<PropagationTree> of the nodes it knows.  A caller builds a          *)
(* PropagationTree of its own with new, add_node and update_stake and      *)
(* hands it to update_tree, which replaces the manager's; until then the   *)
(* tree is a local value, so the model takes the trees a caller can build  *)
(* in up to TreeOps calls as the inputs of update_tree.  propagate         *)
(* returns one (address, message) pair per target; the model puts them in  *)
(* flight to the target, where the network may lose or duplicate them and *)
(* the receiver calls propagate.  A root message is its root; addresses    *)
(* are the nodes' pubkeys.  The order of the targets (shuffled) is left    *)
(* out: the messages leave as one set.                                     *)
(***************************************************************************)
EXTENDS Naturals, FiniteSets, SequencesExt, TLC

CONSTANTS
    TNodes,   \* node pubkeys
    TRoots,   \* Merkle roots
    TStakes,  \* stakes a caller passes to add_node and update_stake
    Fanout,   \* FANOUT
    MaxHops,  \* MAX_HOPS
    TreeOps   \* bound on add_node and update_stake calls building a tree

VARIABLES
    trees,    \* node -> the manager's PropagationTree
    seen,     \* node -> seen_roots
    inFlight  \* messages sent and not yet delivered or lost: [to, root]

propagationVars == <<trees, seen, inFlight>>

(* PropagationTree::new: nodes in insertion order, stake_map a function    *)
(* on the pubkeys it holds.                                                 *)
NewTree(local) == [local |-> local, nodes |-> <<>>, stakeMap |-> <<>>]

(* add_node: stake_map.insert and nodes.push, a pubkey already there      *)
(* included.                                                               *)
AddNode(t, pk, s) ==
    [t EXCEPT !.stakeMap = (pk :> s) @@ @,
              !.nodes = Append(@, [pubkey |-> pk, stake |-> s])]

(* update_stake: stake_map.insert, and the first node with the pubkey, if *)
(* any, takes the new stake.                                               *)
UpdateStake(t, pk, s) ==
    LET i == SelectInSeq(t.nodes, LAMBDA nd : nd.pubkey = pk)
    IN  [t EXCEPT !.stakeMap = (pk :> s) @@ @,
                  !.nodes = IF i = 0 THEN @ ELSE [@ EXCEPT ![i].stake = s]]

(* The trees a caller can build from new(local) in up to k calls.          *)
RECURSIVE Built(_, _)
Built(local, k) ==
    IF k = 0 THEN {NewTree(local)}
    ELSE LET prev == Built(local, k - 1)
         IN  prev \cup {AddNode(t, pk, s) : t \in prev, pk \in TNodes, s \in TStakes}
                  \cup {UpdateStake(t, pk, s) : t \in prev, pk \in TNodes,
                                                s \in TStakes}

BuildableTrees == [n \in TNodes |-> Built(n, TreeOps)]

(* get_propagation_targets: the nodes sorted by stake, highest first      *)
(* (sort_by is stable, so ties keep insertion order), without the local   *)
(* node, the first max_targets of them.  The indices of the nodes taken.  *)
PropagationTargets(t, maxTargets) ==
    LET others == {i \in DOMAIN t.nodes : t.nodes[i].pubkey # t.local}
        ahead(j, i) == \/ t.nodes[j].stake > t.nodes[i].stake
                       \/ t.nodes[j].stake = t.nodes[i].stake /\ j < i
    IN  {i \in others : Cardinality({j \in others : ahead(j, i)}) < maxTargets}

(* get_tree_level: by the share of total stake the pubkey's stake_map      *)
(* entry holds; (stake as f64) / (total as f64) > 0.1 is 10 * stake >      *)
(* total for the small integers checked.                                   *)
GetTreeLevel(t, pk) ==
    LET stake == IF pk \in DOMAIN t.stakeMap THEN t.stakeMap[pk] ELSE 0
        total == FoldFunction(+, 0, t.stakeMap)
    IN  CASE total = 0 -> MaxHops
          [] 10 * stake > total -> 0
          [] 100 * stake > total -> 1
          [] 1000 * stake > total -> 2
          [] OTHER -> 3

(* get_children: the level only decides whether there are any.             *)
GetChildren(t, level) ==
    IF level >= MaxHops THEN {}
    ELSE PropagationTargets(t, IF Fanout <= Len(t.nodes) THEN Fanout
                               ELSE Len(t.nodes))

PropagationInit ==
    /\ trees = [n \in TNodes |-> NewTree(n)]
    /\ seen = [n \in TNodes |-> {}]
    /\ inFlight = {}

(* update_tree: the manager's tree becomes the one the caller built.       *)
UpdateTree(n, t) ==
    /\ trees' = [trees EXCEPT ![n] = t]
    /\ UNCHANGED <<seen, inFlight>>

(* mark_seen, called on its own.                                           *)
MarkSeen(n, r) ==
    /\ seen' = [seen EXCEPT ![n] = @ \cup {r}]
    /\ UNCHANGED <<trees, inFlight>>

(* propagate: nothing for a root already seen; otherwise mark_seen, then  *)
(* one message per target of the tree.  net is the network the sends      *)
(* join.                                                                   *)
Propagate(n, r, net) ==
    LET t == trees[n]
        sends == {[to |-> t.nodes[i].pubkey, root |-> r] :
                    i \in PropagationTargets(t, Fanout)}
    IN  IF r \in seen[n]
        THEN inFlight' = net /\ UNCHANGED <<trees, seen>>
        ELSE /\ seen' = [seen EXCEPT ![n] = @ \cup {r}]
             /\ inFlight' = net \cup sends
             /\ UNCHANGED trees

(* A node propagates a root of its own.                                    *)
Originate(n, r) == Propagate(n, r, inFlight)

(* A message reaches its node, which propagates it; a duplicate copy may  *)
(* stay in flight.                                                         *)
Receive(m) ==
    \/ Propagate(m.to, m.root, inFlight \ {m})
    \/ Propagate(m.to, m.root, inFlight)

Lose(m) ==
    /\ inFlight' = inFlight \ {m}
    /\ UNCHANGED <<trees, seen>>

PropagationNext ==
    \/ \E n \in TNodes : \E t \in BuildableTrees[n] : UpdateTree(n, t)
    \/ \E n \in TNodes, r \in TRoots : Originate(n, r) \/ MarkSeen(n, r)
    \/ \E m \in inFlight : Receive(m) \/ Lose(m)

=============================================================================
