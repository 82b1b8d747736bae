---------------------------- MODULE OracleTower ----------------------------
(***************************************************************************)
(* The vote tower of one oracle node: OracleTower in                      *)
(* src/tachyon-node/src/consensus/oracle_tower.rs.                         *)
(*                                                                         *)
(* A vote is for a Merkle root at a batch number.  The tower keeps the     *)
(* recent votes (vote_state.votes, most recent first), the replay-        *)
(* protection map vote_history, the lockouts with their confirmation      *)
(* counts, and the confirmed root batch.  Two operations change it:       *)
(* record_vote and update_root.  Timestamps, the node key and the fork-   *)
(* switch thresholds are left out: no operation that changes state reads  *)
(* them.                                                                   *)
(***************************************************************************)
EXTENDS Naturals, Sequences

CONSTANTS
    Slots,      \* the batch numbers offered to the tower
    Roots,      \* the Merkle roots, as model values
    NoRoot,     \* "no entry" in vote_history
    NoBatch,    \* Option::None for root_batch and last_voted_batch
    TowerCap,   \* the 32 of push_vote and update_lockouts
    RootCandidates(_)  \* the batches a caller may pass to update_root,
                       \* given the current root_batch

ASSUME Slots \subseteq Nat /\ TowerCap \in Nat \ {0}
ASSUME NoRoot \notin Roots /\ NoBatch \notin Slots

VARIABLES
    votes,          \* vote_state.votes: Seq of [batch_number, root], front first
    last_voted,     \* vote_state.last_voted_batch
    root_batch,     \* vote_state.root_batch
    vote_history,   \* vote_history: Slots -> Roots \cup {NoRoot}
    lockouts,       \* lockouts: Seq of [batch_number, confirmation_count]
    signed          \* every (batch, root) the tower ever accepted; history only

vars == <<votes, last_voted, root_batch, vote_history, lockouts, signed>>

Vote    == [batch_number : Slots, root : Roots]
Lockout == [batch_number : Slots, confirmation_count : Nat \ {0}]

(* Lockout::is_locked_out_at: a lockout at slot b with count c forbids    *)
(* every batch below b + 2^c.                                             *)
IsLockedOutAt(l, b) == b < l.batch_number + 2 ^ l.confirmation_count

(* OracleTower::is_locked_out                                             *)
IsLockedOut(b) == \E i \in 1..Len(lockouts) : IsLockedOutAt(lockouts[i], b)

(* A variant of CanVote that forgets to compare the roots (mutant).       *)
CanVoteAnyRoot(b, r) ==
    IF vote_history[b] # NoRoot THEN TRUE ELSE ~IsLockedOut(b)

(* OracleTower::can_vote: a batch already in vote_history may be voted    *)
(* again only for the same root, and then without a lockout check; a new  *)
(* batch may be voted when no lockout is active at it.                    *)
CanVote(b, r) ==
    IF vote_history[b] # NoRoot
    THEN vote_history[b] = r
    ELSE ~IsLockedOut(b)

(* Keep the last n elements of s (Vec::drain(0..len-n)).                  *)
KeepLast(s, n) == IF Len(s) > n THEN SubSeq(s, Len(s) - n + 1, Len(s)) ELSE s

(* Keep the first n elements of s (VecDeque::truncate(n)).                *)
KeepFirst(s, n) == IF Len(s) > n THEN SubSeq(s, 1, n) ELSE s

(* A variant of PushVote without the truncation (mutant).                 *)
PushVoteUncapped(vs, v) == <<v>> \o vs

(* TowerVoteState::push_vote: the new vote goes to the front and the      *)
(* deque is cut to its TowerCap most recent votes.                        *)
PushVote(vs, v) == KeepFirst(<<v>> \o vs, TowerCap)

(* The first two steps of update_lockouts: push Lockout::new(b) with      *)
(* count 1 and add one to the count of every lockout at a lower batch.    *)
BumpLockouts(ls, b) ==
    LET pushed == Append(ls, [batch_number |-> b, confirmation_count |-> 1])
    IN  [i \in 1..Len(pushed) |->
           IF pushed[i].batch_number < b
           THEN [pushed[i] EXCEPT !.confirmation_count = @ + 1]
           ELSE pushed[i]]

(* A variant of UpdateLockouts that keeps one lockout too many (mutant).  *)
UpdateLockoutsKeepOneMore(ls, b) == KeepLast(BumpLockouts(ls, b), TowerCap + 1)

(* OracleTower::update_lockouts: bump, then keep the last TowerCap.       *)
UpdateLockouts(ls, b) == KeepLast(BumpLockouts(ls, b), TowerCap)

(* OracleTower::update_root: lockouts and vote_history entries below the  *)
(* new root batch b are dropped.                                          *)
RetainLockouts(ls, b) == SelectSeq(ls, LAMBDA l : l.batch_number >= b)

(* A variant of RetainHistory that also drops the entry at b (mutant).    *)
RetainHistoryAbove(h, b) == [s \in Slots |-> IF s > b THEN h[s] ELSE NoRoot]

RetainHistory(h, b) == [s \in Slots |-> IF s >= b THEN h[s] ELSE NoRoot]

Init ==
    /\ votes = <<>>
    /\ last_voted = NoBatch
    /\ root_batch = NoBatch
    /\ vote_history = [s \in Slots |-> NoRoot]
    /\ lockouts = <<>>
    /\ signed = {}

(* OracleTower::record_vote(b, r): refused (Err, no change) unless        *)
(* can_vote; otherwise push_vote, insert into vote_history, and           *)
(* update_lockouts, in that order.                                        *)
RecordVote(b, r) ==
    /\ CanVote(b, r)
    /\ votes' = PushVote(votes, [batch_number |-> b, root |-> r])
    /\ last_voted' = b
    /\ vote_history' = [vote_history EXCEPT ![b] = r]
    /\ lockouts' = UpdateLockouts(lockouts, b)
    /\ signed' = signed \cup {<<b, r>>}
    /\ UNCHANGED root_batch

(* OracleTower::update_root(b): set the root batch and prune below it.   *)
UpdateRoot(b) ==
    /\ root_batch' = b
    /\ lockouts' = RetainLockouts(lockouts, b)
    /\ vote_history' = RetainHistory(vote_history, b)
    /\ UNCHANGED <<votes, last_voted, signed>>

Next ==
    \/ \E b \in Slots, r \in Roots : RecordVote(b, r)
    \/ \E b \in RootCandidates(root_batch) : UpdateRoot(b)

Spec == Init /\ [][Next]_vars

-----------------------------------------------------------------------------

TypeOK ==
    /\ votes \in Seq(Vote) /\ Len(votes) <= TowerCap
    /\ last_voted \in Slots \cup {NoBatch}
    /\ root_batch \in Slots \cup {NoBatch}
    /\ vote_history \in [Slots -> Roots \cup {NoRoot}]
    /\ lockouts \in Seq(Lockout) /\ Len(lockouts) <= TowerCap
    /\ signed \subseteq Slots \X Roots

(* The node never signs two different roots for the same batch number.    *)
(* This is what replay protection in can_vote and the lockouts of         *)
(* update_lockouts exist for; update_root drops both below the new root.  *)
NoEquivocation ==
    \A b \in Slots, r1, r2 \in Roots :
        (<<b, r1>> \in signed /\ <<b, r2>> \in signed) => r1 = r2

(* The node never signs two different roots for a batch that is still at *)
(* or above its root batch: what update_root leaves in vote_history and  *)
(* the lockouts keeps protecting every batch it has not pruned.           *)
NoEquivocationAboveRoot ==
    \A b \in Slots, r1, r2 \in Roots :
        (/\ <<b, r1>> \in signed /\ <<b, r2>> \in signed
         /\ (root_batch = NoBatch \/ b >= root_batch)) => r1 = r2

(* Every vote still in the votes deque at or above the root batch is the  *)
(* root vote_history holds for its batch: pruning in update_root never    *)
(* lets the history forget a batch the tower may still be asked about.    *)
RecentVotesMatchHistory ==
    \A i \in 1..Len(votes) :
        (root_batch = NoBatch \/ votes[i].batch_number >= root_batch)
            => vote_history[votes[i].batch_number] = votes[i].root

(* A vote for a batch the tower has not voted for yet is above every      *)
(* batch it remembers voting for: the lockouts pushed by update_lockouts  *)
(* keep the tower from going back to an older batch.                      *)
NoBackwardVote ==
    [][\A b \in Slots, r \in Roots :
          (vote_history[b] = NoRoot /\ RecordVote(b, r))
              => \A c \in Slots : vote_history[c] # NoRoot => c < b]_vars
=============================================================================
