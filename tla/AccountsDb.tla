----------------------------- MODULE AccountsDb ------------------------------
(***************************************************************************)
(* The node's account store                                               *)
(* (src/tachyon-node/src/accounts_db/oracle_storage.rs).                  *)
(*                                                                         *)
(* AccountsDb is a RocksDB database with an AccountCache in front of it.  *)
(* Its methods take &self, so several threads may call them at once; the  *)
(* cache's RwLock is taken for each single get, insert, remove or clear,   *)
(* and each RocksDB call is atomic, but nothing holds a lock across a     *)
(* method.  A thread's pc says which step of which method it takes next.  *)
(* An account is its pubkey (a key) and its contents (a value);           *)
(* serialisation is left out.  Every RocksDB call may fail, and the       *)
(* method then returns the error at once; a call that fails before it     *)
(* changes anything (a failed db.put or db.delete, a cache hit of load)   *)
(* is a step the model leaves out.                                         *)
(***************************************************************************)
EXTENDS Naturals, Sequences, FiniteSets, Functions

CONSTANTS
    DbThreads,    \* threads calling the store
    AccountKeys,  \* account pubkeys
    AccountVals,  \* account contents
    MaxSize,      \* max_size of the AccountCache
    MaxBatch      \* bound on the length of a store_batch slice

VARIABLES
    db,        \* key -> contents stored in RocksDB, or NoAccount
    acache,    \* the cache's HashMap: a function on the keys it holds
    pc,        \* thread -> next step
    opKey,     \* thread -> key of the call in progress
    opVal,     \* thread -> contents to write to the cache
    batchLeft, \* thread -> accounts of store_batch not yet cached
    batchAll   \* thread -> the whole slice passed to store_batch

dbVars == <<db, acache, pc, opKey, opVal, batchLeft, batchAll>>

NoAccount == "none"

Accounts == [key : AccountKeys, val : AccountVals]

DbInit ==
    /\ db = [k \in AccountKeys |-> NoAccount]
    /\ acache = [k \in {} |-> NoAccount]
    /\ pc = [t \in DbThreads |-> "idle"]
    /\ opKey = [t \in DbThreads |-> NoAccount]
    /\ opVal = [t \in DbThreads |-> NoAccount]
    /\ batchLeft = [t \in DbThreads |-> <<>>]
    /\ batchAll = [t \in DbThreads |-> <<>>]

(* The cache with key k mapped to v.                                       *)
Put(f, k, v) == [x \in DOMAIN f \cup {k} |-> IF x = k THEN v ELSE f[x]]

(* The cache without key k.                                                *)
Drop(f, k) == [x \in DOMAIN f \ {k} |-> f[x]]

(* A variant of insert that evicts only when the cache is over max_size   *)
(* (mutant).                                                               *)
CacheInsertLate(c, k, v) ==
    IF Cardinality(DOMAIN c) > MaxSize /\ DOMAIN c # {}
    THEN {Put(Drop(c, e), k, v) : e \in DOMAIN c}
    ELSE {Put(c, k, v)}

(* AccountCache::insert: when len >= max_size the first key the HashMap   *)
(* iterates (any key, the inserted one included) is removed, then the     *)
(* account is inserted.  The set of caches the call may leave.            *)
CacheInsert(c, k, v) ==
    IF Cardinality(DOMAIN c) >= MaxSize /\ DOMAIN c # {}
    THEN {Put(Drop(c, e), k, v) : e \in DOMAIN c}
    ELSE {Put(c, k, v)}

Finish(t) ==
    /\ pc' = [pc EXCEPT ![t] = "idle"]
    /\ opKey' = [opKey EXCEPT ![t] = NoAccount]
    /\ opVal' = [opVal EXCEPT ![t] = NoAccount]

(* store: db.put, returning on error, then cache.insert.                  *)
StorePut(t, k, v) ==
    /\ pc[t] = "idle"
    /\ db' = [db EXCEPT ![k] = v]
    /\ pc' = [pc EXCEPT ![t] = "store_insert"]
    /\ opKey' = [opKey EXCEPT ![t] = k]
    /\ opVal' = [opVal EXCEPT ![t] = v]
    /\ UNCHANGED <<acache, batchLeft, batchAll>>

(* The cache.insert that ends store, or load after a db hit.               *)
CacheInsertStep(t) ==
    /\ pc[t] \in {"store_insert", "load_insert"}
    /\ acache' \in CacheInsert(acache, opKey[t], opVal[t])
    /\ Finish(t)
    /\ UNCHANGED <<db, batchLeft, batchAll>>

(* load: cache.get returns a hit at once; on a miss db.get follows.       *)
LoadGet(t, k) ==
    /\ pc[t] = "idle" /\ k \notin DOMAIN acache
    /\ pc' = [pc EXCEPT ![t] = "load_db"]
    /\ opKey' = [opKey EXCEPT ![t] = k]
    /\ UNCHANGED <<db, acache, opVal, batchLeft, batchAll>>

(* load, db.get: an error or no account ends the call; an account read    *)
(* is put in the cache by a later step.                                   *)
LoadDb(t) ==
    /\ pc[t] = "load_db"
    /\ IF db[opKey[t]] = NoAccount
       THEN Finish(t)
       ELSE \/ /\ pc' = [pc EXCEPT ![t] = "load_insert"]
               /\ opVal' = [opVal EXCEPT ![t] = db[opKey[t]]]
               /\ UNCHANGED opKey
            \/ Finish(t)
    /\ UNCHANGED <<db, acache, batchLeft, batchAll>>

(* delete: db.delete, returning on error, then cache.remove.              *)
DeleteDb(t, k) ==
    /\ pc[t] = "idle"
    /\ db' = [db EXCEPT ![k] = NoAccount]
    /\ pc' = [pc EXCEPT ![t] = "delete_remove"]
    /\ opKey' = [opKey EXCEPT ![t] = k]
    /\ UNCHANGED <<acache, opVal, batchLeft, batchAll>>

DeleteRemove(t) ==
    /\ pc[t] = "delete_remove"
    /\ acache' = Drop(acache, opKey[t])
    /\ Finish(t)
    /\ UNCHANGED <<db, batchLeft, batchAll>>

(* store_batch: each account is put in the WriteBatch and in the cache,   *)
(* one cache.insert per account; then db.write applies the batch          *)
(* atomically, or fails and the method returns the error.                 *)
StoreBatchBegin(t, accts) ==
    /\ pc[t] = "idle"
    /\ pc' = [pc EXCEPT ![t] = "batch"]
    /\ batchLeft' = [batchLeft EXCEPT ![t] = accts]
    /\ batchAll' = [batchAll EXCEPT ![t] = accts]
    /\ UNCHANGED <<db, acache, opKey, opVal>>

StoreBatchInsert(t) ==
    /\ pc[t] = "batch" /\ batchLeft[t] # <<>>
    /\ acache' \in CacheInsert(acache, Head(batchLeft[t]).key,
                               Head(batchLeft[t]).val)
    /\ batchLeft' = [batchLeft EXCEPT ![t] = Tail(@)]
    /\ UNCHANGED <<db, pc, opKey, opVal, batchAll>>

(* The batch's puts in order: a later put of a key overwrites an earlier. *)
ApplyBatch(d, accts) ==
    [k \in DOMAIN d |->
        LET is == {i \in DOMAIN accts : accts[i].key = k}
        IN  IF is = {} THEN d[k]
            ELSE accts[CHOOSE i \in is : \A j \in is : j <= i].val]

StoreBatchWrite(t) ==
    /\ pc[t] = "batch" /\ batchLeft[t] = <<>>
    /\ \/ db' = ApplyBatch(db, batchAll[t])
       \/ UNCHANGED db
    /\ pc' = [pc EXCEPT ![t] = "idle"]
    /\ batchAll' = [batchAll EXCEPT ![t] = <<>>]
    /\ UNCHANGED <<acache, opKey, opVal, batchLeft>>

(* clear_cache: one cache.clear.                                           *)
ClearCache ==
    /\ acache' = [k \in {} |-> NoAccount]
    /\ UNCHANGED <<db, pc, opKey, opVal, batchLeft, batchAll>>

BatchSeqs == UNION {[1..n -> Accounts] : n \in 1..MaxBatch}

DbNext ==
    \/ \E t \in DbThreads, k \in AccountKeys, v \in AccountVals : StorePut(t, k, v)
    \/ \E t \in DbThreads : CacheInsertStep(t) \/ LoadDb(t) \/ DeleteRemove(t)
                              \/ StoreBatchInsert(t) \/ StoreBatchWrite(t)
    \/ \E t \in DbThreads, k \in AccountKeys : LoadGet(t, k) \/ DeleteDb(t, k)
    \/ \E t \in DbThreads, b \in BatchSeqs : StoreBatchBegin(t, b)
    \/ ClearCache

-----------------------------------------------------------------------------
(* The cache never holds more than max_size accounts (at least one, since  *)
(* insert only evicts from a non-empty map), whatever store, load and     *)
(* store_batch calls of several threads insert in between.                *)
CacheBounded == Cardinality(DOMAIN acache) <= IF MaxSize = 0 THEN 1 ELSE MaxSize
=============================================================================
