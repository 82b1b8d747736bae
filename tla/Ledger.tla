-------------------------------- MODULE Ledger --------------------------------
(***************************************************************************)
(* The node's price history ledger                                        *)
(* (src/tachyon-node/src/ledger/oracle_ledger.rs).                        *)
(*                                                                         *)
(* OracleLedger is one RocksDB database.  store_price writes the key      *)
(* "price:SYMBOL:TIMESTAMP", store_merkle_root the key "root:BATCH"; the  *)
(* numbers are formatted in decimal.  The model keeps a record as its key *)
(* (price, root and submitter fields are left out: no query tells them    *)
(* apart) and orders keys the way RocksDB's default comparator orders     *)
(* their bytes: "price:" before "root:", symbols by name (a symbol is its *)
(* rank in byte order, and no name is a prefix of another), numbers by    *)
(* their decimal digits, so 10 comes before 9.                            *)
(*                                                                         *)
(* prefix_iterator seeks to the prefix and, as the database sets no       *)
(* prefix extractor, runs on to the last key.  A root record read as a    *)
(* PriceRecord fails to deserialize (84 bytes, where a PriceRecord needs  *)
(* at least 96), and the query returns that error.                        *)
(***************************************************************************)
EXTENDS Naturals, Sequences, FiniteSets, SequencesExt

CONSTANTS
    LedgerSymbols,  \* symbols, as their ranks in byte order
    Timestamps,     \* timestamps of price records
    BatchNums,      \* batch numbers of Merkle root records
    Cutoffs         \* before_timestamp values passed to delete_old_prices

VARIABLES
    ledger,      \* the keys in the database
    storedKeys,  \* history: every key ever written
    deletable    \* history: keys a delete_old_prices call made eligible

ledgerVars == <<ledger, storedKeys, deletable>>

PriceKey(s, t) == [kind |-> "price", sym |-> s, ts |-> t]

RootKey(b) == [kind |-> "root", batch |-> b]

LedgerInit ==
    /\ ledger = {}
    /\ storedKeys = {}
    /\ deletable = {}

(* The decimal digits of n, most significant first, as format! prints it. *)
RECURSIVE Digits(_)
Digits(n) == IF n < 10 THEN <<n>> ELSE Digits(n \div 10) \o <<n % 10>>

(* Byte order of two digit strings: a proper prefix comes first.          *)
RECURSIVE DigitsLess(_, _)
DigitsLess(s, t) ==
    IF s = <<>> THEN t # <<>>
    ELSE IF t = <<>> THEN FALSE
    ELSE IF Head(s) # Head(t) THEN Head(s) < Head(t)
    ELSE DigitsLess(Tail(s), Tail(t))

DecimalLess(a, b) == DigitsLess(Digits(a), Digits(b))

(* RocksDB's bytewise order on the ledger's keys.                         *)
KeyLess(a, b) ==
    IF a.kind # b.kind THEN a.kind = "price"
    ELSE IF a.kind = "root" THEN DecimalLess(a.batch, b.batch)
    ELSE IF a.sym # b.sym THEN a.sym < b.sym
    ELSE DecimalLess(a.ts, b.ts)

(* Keys an iterator from IteratorMode::Start visits, in order.            *)
AllKeys == SetToSortSeq(ledger, KeyLess)

(* prefix_iterator("price:SYMBOL:"): every key from the prefix to the     *)
(* end of the database.                                                    *)
PrefixIter(sym) ==
    SetToSortSeq({k \in ledger : k.kind = "root" \/ k.sym >= sym}, KeyLess)

(* store_price: db.put of the record under its key.                      *)
StorePrice(sym, ts) ==
    /\ ledger' = ledger \cup {PriceKey(sym, ts)}
    /\ storedKeys' = storedKeys \cup {PriceKey(sym, ts)}
    /\ deletable' = deletable \ {PriceKey(sym, ts)}

(* store_merkle_root: db.put of the record under "root:BATCH".            *)
StoreMerkleRoot(b) ==
    /\ ledger' = ledger \cup {RootKey(b)}
    /\ storedKeys' = storedKeys \cup {RootKey(b)}
    /\ deletable' = deletable \ {RootKey(b)}

(* A variant of delete_old_prices that also deletes a price stamped at    *)
(* before_timestamp (mutant).                                             *)
DeleteOldPricesAtCutoff(before) ==
    LET old == SelectSeq(AllKeys, LAMBDA k : k.kind = "price" /\ k.ts <= before)
    IN  \E n \in 0..Len(old) :
           /\ ledger' = ledger \ ToSet(SubSeq(old, 1, n))
           /\ deletable' = deletable \cup
                             {k \in ledger : k.kind = "price" /\ k.ts < before}
           /\ UNCHANGED storedKeys

(* delete_old_prices: one pass over every key collects the price keys     *)
(* whose record is older than before_timestamp, in key order; then one    *)
(* db.delete each, stopping at the first that fails.  deletable records   *)
(* what the call may remove.                                               *)
DeleteOldPrices(before) ==
    LET old == SelectSeq(AllKeys, LAMBDA k : k.kind = "price" /\ k.ts < before)
    IN  \E n \in 0..Len(old) :
           /\ ledger' = ledger \ ToSet(SubSeq(old, 1, n))
           /\ deletable' = deletable \cup
                             {k \in ledger : k.kind = "price" /\ k.ts < before}
           /\ UNCHANGED storedKeys

LedgerNext ==
    \/ \E s \in LedgerSymbols, t \in Timestamps : StorePrice(s, t)
    \/ \E b \in BatchNums : StoreMerkleRoot(b)
    \/ \E c \in Cutoffs : DeleteOldPrices(c)

-----------------------------------------------------------------------------
(* The queries.  None changes the database; each is an operator on it.    *)

DeserializeError == [ok |-> FALSE]

NoRecord == [kind |-> "none"]

(* get_price_history's loop over the prefix iterator: keep a record in    *)
(* [start, end], stop after the first record later than end, fail on a    *)
(* key that is not a price record.                                         *)
RECURSIVE HistoryLoop(_, _, _, _)
HistoryLoop(keys, start, end, acc) ==
    IF keys = <<>> THEN [ok |-> TRUE, records |-> acc]
    ELSE LET k == Head(keys)
             kept == IF start <= k.ts /\ k.ts <= end THEN Append(acc, k) ELSE acc
         IN  IF k.kind = "root" THEN DeserializeError
             ELSE IF k.ts > end THEN [ok |-> TRUE, records |-> kept]
             ELSE HistoryLoop(Tail(keys), start, end, kept)

GetPriceHistory(sym, start, end) == HistoryLoop(PrefixIter(sym), start, end, <<>>)

(* get_latest_price: the first record with the greatest timestamp over    *)
(* the whole iteration, or the error of the first root record.            *)
GetLatestPrice(sym) ==
    IF \E i \in DOMAIN PrefixIter(sym) : PrefixIter(sym)[i].kind = "root"
    THEN DeserializeError
    ELSE [ok |-> TRUE,
          latest |-> FoldLeft(LAMBDA l, k :
                                 IF l = NoRecord \/ k.ts > l.ts THEN k ELSE l,
                              NoRecord, PrefixIter(sym))]

(* get_merkle_root and get_merkle_roots_range: point lookups.             *)
GetMerkleRoot(b) == RootKey(b) \in ledger

GetMerkleRootsRange(first, last) ==
    SelectSeq([i \in 1..(last - first + 1) |-> first + i - 1], GetMerkleRoot)

(* get_symbols: the second ':'-separated field of every price key.        *)
GetSymbols == {k.sym : k \in {j \in ledger : j.kind = "price"}}

(* get_stats: price and root key counts.                                   *)
GetStats ==
    [price_count |-> Cardinality({k \in ledger : k.kind = "price"}),
     root_count |-> Cardinality({k \in ledger : k.kind = "root"})]

-----------------------------------------------------------------------------
(* Whatever store_price, store_merkle_root and delete_old_prices calls    *)
(* run, each of which may fail part way through its deletes, a key        *)
(* missing from the database is one some delete_old_prices call found     *)
(* older than its cutoff and no store wrote again: Merkle roots and       *)
(* prices at or after the cutoff are never pruned.                         *)
PruningDeletesOnlyOldPrices == storedKeys \ ledger \subseteq deletable
=============================================================================
