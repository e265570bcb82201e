---------------------------- MODULE BoltStorage ----------------------------
(***************************************************************************)
(* internal/storage/boltdb.go: the clipboard history in a bbolt file, and  *)
(* the processes that open it (internal/cli/root.go and internal/cli/cmd). *)
(*                                                                         *)
(* The file survives; the BoltStorage object (byte counter and limits)     *)
(* lives in the one process that holds bbolt's file lock.  bbolt runs one  *)
(* read-write transaction at a time and commits it atomically, so each     *)
(* Update is one action.  A commit may fail (disk full): the file is then  *)
(* unchanged, but the counter in memory is not rolled back.                *)
(*                                                                         *)
(* The bucket is a set of contents: a value is filed under the key its own *)
(* Created gives, so no two contents in it share a key (TypeOK).           *)
(***************************************************************************)
EXTENDS ContentKeys, FiniteSets

CONSTANTS
    ConfigMaxSize,      \* storage.max_size of the configuration file
    DefaultMaxSize,     \* defaultMaxSize
    DefaultKeepItems,   \* the package constant keepItems
    MaxSaves,           \* bound: calls of SaveContent
    MaxFaults,          \* bound: transactions whose commit fails
    NoContent           \* a nil *types.ClipboardContent

ASSUME StorageAssumption ==
    /\ ConfigMaxSize \in Int
    /\ DefaultMaxSize \in Nat \ {0}
    /\ DefaultKeepItems \in Nat \ {0}
    /\ MaxSaves \in Nat
    /\ MaxFaults \in Nat
    /\ NoContent \notin Content

VARIABLES
    db,          \* contents in the bucket, as last committed
    owner,       \* the process that holds the file open, or "none"
    cacheSize,   \* BoltStorage.cacheSize
    maxSize,     \* BoltStorage.maxSize
    keepItems,   \* BoltStorage.keepItems
    now,         \* instant of the newest capture
    captured,    \* content last handed to SaveContent by the open process
    lastSaved,   \* history: content of the last committed SaveContent
    saves,       \* number of calls of SaveContent so far
    faults       \* number of failed commits so far

handle == <<owner, cacheSize, maxSize, keepItems>>
vars == <<db, handle, now, captured, lastSaved, saves, faults>>

(***************************************************************************)
(* Processes and the StorageConfig each passes to NewBoltStorage.  No      *)
(* command sets KeepItems, so storage.keep_items of the configuration file *)
(* has no effect; history sets no MaxSize either.  Go's zero values are    *)
(* replaced by the defaults.                                               *)
(***************************************************************************)
Processes == {"daemon", "run", "history", "flush"}
Monitors == {"daemon", "run"}           \* the two that start a Monitor
Closers == {"run", "history", "flush"}  \* the ones that reach store.Close()

StorageConfig(p) ==
    [MaxSize   |-> IF p = "history" THEN 0 ELSE ConfigMaxSize,
     KeepItems |-> 0]

OrDefault(value, default) == IF value <= 0 THEN default ELSE value
-----------------------------------------------------------------------------
(***************************************************************************)
(* The bucket.                                                             *)
(***************************************************************************)
Newer(c, d) == {e \in d : KeyLess(Key(c), Key(e))}

\* Ways a coding mistake could change the selection below.
FlushNewestInstead(d, n) ==
    {c \in d : Cardinality({e \in d : KeyLess(Key(e), Key(c))}) >= n}
FlushOneTooMany(d, n) == {c \in d : Cardinality(Newer(c, d)) >= n - 1}
FlushEverything(d, n) == d

\* The contents outside the n with the largest keys.
collectItemsToFlush(d, n) == {c \in d : Cardinality(Newer(c, d)) >= n}

\* Sizes are counted as sets of bytes: byte i of content c is <<c, i>>.
DataBytes(d) == UNION {{c} \X (1..c.len) : c \in d}
ValueBytes(d) == UNION {{c} \X (1..EncodedLen(c)) : c \in d}
KeyValueBytes(d) == UNION {{c} \X (1..(KeyLen + EncodedLen(c))) : c \in d}

\* What a mistaken, though plausible, accounting would subtract.
FreedKeysAndValues(items) == Cardinality(KeyValueBytes(items))

\* totalFreed of deleteItemsFromBucket: the raw data only.
FreedBytes(items) == Cardinality(DataBytes(items))

Put(d, c) == {e \in d : Key(e) # Key(c)} \cup {c}

\* Bytes of the values, and of the keys and values, in bucket d.
StoredBytes(d) == Cardinality(ValueBytes(d))
BucketBytes(d) == Cardinality(KeyValueBytes(d))

\* Cursor.Last: the content under the largest key.
GetLatestContent(d) ==
    IF d = {} THEN NoContent ELSE CHOOSE c \in d : Newer(c, d) = {}
-----------------------------------------------------------------------------
Init ==
    /\ db = {}
    /\ owner = "none"
    /\ cacheSize = 0 /\ maxSize = 0 /\ keepItems = 0
    /\ now = [sec |-> 0, frac |-> 0]
    /\ captured = NoContent
    /\ lastSaved = NoContent
    /\ saves = 0
    /\ faults = 0

\* The defaulting of the configuration, left out.
OpenWithoutDefaults(p) ==
    /\ owner = "none"
    /\ owner' = p
    /\ maxSize' = StorageConfig(p).MaxSize
    /\ keepItems' = StorageConfig(p).KeepItems
    /\ cacheSize' = BucketBytes(db)
    /\ captured' = NoContent
    /\ UNCHANGED <<db, now, lastSaved, saves, faults>>

\* bbolt's file lock admits one process; an open that finds the lock taken
\* times out after a second and changes nothing.
NewBoltStorage(p) ==
    /\ owner = "none"
    /\ owner' = p
    /\ maxSize' = OrDefault(StorageConfig(p).MaxSize, DefaultMaxSize)
    /\ keepItems' = OrDefault(StorageConfig(p).KeepItems, DefaultKeepItems)
    /\ cacheSize' = BucketBytes(db)
    /\ captured' = NoContent
    /\ UNCHANGED <<db, now, lastSaved, saves, faults>>

\* The transaction commits, or fails and leaves the file as it was.
Commit(newDb) ==
    \/ db' = newDb /\ UNCHANGED faults
    \/ faults < MaxFaults /\ faults' = faults + 1 /\ UNCHANGED db

\* The limit tested before the new content is counted.
FlushedTooLate(c) ==
    IF cacheSize > maxSize THEN collectItemsToFlush(db, keepItems) ELSE {}

FlushedBySave(c) ==
    IF cacheSize + EncodedLen(c) > maxSize
    THEN collectItemsToFlush(db, keepItems)
    ELSE {}

\* A Monitor saves a fresh capture, or once more the capture it saved last (a
\* clipboard cache hit repeats the Created of the first read).
SaveContent(c) ==
    /\ owner \in Monitors
    /\ saves < MaxSaves
    /\ Before(now, c) \/ c = captured
    /\ LET flushed == FlushedBySave(c)
       IN /\ cacheSize' = cacheSize + EncodedLen(c) - FreedBytes(flushed)
          /\ Commit(Put(db \ flushed, c))
    /\ lastSaved' = IF faults' = faults THEN c ELSE lastSaved
    /\ now' = [sec |-> c.sec, frac |-> c.frac]
    /\ captured' = c
    /\ saves' = saves + 1
    /\ UNCHANGED <<owner, maxSize, keepItems>>

\* The flush command's explicit call.
FlushCache ==
    /\ owner = "flush"
    /\ LET flushed == collectItemsToFlush(db, keepItems)
       IN /\ cacheSize' = cacheSize - FreedBytes(flushed)
          /\ Commit(db \ flushed)
    /\ UNCHANGED <<owner, maxSize, keepItems, now, captured, lastSaved, saves>>

\* FlushCache once more (an error is only logged), then db.Close.
Close ==
    /\ owner \in Closers
    /\ Commit(db \ collectItemsToFlush(db, keepItems))
    /\ owner' = "none"
    /\ cacheSize' = 0 /\ maxSize' = 0 /\ keepItems' = 0
    /\ UNCHANGED <<now, captured, lastSaved, saves>>

\* The signal handler's os.Exit(0), or a crash: no Close, no flush.
Exit ==
    /\ owner # "none"
    /\ owner' = "none"
    /\ cacheSize' = 0 /\ maxSize' = 0 /\ keepItems' = 0
    /\ UNCHANGED <<db, now, captured, lastSaved, saves, faults>>

Next ==
    \/ \E p \in Processes : NewBoltStorage(p)
    \/ \E c \in Content : SaveContent(c)
    \/ FlushCache
    \/ Close
    \/ Exit

Spec == Init /\ [][Next]_vars
-----------------------------------------------------------------------------
(***************************************************************************)
(* Properties.                                                             *)
(***************************************************************************)

\* Every variable has its type; the file never holds two contents under one
\* key; an open handle has positive limits whatever configuration it was given.
TypeOK ==
    /\ db \subseteq Content
    /\ \A c, e \in db : Key(c) = Key(e) => c = e
    /\ owner \in Processes \cup {"none"}
    /\ cacheSize \in Int
    /\ maxSize \in Nat
    /\ keepItems \in Nat
    /\ owner # "none" => maxSize > 0 /\ keepItems = DefaultKeepItems
    /\ now \in Instant
    /\ captured \in Content \cup {NoContent}
    /\ lastSaved \in Content \cup {NoContent}
    /\ saves \in 0..MaxSaves
    /\ faults \in 0..MaxFaults

\* GetLatestContent, which seeds a restarted Monitor's duplicate check and
\* answers history --most-recent, returns the content of the last save that
\* committed: across flushes, exits, reopenings and failed commits, no
\* content filed earlier outlives it at the end of the key order.
LatestIsLastSaved ==
    lastSaved # NoContent => GetLatestContent(db) = lastSaved

\* Whatever removes contents (a save over the limit, the flush command, a
\* Close) removes only contents below keepItems others that it leaves behind.
FlushKeepsNewest ==
    [][\A c \in db \ db' :
          \/ \E e \in db' : Key(e) = Key(c)
          \/ Cardinality(Newer(c, db')) >= keepItems]_vars

\* The counter that decides when to flush never understates the bytes of the
\* values in the file, however saves, re-saves of one key, flushes and
\* reopenings by other commands interleave (as long as commits succeed).
CounterCoversData ==
    owner # "none" /\ faults = 0 => cacheSize >= StoredBytes(db)

\* Each committed save leaves the values within maxSize, or has trimmed the
\* file to keepItems contents and the new one.
SaveRespectsLimit ==
    [][saves' # saves /\ faults' = 0
         => \/ StoredBytes(db') <= maxSize
            \/ Cardinality(db') <= keepItems + 1]_vars

\* The file implements the abstract bounded history: contents disappear
\* oldest first and never beyond the last DefaultKeepItems.
History == INSTANCE BoundedHistory
             WITH Contents <- Content, Keep <- DefaultKeepItems, items <- db
ImplementsHistory == History!Spec

\* A save evicts contents only when the keys and values really in the file,
\* with the new content, exceed maxSize (CACHING.md: flushing is triggered
\* "when total size exceeds the configured limit").
EvictsOnlyOverLimit ==
    [][saves' # saves /\ (\E c \in db \ db' : \A e \in db' : Key(e) # Key(c))
         => BucketBytes(db \cup {captured'}) > maxSize]_vars

=============================================================================
