------------------------- MODULE BoltStorageProofs -------------------------
(***************************************************************************)
(* TLAPS proofs about BoltStorage: type correctness, the order in which    *)
(* contents are flushed, the byte counter and the size limit for every     *)
(* value of the constants; and, for a device that stays in one zone other  *)
(* than UTC, the content GetLatestContent returns and the refinement of    *)
(* BoundedHistory.                                                         *)
(***************************************************************************)
EXTENDS BoltStorage, FiniteSetTheorems, WellFoundedInduction, TLAPS

(***************************************************************************)
(* Keys.                                                                   *)
(***************************************************************************)

\* The byte after the seconds is one of the four that RFC3339Nano can put.
LEMMA MarkType ==
    ASSUME NEW c \in Content
    PROVE  Mark(c) \in 1..4
  BY ContentAssumption DEF Content, Mark

\* A key text compares as four integers.
KeyText == Int \X Int \X Int \X Int

\* The key of a content is such a text.
LEMMA KeyType ==
    ASSUME NEW c \in Content
    PROVE  Key(c) \in KeyText
  <1>1. c.offset \in Offsets /\ c.sec \in 0..MaxSec
    BY DEF Content
  <1>2. c.offset \in Int
    BY <1>1, ContentAssumption
  <1>3. c.sec \in Int
    BY <1>1, ContentAssumption
  <1>4. c.sec + c.offset \in Int /\ Sign(c.offset) \in Int /\ Magnitude(c.offset) \in Int
    BY <1>2, <1>3 DEF Sign, Magnitude
  <1>5. Mark(c) \in Int
    BY MarkType
  <1>. QED
    BY <1>4, <1>5 DEF Key, KeyText

\* bytes.Compare orders the keys of two contents one way, the other, or finds
\* them equal.
LEMMA KeyTotal ==
    ASSUME NEW a \in Content, NEW b \in Content
    PROVE  \/ KeyLess(Key(a), Key(b))
           \/ Key(a) = Key(b)
           \/ KeyLess(Key(b), Key(a))
  <1>1. \A j, k \in KeyText : KeyLess(j, k) \/ j = k \/ KeyLess(k, j)
    BY DEF KeyText, KeyLess
  <1>. QED
    BY <1>1, KeyType

\* No key text sorts before itself.
LEMMA KeyIrreflexive ==
    ASSUME NEW a \in Content
    PROVE  ~KeyLess(Key(a), Key(a))
  <1>1. \A k \in KeyText : ~KeyLess(k, k)
    BY DEF KeyText, KeyLess
  <1>. QED
    BY <1>1, KeyType

\* The byte order of key texts is transitive.
LEMMA KeyTransitive ==
    ASSUME NEW a \in Content, NEW b \in Content, NEW c \in Content,
           KeyLess(Key(a), Key(b)), KeyLess(Key(b), Key(c))
    PROVE  KeyLess(Key(a), Key(c))
  <1>1. \A j, k, l \in KeyText : KeyLess(j, k) /\ KeyLess(k, l) => KeyLess(j, l)
    BY DEF KeyText, KeyLess
  <1>. QED
    BY <1>1, KeyType

\* An encoded content is at least as long as its data: base64 and the JSON
\* around it only add bytes.
LEMMA EncodedLenBound ==
    ASSUME NEW c \in Content
    PROVE  EncodedLen(c) \in Nat /\ c.len \in Nat /\ c.len <= EncodedLen(c)
  <1>1. c.len \in Nat
    BY ContentAssumption DEF Content
  <1>2. (c.len + 2) \div 3 \in Nat /\ c.len <= 4 * ((c.len + 2) \div 3)
    BY <1>1
  <1>. QED
    BY <1>1, <1>2, ContentAssumption DEF EncodedLen

(***************************************************************************)
(* What a flush selects.  A bucket is a finite set of contents with        *)
(* distinct keys.                                                          *)
(***************************************************************************)
Bucket(d) ==
    /\ d \subseteq Content
    /\ IsFiniteSet(d)
    /\ \A c, e \in d : Key(c) = Key(e) => c = e

\* The contents above a given one are finitely many.
LEMMA NewerFinite ==
    ASSUME NEW d, Bucket(d), NEW c \in d
    PROVE  /\ Newer(c, d) \subseteq d
           /\ IsFiniteSet(Newer(c, d))
           /\ Cardinality(Newer(c, d)) \in Nat
  <1>1. Newer(c, d) \subseteq d
    BY DEF Newer
  <1>2. IsFiniteSet(Newer(c, d))
    BY <1>1, FS_Subset DEF Bucket
  <1>. QED
    BY <1>1, <1>2, FS_CardinalityType

\* Going up in key order, strictly fewer contents remain above.
LEMMA NewerDecreases ==
    ASSUME NEW d, Bucket(d), NEW c \in d, NEW e \in d, KeyLess(Key(c), Key(e))
    PROVE  Cardinality(Newer(e, d)) < Cardinality(Newer(c, d))
  <1>1. c \in Content /\ e \in Content /\ d \subseteq Content
    BY DEF Bucket
  <1>2. Newer(e, d) \subseteq Newer(c, d)
    BY <1>1, KeyTransitive DEF Newer
  <1>3. e \in Newer(c, d) /\ e \notin Newer(e, d)
    BY <1>1, KeyIrreflexive DEF Newer
  <1>4. IsFiniteSet(Newer(c, d))
    BY NewerFinite
  <1>5. /\ Cardinality(Newer(e, d)) <= Cardinality(Newer(c, d))
        /\ Cardinality(Newer(c, d)) = Cardinality(Newer(e, d)) => Newer(c, d) = Newer(e, d)
    BY <1>2, <1>4, FS_Subset
  <1>6. Cardinality(Newer(e, d)) \in Nat /\ Cardinality(Newer(c, d)) \in Nat
    BY NewerFinite
  <1>. QED
    BY <1>3, <1>5, <1>6

\* What a flush leaves: the contents with fewer than n above them.
Kept(d, n) == d \ collectItemsToFlush(d, n)

\* What a flush leaves is a bucket; the two parts differ by how many contents
\* lie above.
LEMMA KeptType ==
    ASSUME NEW d, Bucket(d), NEW n \in Nat
    PROVE  /\ Kept(d, n) \subseteq d
           /\ Bucket(Kept(d, n))
           /\ \A c \in Kept(d, n) : Cardinality(Newer(c, d)) < n
           /\ \A c \in collectItemsToFlush(d, n) : Cardinality(Newer(c, d)) >= n
  <1>1. Kept(d, n) \subseteq d
    BY DEF Kept
  <1>2. IsFiniteSet(Kept(d, n))
    BY <1>1, FS_Subset DEF Bucket
  <1>3. Bucket(Kept(d, n))
    BY <1>1, <1>2 DEF Bucket
  <1>4. \A c \in Kept(d, n) : Cardinality(Newer(c, d)) < n
    BY NewerFinite DEF Kept, collectItemsToFlush
  <1>5. \A c \in collectItemsToFlush(d, n) : Cardinality(Newer(c, d)) >= n
    BY DEF collectItemsToFlush
  <1>. QED
    BY <1>1, <1>3, <1>4, <1>5

\* A flush to n leaves at most n contents: the number of contents above one is
\* a different number below n for each content left.
LEMMA KeptBound ==
    ASSUME NEW d, Bucket(d), NEW n \in Nat
    PROVE  Cardinality(Kept(d, n)) <= n
  <1>. DEFINE rank == [c \in Kept(d, n) |-> Cardinality(Newer(c, d))]
  <1>1. rank \in [Kept(d, n) -> 0..(n - 1)]
    BY KeptType, NewerFinite
  <1>2. ASSUME NEW c \in Kept(d, n), NEW e \in Kept(d, n), rank[c] = rank[e]
        PROVE  c = e
    <2>1. c \in d /\ e \in d /\ c \in Content /\ e \in Content
      BY KeptType DEF Bucket
    <2>2. Cardinality(Newer(c, d)) = Cardinality(Newer(e, d))
      BY <1>2
    <2>3. Cardinality(Newer(c, d)) \in Nat /\ Cardinality(Newer(e, d)) \in Nat
      BY <2>1, NewerFinite
    <2>4. ~KeyLess(Key(c), Key(e)) /\ ~KeyLess(Key(e), Key(c))
      BY <2>1, <2>2, <2>3, NewerDecreases
    <2>5. Key(c) = Key(e)
      BY <2>1, <2>4, KeyTotal
    <2>. QED
      BY <2>1, <2>5 DEF Bucket
  <1>3. rank \in Injection(Kept(d, n), 0..(n - 1))
    BY <1>1, <1>2 DEF Injection, IsInjective
  <1>4. IsFiniteSet(0..(n - 1)) /\ Cardinality(0..(n - 1)) = n
    BY FS_Interval
  <1>. QED
    BY <1>3, <1>4, FS_Injection

\* If a flush drops c, at least n contents above c are left: the topmost
\* dropped content above c, or c itself, has n kept ones above it.
LEMMA KeptAboveDropped ==
    ASSUME NEW d, Bucket(d), NEW n \in Nat, NEW c \in collectItemsToFlush(d, n)
    PROVE  Cardinality(Newer(c, Kept(d, n))) >= n
  <1>. DEFINE dropped == {e \in collectItemsToFlush(d, n) : e = c \/ KeyLess(Key(c), Key(e))}
              above == {Newer(e, d) : e \in dropped}
  <1>1. dropped \subseteq d /\ c \in dropped /\ c \in d /\ d \subseteq Content
    BY DEF collectItemsToFlush, Bucket
  <1>2. above \subseteq FiniteSubsetsOf(d) /\ above # {}
    BY <1>1, NewerFinite DEF FiniteSubsetsOf
  <1>3. PICK least \in above : \A a \in above : ~(<<a, least>> \in StrictSubsetOrdering(d))
    BY <1>2, FS_StrictSubsetOrderingWellFounded, WFMin
  <1>4. PICK top \in dropped : least = Newer(top, d)
    OBVIOUS
  <1>5. top \in d /\ top \in Content /\ Cardinality(Newer(top, d)) >= n
    BY <1>1, KeptType DEF collectItemsToFlush
  <1>6. Newer(top, d) \subseteq Newer(c, Kept(d, n))
    <2>. SUFFICES ASSUME NEW e \in Newer(top, d)
                  PROVE  e \in Newer(c, Kept(d, n))
      OBVIOUS
    <2>1. e \in d /\ e \in Content /\ KeyLess(Key(top), Key(e))
      BY <1>1 DEF Newer
    <2>2. KeyLess(Key(c), Key(e))
      BY <2>1, <1>1, <1>5, KeyTransitive
    <2>3. /\ Newer(e, d) \subseteq Newer(top, d)
          /\ Newer(e, d) # Newer(top, d)
      <3>1. Newer(e, d) \subseteq Newer(top, d)
        BY <2>1, <1>1, <1>5, KeyTransitive DEF Newer
      <3>2. e \notin Newer(e, d)
        BY <2>1, KeyIrreflexive DEF Newer
      <3>. QED
        BY <3>1, <3>2
    <2>4. <<Newer(e, d), least>> \in StrictSubsetOrdering(d)
      BY <2>3, <1>4, <1>5, <2>1 DEF StrictSubsetOrdering, Newer
    <2>5. e \notin dropped
      BY <2>4, <1>3
    <2>6. e \in Kept(d, n)
      BY <2>1, <2>2, <2>5 DEF Kept
    <2>. QED
      BY <2>2, <2>6 DEF Newer
  <1>7. IsFiniteSet(Newer(c, Kept(d, n)))
    <2>1. Newer(c, Kept(d, n)) \subseteq d
      BY KeptType DEF Newer
    <2>. QED
      BY <2>1, FS_Subset DEF Bucket
  <1>8. /\ Cardinality(Newer(top, d)) <= Cardinality(Newer(c, Kept(d, n)))
        /\ Cardinality(Newer(c, Kept(d, n))) \in Nat
    BY <1>6, <1>7, FS_Subset, FS_CardinalityType
  <1>9. Cardinality(Newer(top, d)) \in Nat
    BY <1>5, NewerFinite
  <1>. QED
    BY <1>5, <1>8, <1>9

(***************************************************************************)
(* Counting bytes.                                                         *)
(***************************************************************************)

\* Row c of n bytes is finite and has n elements.
LEMMA RowCardinality ==
    ASSUME NEW c, NEW n \in Nat
    PROVE  IsFiniteSet({c} \X (1..n)) /\ Cardinality({c} \X (1..n)) = n
  <1>1. IsFiniteSet({c}) /\ Cardinality({c}) = 1
    BY FS_Singleton
  <1>2. IsFiniteSet(1..n) /\ Cardinality(1..n) = n
    BY FS_Interval
  <1>3. /\ IsFiniteSet({c} \X (1..n))
        /\ Cardinality({c} \X (1..n)) = Cardinality({c}) * Cardinality(1..n)
    BY <1>1, <1>2, FS_Product
  <1>. QED
    BY <1>1, <1>2, <1>3

\* Finitely many rows of bytes are finitely many bytes.
LEMMA RowsFinite ==
    ASSUME NEW d, IsFiniteSet(d), NEW size \in [d -> Nat]
    PROVE  IsFiniteSet(UNION {{c} \X (1..size[c]) : c \in d})
  <1>. DEFINE rows == {{c} \X (1..size[c]) : c \in d}
              row == [c \in d |-> {c} \X (1..size[c])]
  <1>1. row \in Surjection(d, rows)
    BY DEF Surjection
  <1>2. IsFiniteSet(rows)
    BY <1>1, FS_Surjection
  <1>3. ASSUME NEW r \in rows
        PROVE  IsFiniteSet(r)
    <2>1. PICK c \in d : r = {c} \X (1..size[c])
      OBVIOUS
    <2>2. size[c] \in Nat
      OBVIOUS
    <2>. QED
      BY <2>1, <2>2, RowCardinality
  <1>. QED
    BY <1>2, <1>3, FS_UNION

\* The data, the values, and the keys and values of a bucket are finitely
\* many bytes, and there is no less of the one than of the one before.
LEMMA BytesFinite ==
    ASSUME NEW d, d \subseteq Content, IsFiniteSet(d)
    PROVE  /\ IsFiniteSet(DataBytes(d)) /\ IsFiniteSet(ValueBytes(d))
           /\ IsFiniteSet(KeyValueBytes(d))
           /\ FreedBytes(d) \in Nat /\ StoredBytes(d) \in Nat /\ BucketBytes(d) \in Nat
           /\ FreedBytes(d) <= StoredBytes(d) /\ StoredBytes(d) <= BucketBytes(d)
  <1>. DEFINE data == [c \in d |-> c.len]
              value == [c \in d |-> EncodedLen(c)]
              both == [c \in d |-> KeyLen + EncodedLen(c)]
  <1>1. /\ data \in [d -> Nat] /\ value \in [d -> Nat] /\ both \in [d -> Nat]
        /\ \A c \in d : data[c] <= value[c] /\ value[c] <= both[c]
    BY EncodedLenBound, ContentAssumption
  <1>2. /\ DataBytes(d) = UNION {{c} \X (1..data[c]) : c \in d}
        /\ ValueBytes(d) = UNION {{c} \X (1..value[c]) : c \in d}
        /\ KeyValueBytes(d) = UNION {{c} \X (1..both[c]) : c \in d}
    BY DEF DataBytes, ValueBytes, KeyValueBytes
  <1>. HIDE DEF data, value, both
  <1>3. IsFiniteSet(DataBytes(d)) /\ IsFiniteSet(ValueBytes(d)) /\ IsFiniteSet(KeyValueBytes(d))
    BY <1>1, <1>2, RowsFinite
  <1>4. DataBytes(d) \subseteq ValueBytes(d)
    BY <1>1, <1>2
  <1>5. ValueBytes(d) \subseteq KeyValueBytes(d)
    BY <1>1, <1>2
  <1>. QED
    BY <1>3, <1>4, <1>5, FS_Subset, FS_CardinalityType
    DEF FreedBytes, StoredBytes, BucketBytes

\* Deleting contents frees their values' bytes, which are at least the bytes
\* that deleteItemsFromBucket subtracts from the counter.
LEMMA DeleteBytes ==
    ASSUME NEW d, d \subseteq Content, IsFiniteSet(d), NEW f \in SUBSET d
    PROVE  StoredBytes(d \ f) <= StoredBytes(d) - FreedBytes(f)
  <1>1. IsFiniteSet(f) /\ f \subseteq Content
    BY FS_Subset
  <1>2. ValueBytes(d \ f) = ValueBytes(d) \ ValueBytes(f)
    BY DEF ValueBytes
  <1>3. ValueBytes(d) \cap ValueBytes(f) = ValueBytes(f)
    BY DEF ValueBytes
  <1>4. Cardinality(ValueBytes(d \ f))
          = Cardinality(ValueBytes(d)) - Cardinality(ValueBytes(f))
    <2>1. IsFiniteSet(ValueBytes(d))
      BY BytesFinite
    <2>2. Cardinality(ValueBytes(d) \ ValueBytes(f))
            = Cardinality(ValueBytes(d)) - Cardinality(ValueBytes(d) \cap ValueBytes(f))
      BY <2>1, FS_Difference
    <2>. QED
      BY <2>2, <1>2, <1>3
  <1>5. StoredBytes(d) \in Nat /\ StoredBytes(f) \in Nat /\ FreedBytes(f) \in Nat
    BY <1>1, BytesFinite
  <1>6. FreedBytes(f) <= StoredBytes(f)
    BY <1>1, BytesFinite
  <1>. QED
    BY <1>4, <1>5, <1>6 DEF StoredBytes

\* Putting a content adds at most the bytes of its value: less when it
\* replaces a value under the same key.
LEMMA PutBytes ==
    ASSUME NEW d, d \subseteq Content, IsFiniteSet(d), NEW c \in Content
    PROVE  StoredBytes(Put(d, c)) <= StoredBytes(d) + EncodedLen(c)
  <1>. DEFINE rest == {e \in d : Key(e) # Key(c)}
              row == {c} \X (1..EncodedLen(c))
  <1>1. rest \subseteq d /\ rest \subseteq Content /\ IsFiniteSet(rest)
    BY FS_Subset
  <1>2. ValueBytes(Put(d, c)) = ValueBytes(rest) \cup row
    BY DEF ValueBytes, Put
  <1>3. IsFiniteSet(row) /\ Cardinality(row) = EncodedLen(c) /\ EncodedLen(c) \in Nat
    BY EncodedLenBound, RowCardinality
  <1>. HIDE DEF rest, row
  <1>4. /\ Cardinality(ValueBytes(rest) \cup row)
             = StoredBytes(rest) + EncodedLen(c) - Cardinality(ValueBytes(rest) \cap row)
        /\ Cardinality(ValueBytes(rest) \cap row) \in Nat
    BY <1>1, <1>3, BytesFinite, FS_Union, FS_Intersection, FS_CardinalityType DEF StoredBytes
  <1>5. StoredBytes(rest) <= StoredBytes(d)
    <2>1. ValueBytes(rest) \subseteq ValueBytes(d)
      BY <1>1 DEF ValueBytes
    <2>. QED
      BY <2>1, BytesFinite, FS_Subset DEF StoredBytes
  <1>6. StoredBytes(rest) \in Nat /\ StoredBytes(d) \in Nat
    BY <1>1, BytesFinite
  <1>. QED
    BY <1>2, <1>3, <1>4, <1>5, <1>6 DEF StoredBytes

(***************************************************************************)
(* The inductive invariant: types, a finite file, and the counter's bound. *)
(***************************************************************************)
StorageInv ==
    /\ TypeOK
    /\ IsFiniteSet(db)
    /\ CounterCoversData

\* The file is a bucket, also after a flush and after a put.
LEMMA InvBucket == StorageInv => Bucket(db)
  BY DEF StorageInv, TypeOK, Bucket

\* A put keeps the keys of a bucket distinct.
LEMMA PutBucket ==
    ASSUME NEW d, Bucket(d), NEW c \in Content
    PROVE  Bucket(Put(d, c))
  <1>1. {e \in d : Key(e) # Key(c)} \subseteq d
    OBVIOUS
  <1>2. IsFiniteSet({e \in d : Key(e) # Key(c)})
    BY <1>1, FS_Subset DEF Bucket
  <1>3. IsFiniteSet(Put(d, c))
    BY <1>2, FS_AddElement DEF Put
  <1>. QED
    BY <1>3 DEF Bucket, Put

\* What SaveContent flushes, whichever way the limit test goes.
LEMMA FlushedBySaveType ==
    ASSUME StorageInv, owner # "none", NEW c \in Content
    PROVE  /\ FlushedBySave(c) \in SUBSET db
           /\ Bucket(db \ FlushedBySave(c))
           /\ FreedBytes(FlushedBySave(c)) \in Nat
  <1>1. Bucket(db) /\ keepItems \in Nat
    BY InvBucket DEF StorageInv, TypeOK
  <1>2. FlushedBySave(c) \in SUBSET db
    BY DEF FlushedBySave, collectItemsToFlush
  <1>3. IsFiniteSet(db \ FlushedBySave(c)) /\ IsFiniteSet(FlushedBySave(c))
    BY <1>1, <1>2, FS_Subset DEF Bucket
  <1>4. Bucket(db \ FlushedBySave(c))
    BY <1>1, <1>2, <1>3 DEF Bucket
  <1>5. FreedBytes(FlushedBySave(c)) \in Nat
    BY <1>1, <1>2, <1>3, BytesFinite DEF Bucket
  <1>. QED
    BY <1>2, <1>4, <1>5

\* If the counter covers the file before a save, it covers it afterwards.
LEMMA SaveCounts ==
    ASSUME StorageInv, owner # "none", faults = 0, NEW c \in Content
    PROVE  StoredBytes(Put(db \ FlushedBySave(c), c))
             <= cacheSize + EncodedLen(c) - FreedBytes(FlushedBySave(c))
  <1>. DEFINE f == FlushedBySave(c)
  <1>1. f \in SUBSET db /\ Bucket(db \ f) /\ FreedBytes(f) \in Nat
    BY FlushedBySaveType
  <1>2. db \subseteq Content /\ IsFiniteSet(db) /\ cacheSize \in Int
        /\ cacheSize >= StoredBytes(db)
    BY DEF StorageInv, TypeOK, CounterCoversData
  <1>. HIDE DEF f
  <1>3. StoredBytes(db \ f) <= StoredBytes(db) - FreedBytes(f)
    BY <1>1, <1>2, DeleteBytes
  <1>4. StoredBytes(Put(db \ f, c)) <= StoredBytes(db \ f) + EncodedLen(c)
    BY <1>1, PutBytes DEF Bucket
  <1>5. Bucket(Put(db \ f, c))
    BY <1>1, PutBucket
  <1>6. /\ StoredBytes(db) \in Nat /\ StoredBytes(db \ f) \in Nat
        /\ StoredBytes(Put(db \ f, c)) \in Nat /\ EncodedLen(c) \in Nat
    BY <1>1, <1>2, <1>5, BytesFinite, EncodedLenBound DEF Bucket
  <1>7. StoredBytes(Put(db \ f, c)) <= cacheSize + EncodedLen(c) - FreedBytes(f)
    BY <1>1, <1>2, <1>3, <1>4, <1>6
  <1>. QED
    BY <1>7 DEF f

\* A commit takes effect or leaves the file as it was.
LEMMA CommitCases ==
    ASSUME NEW newDb, Commit(newDb), faults \in 0..MaxFaults
    PROVE  \/ db' = newDb /\ faults' = faults
           \/ db' = db /\ faults' # 0 /\ faults' \in 0..MaxFaults /\ faults' # faults
  BY StorageAssumption DEF Commit

\* The state before any process opens the file satisfies the invariant.
LEMMA InitInv == Init => StorageInv
  <1>. SUFFICES ASSUME Init PROVE StorageInv
    OBVIOUS
  <1>1. TypeOK
    BY StorageAssumption, ContentAssumption
    DEF Init, TypeOK, Processes, Instant
  <1>2. IsFiniteSet(db)
    BY FS_EmptySet DEF Init
  <1>3. CounterCoversData
    BY DEF Init, CounterCoversData
  <1>. QED
    BY <1>1, <1>2, <1>3 DEF StorageInv

\* Opening the file recounts it, and replaces limits that are not positive.
LEMMA OpenInv ==
    ASSUME StorageInv, NEW p \in Processes, NewBoltStorage(p)
    PROVE  StorageInv'
  <1>1. db' = db /\ IsFiniteSet(db) /\ db \subseteq Content
    BY DEF StorageInv, TypeOK, NewBoltStorage
  <1>2. BucketBytes(db) \in Nat /\ StoredBytes(db) <= BucketBytes(db)
    BY <1>1, BytesFinite
  <1>3. /\ maxSize' \in Nat /\ maxSize' > 0
        /\ keepItems' = DefaultKeepItems /\ DefaultKeepItems \in Nat
    BY StorageAssumption DEF NewBoltStorage, StorageConfig, OrDefault
  <1>4. TypeOK'
    BY <1>1, <1>2, <1>3 DEF StorageInv, TypeOK, NewBoltStorage, Processes
  <1>5. CounterCoversData'
    BY <1>1, <1>2 DEF NewBoltStorage, CounterCoversData
  <1>. QED
    BY <1>1, <1>4, <1>5 DEF StorageInv

\* A save, with or without a flush, committed or not.
LEMMA SaveInv ==
    ASSUME StorageInv, NEW c \in Content, SaveContent(c)
    PROVE  StorageInv'
  <1>. DEFINE f == FlushedBySave(c)
              newDb == Put(db \ f, c)
  <1>1. owner # "none" /\ owner \in Processes
    BY DEF SaveContent, Monitors, Processes
  <1>2. f \in SUBSET db /\ Bucket(db \ f) /\ FreedBytes(f) \in Nat
    BY <1>1, FlushedBySaveType
  <1>3. Bucket(newDb) /\ Bucket(db)
    BY <1>2, PutBucket, InvBucket
  <1>4. /\ cacheSize' = cacheSize + EncodedLen(c) - FreedBytes(f)
        /\ Commit(newDb)
        /\ lastSaved' = IF faults' = faults THEN c ELSE lastSaved
        /\ now' = [sec |-> c.sec, frac |-> c.frac]
        /\ captured' = c /\ saves' = saves + 1 /\ saves < MaxSaves
        /\ UNCHANGED <<owner, maxSize, keepItems>>
    BY DEF SaveContent
  <1>5. EncodedLen(c) \in Nat
    BY EncodedLenBound
  <1>6. faults = 0 => StoredBytes(newDb) <= cacheSize'
    BY <1>1, <1>4, SaveCounts
  <1>. HIDE DEF f, newDb
  <1>7. faults \in 0..MaxFaults
    BY DEF StorageInv, TypeOK
  <1>8. \/ db' = newDb /\ faults' = faults
        \/ db' = db /\ faults' # 0 /\ faults' \in 0..MaxFaults /\ faults' # faults
    BY <1>4, <1>7, CommitCases
  <1>9. Bucket(db')
    BY <1>3, <1>8 DEF Bucket
  <1>10. cacheSize' \in Int
    BY <1>2, <1>4, <1>5 DEF StorageInv, TypeOK
  <1>11. now' \in Instant
    BY <1>4 DEF Content, Instant
  <1>12. saves' \in 0..MaxSaves
    BY <1>4, StorageAssumption DEF StorageInv, TypeOK
  <1>13. TypeOK'
    BY <1>1, <1>4, <1>7, <1>8, <1>9, <1>10, <1>11, <1>12
    DEF StorageInv, TypeOK, Bucket
  <1>14. CounterCoversData'
    <2>1. CASE db' = newDb /\ faults' = faults
      <3>1. newDb \subseteq Content /\ IsFiniteSet(newDb)
        BY <1>3 DEF Bucket
      <3>2. StoredBytes(newDb) \in Nat
        BY <3>1, BytesFinite
      <3>. QED
        BY <2>1, <3>2, <1>6, <1>10 DEF CounterCoversData
    <2>2. CASE faults' # 0
      BY <2>2 DEF CounterCoversData
    <2>. QED
      BY <1>8, <2>1, <2>2
  <1>. QED
    BY <1>9, <1>13, <1>14 DEF StorageInv, Bucket

\* The flush command.
LEMMA FlushInv ==
    ASSUME StorageInv, FlushCache
    PROVE  StorageInv'
  <1>. DEFINE f == collectItemsToFlush(db, keepItems)
  <1>1. Bucket(db) /\ keepItems \in Nat /\ faults \in 0..MaxFaults /\ cacheSize \in Int
    BY InvBucket DEF StorageInv, TypeOK
  <1>2. /\ cacheSize' = cacheSize - FreedBytes(f)
        /\ Commit(db \ f)
        /\ owner = "flush"
        /\ UNCHANGED <<owner, maxSize, keepItems, now, captured, lastSaved, saves>>
    BY DEF FlushCache
  <1>3. f \in SUBSET db
    BY DEF collectItemsToFlush
  <1>. HIDE DEF f
  <1>4. IsFiniteSet(f) /\ f \subseteq Content /\ IsFiniteSet(db \ f) /\ db \ f \subseteq Content
    BY <1>1, <1>3, FS_Subset DEF Bucket
  <1>5. \/ db' = db \ f /\ faults' = faults
        \/ db' = db /\ faults' # 0 /\ faults' \in 0..MaxFaults /\ faults' # faults
    BY <1>1, <1>2, CommitCases
  <1>6. db' \subseteq db /\ IsFiniteSet(db')
    BY <1>1, <1>4, <1>5 DEF Bucket
  <1>7. FreedBytes(f) \in Nat /\ StoredBytes(db) \in Nat /\ StoredBytes(db \ f) \in Nat
    BY <1>1, <1>4, BytesFinite DEF Bucket
  <1>8. TypeOK'
    BY <1>1, <1>2, <1>5, <1>6, <1>7 DEF StorageInv, TypeOK
  <1>9. CounterCoversData'
    <2>1. StoredBytes(db \ f) <= StoredBytes(db) - FreedBytes(f)
      BY <1>1, <1>3, DeleteBytes DEF Bucket
    <2>2. CASE db' = db \ f /\ faults' = faults
      <3>1. SUFFICES ASSUME faults = 0
                     PROVE  cacheSize - FreedBytes(f) >= StoredBytes(db \ f)
        BY <1>2, <2>2 DEF CounterCoversData
      <3>2. cacheSize >= StoredBytes(db)
        BY <3>1, <1>2 DEF StorageInv, CounterCoversData
      <3>. QED
        BY <3>2, <2>1, <1>1, <1>7
    <2>3. CASE faults' # 0
      BY <2>3 DEF CounterCoversData
    <2>. QED
      BY <1>5, <2>2, <2>3
  <1>. QED
    BY <1>6, <1>8, <1>9 DEF StorageInv

\* Closing and exiting drop the handle; a close flushes first.
LEMMA CloseExitInv ==
    ASSUME StorageInv, Close \/ Exit
    PROVE  StorageInv'
  <1>1. /\ owner' = "none" /\ cacheSize' = 0 /\ maxSize' = 0 /\ keepItems' = 0
        /\ UNCHANGED <<now, captured, lastSaved, saves>>
    BY DEF Close, Exit
  <1>2. db' \subseteq db /\ faults' \in 0..MaxFaults
    <2>1. faults \in 0..MaxFaults
      BY DEF StorageInv, TypeOK
    <2>2. CASE Close
      <3>1. Commit(db \ collectItemsToFlush(db, keepItems))
        BY <2>2 DEF Close
      <3>. QED
        BY <2>1, <3>1, CommitCases
    <2>3. CASE Exit
      BY <2>1, <2>3 DEF Exit
    <2>. QED
      BY <2>2, <2>3
  <1>3. IsFiniteSet(db')
    BY <1>2, FS_Subset DEF StorageInv
  <1>4. TypeOK'
    BY <1>1, <1>2 DEF StorageInv, TypeOK
  <1>5. CounterCoversData'
    BY <1>1 DEF CounterCoversData
  <1>. QED
    BY <1>3, <1>4, <1>5 DEF StorageInv

\* Every step keeps the invariant.
LEMMA NextInv == StorageInv /\ [Next]_vars => StorageInv'
  <1>. SUFFICES ASSUME StorageInv, [Next]_vars PROVE StorageInv'
    OBVIOUS
  <1>1. ASSUME NEW p \in Processes, NewBoltStorage(p) PROVE StorageInv'
    BY <1>1, OpenInv
  <1>2. ASSUME NEW c \in Content, SaveContent(c) PROVE StorageInv'
    BY <1>2, SaveInv
  <1>3. CASE FlushCache
    BY <1>3, FlushInv
  <1>4. CASE Close \/ Exit
    BY <1>4, CloseExitInv
  <1>5. CASE UNCHANGED vars
    BY <1>5 DEF vars, handle, StorageInv, TypeOK, CounterCoversData
  <1>. QED
    BY <1>1, <1>2, <1>3, <1>4, <1>5 DEF Next

\* The invariant holds in every state of every behaviour.
THEOREM StorageInvariant == Spec => []StorageInv
  BY InitInv, NextInv, PTL DEF Spec

\* Type correctness: among the rest, no two contents share a key and an open
\* handle's limits are positive.
THEOREM TypeCorrect == Spec => []TypeOK
  <1>1. StorageInv => TypeOK
    BY DEF StorageInv
  <1>. QED
    BY <1>1, StorageInvariant, PTL

\* The counter never understates the values in the file while commits succeed.
THEOREM CounterCovers == Spec => []CounterCoversData
  <1>1. StorageInv => CounterCoversData
    BY DEF StorageInv
  <1>. QED
    BY <1>1, StorageInvariant, PTL

(***************************************************************************)
(* What a step may remove, and what a save leaves.                         *)
(***************************************************************************)

\* A put leaves as many contents above any given one as there were.
LEMMA PutKeepsNewer ==
    ASSUME NEW d, Bucket(d), NEW x \in Content, NEW c \in Content
    PROVE  Cardinality(Newer(c, d)) <= Cardinality(Newer(c, Put(d, x)))
  <1>. DEFINE move == [e \in Newer(c, d) |-> IF Key(e) = Key(x) THEN x ELSE e]
  <1>1. move \in [Newer(c, d) -> Newer(c, Put(d, x))]
    BY DEF Newer, Put
  <1>2. \A a, b \in Newer(c, d) : move[a] = move[b] => a = b
    BY DEF Newer, Bucket
  <1>3. move \in Injection(Newer(c, d), Newer(c, Put(d, x)))
    BY <1>1, <1>2 DEF Injection, IsInjective
  <1>4. Newer(c, Put(d, x)) \subseteq Put(d, x) /\ IsFiniteSet(Put(d, x))
    BY PutBucket DEF Newer, Bucket
  <1>5. IsFiniteSet(Newer(c, Put(d, x)))
    BY <1>4, FS_Subset
  <1>. QED
    BY <1>3, <1>5, FS_Injection

\* What FlushKeepsNewest says of one step.
KeepsNewest ==
    \A c \in db \ db' :
       \/ \E e \in db' : Key(e) = Key(c)
       \/ Cardinality(Newer(c, db')) >= keepItems

\* A flush on its own, or before a close.
LEMMA FlushKeeps ==
    ASSUME StorageInv, Commit(Kept(db, keepItems))
    PROVE  KeepsNewest
  <1>1. Bucket(db) /\ keepItems \in Nat /\ faults \in 0..MaxFaults
    BY InvBucket DEF StorageInv, TypeOK
  <1>2. db' = Kept(db, keepItems) \/ db' = db
    BY <1>1, CommitCases
  <1>3. ASSUME db' = Kept(db, keepItems), NEW c \in db \ db'
        PROVE  Cardinality(Newer(c, db')) >= keepItems
    <2>1. c \in collectItemsToFlush(db, keepItems)
      BY <1>3 DEF Kept
    <2>2. Cardinality(Newer(c, Kept(db, keepItems))) >= keepItems
      BY <1>1, <2>1, KeptAboveDropped
    <2>. QED
      BY <1>3, <2>2
  <1>. QED
    BY <1>2, <1>3 DEF KeepsNewest

\* A save removes what its flush selects, and the value it overwrites.
LEMMA SaveKeeps ==
    ASSUME StorageInv, NEW x \in Content, SaveContent(x)
    PROVE  KeepsNewest
  <1>. DEFINE f == FlushedBySave(x)
  <1>1. /\ Bucket(db) /\ keepItems \in Nat /\ faults \in 0..MaxFaults
        /\ owner # "none"
    BY InvBucket DEF StorageInv, TypeOK, SaveContent, Monitors
  <1>2. Commit(Put(db \ f, x))
    BY DEF SaveContent
  <1>3. db' = Put(db \ f, x) \/ db' = db
    BY <1>1, <1>2, CommitCases
  <1>4. Bucket(db \ f)
    BY <1>1, FlushedBySaveType
  <1>5. ASSUME db' = Put(db \ f, x), NEW c \in db \ db', c \in f
        PROVE  Cardinality(Newer(c, db')) >= keepItems
    <2>1. f = collectItemsToFlush(db, keepItems)
      BY <1>5 DEF FlushedBySave
    <2>2. db \ f = Kept(db, keepItems) /\ c \in collectItemsToFlush(db, keepItems)
      BY <2>1, <1>5 DEF Kept
    <2>3. Cardinality(Newer(c, db \ f)) >= keepItems
      BY <1>1, <2>2, KeptAboveDropped
    <2>4. c \in Content
      BY <1>1 DEF Bucket
    <2>5. Cardinality(Newer(c, db \ f)) <= Cardinality(Newer(c, db'))
      BY <1>4, <1>5, <2>4, PutKeepsNewer
    <2>6. /\ Cardinality(Newer(c, db \ f)) \in Nat
          /\ Cardinality(Newer(c, db')) \in Nat
      <3>1. Bucket(db')
        BY <1>4, <1>5, PutBucket
      <3>2. Newer(c, db \ f) \subseteq db \ f /\ Newer(c, db') \subseteq db'
        BY DEF Newer
      <3>3. IsFiniteSet(Newer(c, db \ f)) /\ IsFiniteSet(Newer(c, db'))
        BY <1>4, <3>1, <3>2, FS_Subset DEF Bucket
      <3>. QED
        BY <3>3, FS_CardinalityType
    <2>. QED
      BY <1>1, <2>3, <2>5, <2>6
  <1>6. ASSUME db' = Put(db \ f, x), NEW c \in db \ db', c \notin f
        PROVE  \E e \in db' : Key(e) = Key(c)
    BY <1>6 DEF Put
  <1>. HIDE DEF f
  <1>. QED
    BY <1>3, <1>5, <1>6 DEF KeepsNewest

\* Whatever removes contents leaves keepItems contents above each it removes.
THEOREM FlushKeeping == Spec => FlushKeepsNewest
  <1>1. ASSUME StorageInv, [Next]_vars PROVE [KeepsNewest]_vars
    <2>1. ASSUME NEW p \in Processes, NewBoltStorage(p) PROVE KeepsNewest
      BY <2>1 DEF NewBoltStorage, KeepsNewest
    <2>2. ASSUME NEW c \in Content, SaveContent(c) PROVE KeepsNewest
      BY <1>1, <2>2, SaveKeeps
    <2>3. CASE FlushCache
      BY <1>1, <2>3, FlushKeeps DEF FlushCache, Kept
    <2>4. CASE Close
      BY <1>1, <2>4, FlushKeeps DEF Close, Kept
    <2>5. CASE Exit
      BY <2>5 DEF Exit, KeepsNewest
    <2>. QED
      BY <1>1, <2>1, <2>2, <2>3, <2>4, <2>5 DEF Next
  <1>. QED
    BY <1>1, StorageInvariant, PTL DEF Spec, FlushKeepsNewest, KeepsNewest

\* A put adds at most one content.
LEMMA PutCardinality ==
    ASSUME NEW d, Bucket(d), NEW x \in Content
    PROVE  Cardinality(Put(d, x)) <= Cardinality(d) + 1
  <1>. DEFINE rest == {e \in d : Key(e) # Key(x)}
  <1>1. IsFiniteSet(rest) /\ Cardinality(rest) <= Cardinality(d)
    BY FS_Subset DEF Bucket
  <1>2. Cardinality(rest) \in Nat /\ Cardinality(d) \in Nat
    BY <1>1, FS_CardinalityType DEF Bucket
  <1>3. \/ Cardinality(rest \cup {x}) = Cardinality(rest)
        \/ Cardinality(rest \cup {x}) = Cardinality(rest) + 1
    BY <1>1, FS_AddElement
  <1>. QED
    BY <1>1, <1>2, <1>3 DEF Put

\* What SaveRespectsLimit says of one step.
RespectsLimit ==
    saves' # saves /\ faults' = 0
      => \/ StoredBytes(db') <= maxSize
         \/ Cardinality(db') <= keepItems + 1

\* A save that commits either fits or has trimmed the file first.
LEMMA SaveLimit ==
    ASSUME StorageInv, NEW x \in Content, SaveContent(x)
    PROVE  RespectsLimit
  <1>. DEFINE f == FlushedBySave(x)
  <1>1. /\ Bucket(db) /\ keepItems \in Nat /\ maxSize \in Nat /\ cacheSize \in Int
        /\ faults \in 0..MaxFaults /\ owner # "none"
    BY InvBucket DEF StorageInv, TypeOK, SaveContent, Monitors
  <1>2. Commit(Put(db \ f, x))
    BY DEF SaveContent
  <1>. SUFFICES ASSUME faults' = 0
                PROVE  \/ StoredBytes(db') <= maxSize
                       \/ Cardinality(db') <= keepItems + 1
    BY DEF RespectsLimit
  <1>3. db' = Put(db \ f, x) /\ faults = 0
    BY <1>1, <1>2, CommitCases
  <1>4. Bucket(db \ f) /\ FreedBytes(f) \in Nat /\ EncodedLen(x) \in Nat
    BY <1>1, FlushedBySaveType, EncodedLenBound
  <1>5. CASE cacheSize + EncodedLen(x) > maxSize
    <2>1. db \ f = Kept(db, keepItems)
      BY <1>5 DEF FlushedBySave, Kept
    <2>2. Cardinality(db \ f) <= keepItems
      BY <2>1, <1>1, KeptBound
    <2>3. Cardinality(db') <= Cardinality(db \ f) + 1
      BY <1>3, <1>4, PutCardinality
    <2>4. Cardinality(db \ f) \in Nat /\ Cardinality(db') \in Nat
      BY <1>3, <1>4, PutBucket, FS_CardinalityType DEF Bucket
    <2>. QED
      BY <1>1, <2>2, <2>3, <2>4
  <1>6. CASE ~(cacheSize + EncodedLen(x) > maxSize)
    <2>1. StoredBytes(db') <= cacheSize + EncodedLen(x) - FreedBytes(f)
      BY <1>1, <1>3, SaveCounts
    <2>2. StoredBytes(db') \in Nat
      BY <1>3, <1>4, PutBucket, BytesFinite DEF Bucket
    <2>. QED
      BY <1>1, <1>4, <1>6, <2>1, <2>2
  <1>. QED
    BY <1>5, <1>6

\* The size limit: a committed save leaves at most maxSize bytes of values, or
\* at most keepItems contents beside the new one.
THEOREM LimitRespected == Spec => SaveRespectsLimit
  <1>1. ASSUME StorageInv, [Next]_vars PROVE [RespectsLimit]_vars
    <2>1. ASSUME NEW c \in Content, SaveContent(c) PROVE RespectsLimit
      BY <1>1, <2>1, SaveLimit
    <2>2. ASSUME saves' = saves PROVE RespectsLimit
      BY <2>2 DEF RespectsLimit
    <2>. QED
      BY <1>1, <2>1, <2>2 DEF Next, NewBoltStorage, FlushCache, Close, Exit
  <1>. QED
    BY <1>1, StorageInvariant, PTL DEF Spec, SaveRespectsLimit, RespectsLimit

(***************************************************************************)
(* A device that stays in one zone other than UTC.  Keys then sort in the  *)
(* order of real time: in UTC they need not, for 'Z' sorts after '.', nor  *)
(* do they when the offset changes.                                        *)
(***************************************************************************)
FixedZone == \E z \in Int : z # 0 /\ Offsets = {z}

\* In one zone other than UTC the byte order of keys is the order of time.
LEMMA ZoneKeyOrder ==
    ASSUME NEW z \in Int, z # 0, NEW a, NEW b,
           a.offset = z, b.offset = z, a.sec \in Int, b.sec \in Int,
           a.frac \in {0, 1}, b.frac \in {0, 1}
    PROVE  /\ KeyLess(Key(a), Key(b)) <=> Before(a, b)
           /\ Key(a) = Key(b) <=> (a.sec = b.sec /\ a.frac = b.frac)
  <1>1. Sign(z) \in Int /\ Magnitude(z) \in Int
    BY DEF Sign, Magnitude
  <1>2. Key(a) = <<a.sec + z, Mark(a), Sign(z), Magnitude(z)>>
    BY DEF Key
  <1>3. Key(b) = <<b.sec + z, Mark(b), Sign(z), Magnitude(z)>>
    BY DEF Key
  <1>4. /\ Mark(a) \in Int /\ Mark(b) \in Int
        /\ Mark(a) < Mark(b) <=> a.frac < b.frac
        /\ Mark(a) = Mark(b) <=> a.frac = b.frac
    BY DEF Mark
  <1>. QED
    BY <1>1, <1>2, <1>3, <1>4 DEF KeyLess, Before

\* In a fixed zone the byte order of keys is the order of creation.
LEMMA KeyOrder ==
    ASSUME FixedZone, NEW a \in Content, NEW b \in Content
    PROVE  /\ KeyLess(Key(a), Key(b)) <=> Before(a, b)
           /\ Key(a) = Key(b) <=> (a.sec = b.sec /\ a.frac = b.frac)
  <1>1. PICK z \in Int : z # 0 /\ Offsets = {z}
    BY DEF FixedZone
  <1>2. a.offset = z /\ b.offset = z
    BY <1>1 DEF Content
  <1>3. /\ a.sec \in Int /\ b.sec \in Int
        /\ a.frac \in {0, 1} /\ b.frac \in {0, 1}
    BY ContentAssumption DEF Content
  <1>. QED
    BY <1>1, <1>2, <1>3, ZoneKeyOrder

\* Before is a strict order of instants.
LEMMA BeforeOrder ==
    ASSUME NEW a \in Content \cup Instant, NEW b \in Content \cup Instant,
           NEW c \in Content \cup Instant
    PROVE  /\ Before(a, b) => ~Before(b, a)
           /\ ~Before(b, a) /\ Before(b, c) => Before(a, c)
           /\ Before(a, b) \/ Before(b, a) \/ (a.sec = b.sec /\ a.frac = b.frac)
  <1>1. /\ a.sec \in Int /\ b.sec \in Int /\ c.sec \in Int
        /\ a.frac \in Int /\ b.frac \in Int /\ c.frac \in Int
    BY ContentAssumption DEF Content, Instant
  <1>. QED
    BY <1>1 DEF Before

(***************************************************************************)
(* The strengthening: nothing in the file is younger than the clock, what  *)
(* was captured last was captured now, and the last committed save is in   *)
(* the file above everything else.                                         *)
(***************************************************************************)
LatestInv ==
    /\ \A e \in db : ~Before(now, e)
    /\ captured # NoContent => captured.sec = now.sec /\ captured.frac = now.frac
    /\ IF lastSaved = NoContent
       THEN db = {}
       ELSE /\ lastSaved \in db
            /\ \A e \in db : e = lastSaved \/ Before(e, lastSaved)

\* The content saved by a step is no older than anything in the file.
LEMMA SavedIsNewest ==
    ASSUME StorageInv, LatestInv, NEW c \in Content, SaveContent(c)
    PROVE  \A e \in db : Before(e, c) \/ (e.sec = c.sec /\ e.frac = c.frac)
  <1>. SUFFICES ASSUME NEW e \in db
                PROVE  Before(e, c) \/ (e.sec = c.sec /\ e.frac = c.frac)
    OBVIOUS
  <1>1. e \in Content /\ now \in Instant /\ ~Before(now, e)
    BY DEF StorageInv, TypeOK, LatestInv
  <1>2. CASE Before(now, c)
    BY <1>1, <1>2, BeforeOrder
  <1>3. CASE c = captured
    <2>1. c.sec = now.sec /\ c.frac = now.frac
      BY <1>3, StorageAssumption DEF LatestInv
    <2>2. ~Before(c, e)
      BY <1>1, <2>1 DEF Before
    <2>. QED
      BY <1>1, <2>2, BeforeOrder
  <1>. QED
    BY <1>2, <1>3 DEF SaveContent

\* A flush never selects the content above all others.
LEMMA NewestSurvives ==
    ASSUME FixedZone, StorageInv, LatestInv, lastSaved # NoContent, owner # "none"
    PROVE  lastSaved \notin collectItemsToFlush(db, keepItems)
  <1>1. lastSaved \in db /\ db \subseteq Content /\ keepItems \in Nat \ {0}
    BY StorageAssumption DEF LatestInv, StorageInv, TypeOK
  <1>2. \A e \in db : ~KeyLess(Key(lastSaved), Key(e))
    BY <1>1, KeyOrder, BeforeOrder, KeyIrreflexive DEF LatestInv
  <1>3. Newer(lastSaved, db) = {}
    BY <1>2 DEF Newer
  <1>4. Cardinality(Newer(lastSaved, db)) = 0
    BY <1>3, FS_EmptySet
  <1>. QED
    BY <1>1, <1>4 DEF collectItemsToFlush

\* A save makes its content the newest, or changes nothing in the file.
LEMMA SaveLatest ==
    ASSUME FixedZone, StorageInv, LatestInv, NEW c \in Content, SaveContent(c)
    PROVE  LatestInv'
  <1>. DEFINE f == FlushedBySave(c)
  <1>1. /\ Commit(Put(db \ f, c))
        /\ lastSaved' = IF faults' = faults THEN c ELSE lastSaved
        /\ now' = [sec |-> c.sec, frac |-> c.frac]
        /\ captured' = c
    BY DEF SaveContent
  <1>2. \A e \in db : Before(e, c) \/ (e.sec = c.sec /\ e.frac = c.frac)
    BY SavedIsNewest
  <1>3. db \subseteq Content /\ faults \in 0..MaxFaults /\ c # NoContent
    BY StorageAssumption DEF StorageInv, TypeOK
  <1>4. \A e \in db : ~Before(c, e)
    BY <1>2, <1>3, BeforeOrder DEF Before
  <1>5. ~Before(c, c)
    BY BeforeOrder
  <1>6. CASE db' = Put(db \ f, c) /\ faults' = faults
    <2>1. c \in db' /\ \A e \in db' : e = c \/ (e \in db /\ Key(e) # Key(c))
      BY <1>6 DEF Put
    <2>2. \A e \in db' : e = c \/ Before(e, c)
      BY <2>1, <1>2, <1>3, KeyOrder
    <2>3. \A e \in db' : ~Before(now', e)
      BY <2>1, <1>1, <1>4, <1>5 DEF Before
    <2>. QED
      BY <1>1, <1>3, <1>6, <2>1, <2>2, <2>3 DEF LatestInv
  <1>7. CASE db' = db /\ faults' # faults
    <2>1. \A e \in db' : ~Before(now', e)
      BY <1>1, <1>4, <1>7 DEF Before
    <2>. QED
      BY <1>1, <1>7, <2>1 DEF LatestInv
  <1>. QED
    BY <1>1, <1>3, <1>6, <1>7, CommitCases

\* A flush keeps the newest content.
LEMMA FlushLatest ==
    ASSUME FixedZone, StorageInv, LatestInv, owner # "none",
           Commit(Kept(db, keepItems)), UNCHANGED <<now, captured, lastSaved>>
    PROVE  LatestInv'
  <1>1. db' = Kept(db, keepItems) \/ db' = db
    BY CommitCases DEF StorageInv, TypeOK
  <1>2. db' \subseteq db
    BY <1>1 DEF Kept
  <1>3. lastSaved # NoContent => lastSaved \in db'
    BY <1>1, NewestSurvives DEF Kept, LatestInv
  <1>. QED
    BY <1>2, <1>3 DEF LatestInv

\* Every step keeps the strengthening.
LEMMA LatestNext ==
    ASSUME FixedZone, StorageInv, LatestInv, [Next]_vars
    PROVE  LatestInv'
  <1>1. ASSUME NEW p \in Processes, NewBoltStorage(p) PROVE LatestInv'
    BY <1>1 DEF NewBoltStorage, LatestInv
  <1>2. ASSUME NEW c \in Content, SaveContent(c) PROVE LatestInv'
    BY <1>2, SaveLatest
  <1>3. CASE FlushCache
    BY <1>3, FlushLatest DEF FlushCache, Kept
  <1>4. CASE Close
    BY <1>4, FlushLatest DEF Close, Kept, Closers
  <1>5. CASE Exit
    BY <1>5 DEF Exit, LatestInv
  <1>6. CASE UNCHANGED vars
    BY <1>6 DEF vars, LatestInv
  <1>. QED
    BY <1>1, <1>2, <1>3, <1>4, <1>5, <1>6 DEF Next

\* With the strengthening, Cursor.Last is the last committed save.
LEMMA LatestFound ==
    ASSUME FixedZone, StorageInv, LatestInv
    PROVE  LatestIsLastSaved
  <1>. SUFFICES ASSUME lastSaved # NoContent
                PROVE  GetLatestContent(db) = lastSaved
    BY DEF LatestIsLastSaved
  <1>1. lastSaved \in db /\ db \subseteq Content
    BY DEF LatestInv, StorageInv, TypeOK
  <1>2. \A e \in db : ~KeyLess(Key(lastSaved), Key(e))
    BY <1>1, KeyOrder, BeforeOrder, KeyIrreflexive DEF LatestInv
  <1>3. \A e \in db : e # lastSaved => KeyLess(Key(e), Key(lastSaved))
    BY <1>1, KeyOrder DEF LatestInv
  <1>4. \A e \in db : Newer(e, db) = {} <=> e = lastSaved
    BY <1>1, <1>2, <1>3 DEF Newer
  <1>. QED
    BY <1>1, <1>4 DEF GetLatestContent

\* Both invariants together, in every state.
LEMMA LatestInvariant ==
    ASSUME FixedZone
    PROVE  Spec => [](StorageInv /\ LatestInv)
  <1>1. Init => StorageInv /\ LatestInv
    BY InitInv DEF Init, LatestInv
  <1>2. StorageInv /\ LatestInv /\ [Next]_vars => StorageInv' /\ LatestInv'
    BY NextInv, LatestNext
  <1>. QED
    BY <1>1, <1>2, PTL DEF Spec

\* In a fixed zone other than UTC, GetLatestContent returns the content of the
\* last committed save, whatever flushes, exits and failed commits intervene.
THEOREM LatestContent == FixedZone => (Spec => []LatestIsLastSaved)
  <1>. SUFFICES ASSUME FixedZone PROVE Spec => []LatestIsLastSaved
    OBVIOUS
  <1>1. StorageInv /\ LatestInv => LatestIsLastSaved
    BY LatestFound
  <1>. QED
    BY <1>1, LatestInvariant, PTL

(***************************************************************************)
(* The refinement of BoundedHistory.                                       *)
(***************************************************************************)

\* What a flush selects may be dropped from the abstract history.
LEMMA FlushDroppable ==
    ASSUME FixedZone, StorageInv, owner # "none"
    PROVE  History!Droppable(collectItemsToFlush(db, keepItems))
  <1>. DEFINE gone == collectItemsToFlush(db, keepItems)
  <1>1. Bucket(db) /\ keepItems = DefaultKeepItems /\ keepItems \in Nat
    BY InvBucket DEF StorageInv, TypeOK
  <1>2. gone \subseteq db /\ db \subseteq Content
    BY <1>1 DEF collectItemsToFlush, Bucket
  <1>3. ASSUME NEW g \in gone, NEW k \in db \ gone
        PROVE  Before(g, k)
    <2>1. g \in db /\ k \in db /\ g \in Content /\ k \in Content
      BY <1>2
    <2>2. /\ Cardinality(Newer(g, db)) >= keepItems
          /\ Cardinality(Newer(k, db)) < keepItems
      BY <1>1, <1>3, KeptType DEF Kept
    <2>3. Cardinality(Newer(g, db)) \in Nat /\ Cardinality(Newer(k, db)) \in Nat
      BY <1>1, <2>1, NewerFinite
    <2>4. g # k /\ ~KeyLess(Key(k), Key(g))
      BY <1>1, <2>1, <2>2, <2>3, NewerDecreases
    <2>5. Key(g) # Key(k)
      BY <1>1, <2>1, <2>4 DEF Bucket
    <2>. QED
      BY <2>1, <2>4, <2>5, KeyTotal, KeyOrder
  <1>4. ASSUME NEW g \in gone
        PROVE  Cardinality(db \ gone) >= DefaultKeepItems
    <2>1. Cardinality(Newer(g, Kept(db, keepItems))) >= keepItems
      BY <1>1, <1>4, KeptAboveDropped
    <2>2. Newer(g, Kept(db, keepItems)) \subseteq db \ gone /\ IsFiniteSet(db \ gone)
      BY <1>1, KeptType DEF Newer, Kept, Bucket
    <2>3. /\ Cardinality(Newer(g, Kept(db, keepItems))) <= Cardinality(db \ gone)
          /\ Cardinality(Newer(g, Kept(db, keepItems))) \in Nat
          /\ Cardinality(db \ gone) \in Nat
      BY <2>2, FS_Subset, FS_CardinalityType
    <2>. QED
      BY <1>1, <2>1, <2>3
  <1>. HIDE DEF gone
  <1>5. \A g \in gone, k \in db \ gone : History!Older(g, k)
    BY <1>3 DEF History!Older, Before
  <1>6. gone # {} => Cardinality(db \ gone) >= DefaultKeepItems
    BY <1>4
  <1>7. History!Cardinality(db \ gone) = Cardinality(db \ gone)
    BY DEF History!Cardinality, Cardinality
  <1>8. History!Droppable(gone)
    BY <1>5, <1>6, <1>7 DEF History!Droppable
  <1>. QED
    BY <1>8 DEF gone

\* Dropping nothing is always allowed.
LEMMA NothingDroppable == History!Droppable({})
  BY DEF History!Droppable

\* A save is a Record, or leaves the history as it was.
LEMMA SaveRecords ==
    ASSUME FixedZone, StorageInv, LatestInv, NEW c \in Content, SaveContent(c)
    PROVE  History!Record(c) \/ UNCHANGED db
  <1>. DEFINE f == FlushedBySave(c)
  <1>1. owner # "none" /\ Commit(Put(db \ f, c))
    BY DEF SaveContent, Monitors
  <1>2. db \subseteq Content /\ faults \in 0..MaxFaults
    BY DEF StorageInv, TypeOK
  <1>3. f \in SUBSET db /\ History!Droppable(f)
    BY <1>1, FlushDroppable, NothingDroppable, FlushedBySaveType DEF FlushedBySave
  <1>4. \A e \in db : Before(e, c) \/ (e.sec = c.sec /\ e.frac = c.frac)
    BY SavedIsNewest
  <1>5. Put(db \ f, c) = {e \in db \ f : ~(e.sec = c.sec /\ e.frac = c.frac)} \cup {c}
    BY <1>2, <1>3, KeyOrder DEF Put
  <1>. HIDE DEF f
  <1>6. CASE db' = Put(db \ f, c)
    <2>1. \A i \in db : History!Older(i, c) \/ History!SameInstant(i, c)
      BY <1>4 DEF History!Older, History!SameInstant, Before
    <2>2. db' = {i \in db \ f : ~History!SameInstant(i, c)} \cup {c}
      BY <1>5, <1>6 DEF History!SameInstant
    <2>. QED
      BY <1>3, <2>1, <2>2 DEF History!Record
  <1>. QED
    BY <1>1, <1>2, <1>6, CommitCases

\* A flush is a Trim, or leaves the history as it was.
LEMMA FlushTrims ==
    ASSUME FixedZone, StorageInv, owner # "none", Commit(Kept(db, keepItems))
    PROVE  History!Trim \/ UNCHANGED db
  <1>1. db' = Kept(db, keepItems) \/ db' = db
    BY CommitCases DEF StorageInv, TypeOK
  <1>2. collectItemsToFlush(db, keepItems) \in SUBSET db
    BY DEF collectItemsToFlush
  <1>. QED
    BY <1>1, <1>2, FlushDroppable DEF History!Trim, Kept

\* In a fixed zone other than UTC the file implements the bounded history:
\* contents disappear oldest first, and never beyond the newest ones.
THEOREM HistoryRefinement == FixedZone => (Spec => ImplementsHistory)
  <1>. SUFFICES ASSUME FixedZone PROVE Spec => ImplementsHistory
    OBVIOUS
  <1>1. Init => History!Init
    BY DEF Init, History!Init
  <1>2. ASSUME StorageInv, LatestInv, [Next]_vars
        PROVE  [History!Next]_db
    <2>1. ASSUME NEW p \in Processes, NewBoltStorage(p) PROVE UNCHANGED db
      BY <2>1 DEF NewBoltStorage
    <2>2. ASSUME NEW c \in Content, SaveContent(c) PROVE [History!Next]_db
      BY <1>2, <2>2, SaveRecords DEF History!Next
    <2>3. CASE FlushCache
      BY <1>2, <2>3, FlushTrims DEF FlushCache, Kept, History!Next
    <2>4. CASE Close
      BY <1>2, <2>4, FlushTrims DEF Close, Closers, Kept, History!Next
    <2>5. CASE Exit \/ UNCHANGED vars
      BY <2>5 DEF Exit, vars
    <2>. QED
      BY <1>2, <2>1, <2>2, <2>3, <2>4, <2>5 DEF Next
  <1>. QED
    BY <1>1, <1>2, LatestInvariant, PTL DEF Spec, ImplementsHistory, History!Spec

=============================================================================
