------------------------- MODULE HistoryQueryProofs -------------------------
(***************************************************************************)
(* What GetHistory answers, for every file that the storage can produce    *)
(* and every combination of options, on a device whose zone is fixed and   *)
(* not UTC.                                                                *)
(*                                                                         *)
(* Two facts carry the proof: in such a zone Seek splits the bucket at an  *)
(* instant, so that what the loop visits and its filters keep is what the  *)
(* options ask for; and the place of a content in the cursor's walk is the *)
(* number of contents before it in time.                                   *)
(***************************************************************************)
EXTENDS HistoryQuery, BoltStorageProofs

\* Seek splits a bucket at an instant of the same zone.
LEMMA SeekIsSince ==
    ASSUME FixedZone, NEW d, d \subseteq Content, NEW z \in Offsets, NEW t \in Moment(z)
    PROVE  Seek(d, t) = {c \in d : ~Before(c, t)}
<1>1. z \in Int /\ z # 0 /\ Offsets = {z}
  BY DEF FixedZone
<1>2. t.offset = z /\ t.sec \in Int /\ t.frac \in {0, 1}
  BY ContentAssumption DEF Moment
<1>3. \A c \in d : c.offset = z /\ c.sec \in Int /\ c.frac \in {0, 1}
  BY <1>1, ContentAssumption DEF Content
<1>4. \A c \in d : KeyLess(Key(c), Key(t)) <=> Before(c, t)
  BY <1>1, <1>2, <1>3, ZoneKeyOrder
<1> QED
  BY <1>4 DEF Seek

\* What the loop visits and its filters keep is what the options ask for.
LEMMA VisitedIsWanted ==
    ASSUME FixedZone, NEW d, d \subseteq Content,
           NEW z \in Offsets, NEW o \in HistoryOptions(z),
           o.reverse /\ o.before # ZeroTime => Seek(d, o.before) # {}
    PROVE  {c \in Visited(d, o) : Selected(c, o)} = Wanted(d, o)
<1>1. /\ o.reverse \in BOOLEAN
      /\ o.since # ZeroTime => o.since \in Moment(z)
      /\ o.before # ZeroTime => o.before \in Moment(z)
  BY DEF HistoryOptions
<1>2. CASE o.reverse /\ o.before # ZeroTime
  <2>1. Seek(d, o.before) = {c \in d : ~Before(c, o.before)}
    BY <1>1, <1>2, SeekIsSince
  <2>2. Visited(d, o) = d \ Seek(d, o.before)
    BY <1>2 DEF Visited
  <2> QED
    BY <1>2, <2>1, <2>2 DEF Wanted
<1>3. CASE o.reverse /\ o.before = ZeroTime
  BY <1>3 DEF Visited, Wanted
<1>4. CASE ~o.reverse /\ o.since = ZeroTime
  BY <1>4 DEF Visited, Wanted
<1>5. CASE ~o.reverse /\ o.since # ZeroTime
  <2>1. Seek(d, o.since) = {c \in d : ~Before(c, o.since)}
    BY <1>1, <1>5, SeekIsSince
  <2>2. Visited(d, o) = Seek(d, o.since)
    BY <1>5 DEF Visited
  <2> QED
    BY <1>5, <2>1, <2>2 DEF Wanted, Selected
<1> QED
  BY <1>1, <1>2, <1>3, <1>4, <1>5

\* The contents of a bucket are one content, those before it and those after
\* it in time, which are those with larger keys.
LEMMA Ranks ==
    ASSUME FixedZone, NEW d, Bucket(d), NEW c \in d
    PROVE  /\ Cardinality(d) \in Nat
           /\ Cardinality(Newer(c, d)) \in Nat
           /\ Cardinality(Earlier(c, d)) \in Nat
           /\ Cardinality(d) = Cardinality(Newer(c, d)) + Cardinality(Earlier(c, d)) + 1
<1> DEFINE new == Newer(c, d)
           old == Earlier(c, d)
<1>1. IsFiniteSet(d) /\ d \subseteq Content
  BY DEF Bucket
<1>2. /\ IsFiniteSet(new) /\ Cardinality(new) \in Nat
      /\ IsFiniteSet(old) /\ Cardinality(old) \in Nat
      /\ Cardinality(d) \in Nat
  <2>1. new \subseteq d /\ old \subseteq d
    BY DEF Newer, Earlier
  <2> HIDE DEF new, old
  <2> QED
    BY <1>1, <2>1, FS_Subset, FS_CardinalityType
<1>3. \A e \in d : e = c \/ e \in new \/ e \in old
  <2> SUFFICES ASSUME NEW e \in d PROVE e = c \/ e \in new \/ e \in old
    OBVIOUS
  <2>1. KeyLess(Key(c), Key(e)) \/ Key(c) = Key(e) \/ KeyLess(Key(e), Key(c))
    BY <1>1, KeyTotal
  <2>2. KeyLess(Key(e), Key(c)) => Before(e, c)
    BY <1>1, KeyOrder
  <2> QED
    BY <2>1, <2>2 DEF Newer, Earlier, Bucket
<1>4. c \notin new /\ c \notin old
  <2>1. ~KeyLess(Key(c), Key(c))
    BY <1>1, KeyIrreflexive
  <2>2. ~Before(c, c)
    BY <1>1, <2>1, KeyOrder
  <2> QED
    BY <2>1, <2>2 DEF Newer, Earlier
<1>5. new \cap old = {}
  <2> SUFFICES ASSUME NEW e \in d, KeyLess(Key(c), Key(e)), Before(e, c) PROVE FALSE
    BY DEF Newer, Earlier
  <2>1. Before(c, e)
    BY <1>1, KeyOrder
  <2> QED
    BY <1>1, <2>1, BeforeOrder
<1>6. d = (new \cup old) \cup {c}
  BY <1>3 DEF Newer, Earlier
<1> HIDE DEF new, old
<1>7. /\ IsFiniteSet(new \cup old)
      /\ Cardinality(new \cup old) = Cardinality(new) + Cardinality(old)
  <2>1. Cardinality(new \cap old) = 0
    BY <1>5, FS_EmptySet
  <2>2. /\ IsFiniteSet(new \cup old)
        /\ Cardinality(new \cup old)
             = Cardinality(new) + Cardinality(old) - Cardinality(new \cap old)
    BY <1>2, FS_Union
  <2> QED
    BY <1>2, <2>1, <2>2
<1>8. Cardinality(d) = Cardinality(new \cup old) + 1
  <2>1. c \notin new \cup old
    BY <1>4
  <2> QED
    BY <1>6, <1>7, <2>1, FS_AddElement
<1> QED
  BY <1>2, <1>7, <1>8 DEF new, old

\* The cursor's walk is in time order, in both directions.
LEMMA WalkIsTimeOrder ==
    ASSUME FixedZone, NEW d, Bucket(d), NEW reverse \in BOOLEAN
    PROVE  Walk(d, reverse) = InTimeOrder(d, reverse)
<1> DEFINE n == Cardinality(d)
<1>1. ASSUME NEW i \in 1..n
      PROVE  /\ \A c \in d : Cardinality(Newer(c, d)) = n - i
                               <=> Cardinality(Earlier(c, d)) = i - 1
             /\ \A c \in d : Cardinality(Newer(c, d)) = i - 1
                               <=> Cardinality(Earlier(c, d)) = n - i
  BY Ranks
<1>2. CASE reverse
  <2>1. \A i \in 1..n :
          (CHOOSE c \in d : Cardinality(Newer(c, d)) = i - 1)
            = (CHOOSE c \in d : Cardinality(Earlier(c, d)) = n - i)
    BY <1>1
  <2>2. Walk(d, reverse) = Descending(d)
    BY <1>2 DEF Walk
  <2>3. InTimeOrder(d, reverse)
          = [i \in 1..n |-> CHOOSE c \in d : Cardinality(Earlier(c, d)) = n - i]
    BY <1>2 DEF InTimeOrder
  <2> QED
    BY <2>1, <2>2, <2>3 DEF Descending
<1>3. CASE ~reverse
  <2>1. \A i \in 1..n :
          (CHOOSE c \in d : Cardinality(Newer(c, d)) = n - i)
            = (CHOOSE c \in d : Cardinality(Earlier(c, d)) = i - 1)
    BY <1>1
  <2>2. Walk(d, reverse) = Ascending(d)
    BY <1>3 DEF Walk
  <2>3. InTimeOrder(d, reverse)
          = [i \in 1..n |-> CHOOSE c \in d : Cardinality(Earlier(c, d)) = i - 1]
    BY <1>3 DEF InTimeOrder
  <2> QED
    BY <2>1, <2>2, <2>3 DEF Ascending
<1> QED
  BY <1>2, <1>3

\* Of two contents of a bucket, the one with more contents before it is the
\* later one.
LEMMA RankOrder ==
    ASSUME FixedZone, NEW d, Bucket(d), NEW a \in d, NEW b \in d
    PROVE  Cardinality(Earlier(a, d)) < Cardinality(Earlier(b, d)) <=> Before(a, b)
<1>1. d \subseteq Content
  BY DEF Bucket
<1>2. ASSUME NEW x \in d, NEW y \in d, Before(x, y)
      PROVE  Cardinality(Earlier(x, d)) < Cardinality(Earlier(y, d))
  <2>1. KeyLess(Key(x), Key(y))
    BY <1>1, <1>2, KeyOrder
  <2>2. Cardinality(Newer(y, d)) < Cardinality(Newer(x, d))
    BY <2>1, NewerDecreases
  <2>3. /\ Cardinality(d) = Cardinality(Newer(x, d)) + Cardinality(Earlier(x, d)) + 1
        /\ Cardinality(Newer(x, d)) \in Nat /\ Cardinality(Earlier(x, d)) \in Nat
    BY Ranks
  <2>4. /\ Cardinality(d) = Cardinality(Newer(y, d)) + Cardinality(Earlier(y, d)) + 1
        /\ Cardinality(Newer(y, d)) \in Nat /\ Cardinality(Earlier(y, d)) \in Nat
    BY Ranks
  <2> QED
    BY <2>2, <2>3, <2>4
<1>3. Before(a, b) \/ Before(b, a) \/ a = b
  <2>1. Before(a, b) \/ Before(b, a) \/ (a.sec = b.sec /\ a.frac = b.frac)
    BY <1>1, BeforeOrder
  <2>2. a.sec = b.sec /\ a.frac = b.frac => a = b
    BY <1>1, KeyOrder DEF Bucket
  <2> QED
    BY <2>1, <2>2
<1>4. Cardinality(Earlier(a, d)) \in Nat /\ Cardinality(Earlier(b, d)) \in Nat
  BY Ranks
<1> QED
  BY <1>2, <1>3, <1>4

\* Every rank below the number of contents is that of a content.
LEMMA RankExists ==
    ASSUME FixedZone, NEW d, Bucket(d), NEW k \in 0..(Cardinality(d) - 1)
    PROVE  \E c \in d : Cardinality(Earlier(c, d)) = k
<1> DEFINE n == Cardinality(d)
           rank == [c \in d |-> Cardinality(Earlier(c, d))]
<1>1. IsFiniteSet(d) /\ n \in Nat /\ d \subseteq Content
  BY FS_CardinalityType DEF Bucket
<1>2. rank \in [d -> 0..(n - 1)]
  BY Ranks
<1>3. ASSUME NEW a \in d, NEW b \in d, rank[a] = rank[b] PROVE a = b
  <2>1. Cardinality(Earlier(a, d)) \in Nat /\ Cardinality(Earlier(b, d)) \in Nat
    BY Ranks
  <2>2. ~Before(a, b) /\ ~Before(b, a)
    BY <1>3, <2>1, RankOrder
  <2>3. a.sec = b.sec /\ a.frac = b.frac
    BY <1>1, <2>2, BeforeOrder
  <2> QED
    BY <1>1, <2>3, KeyOrder DEF Bucket
<1>4. IsFiniteSet(0..(n - 1)) /\ Cardinality(0..(n - 1)) = n
  <2> HIDE DEF n
  <2>1. /\ IsFiniteSet(0..(n - 1))
        /\ Cardinality(0..(n - 1)) = IF 0 > n - 1 THEN 0 ELSE n - 1 - 0 + 1
    BY <1>1, FS_Interval
  <2> QED
    BY <1>1, <2>1
<1>5. rank \in Injection(d, 0..(n - 1))
  BY <1>2, <1>3 DEF Injection, IsInjective
<1>6. rank \in Surjection(d, 0..(n - 1))
  <2> HIDE DEF rank
  <2> QED
    BY <1>4, <1>5, FS_Injection
<1> QED
  BY <1>6 DEF Surjection

\* The list that HistoryAnswers compares with is what a reader expects of a
\* listing: it has every content of d once, each before the next in time, or
\* after it when the listing is reversed.
THEOREM ListedOnceInOrder ==
    ASSUME FixedZone, NEW d, Bucket(d), NEW reverse \in BOOLEAN
    PROVE  /\ InTimeOrder(d, reverse) \in [1..Cardinality(d) -> d]
           /\ \A c \in d : \E i \in 1..Cardinality(d) : InTimeOrder(d, reverse)[i] = c
           /\ \A i, j \in 1..Cardinality(d) :
                i < j => IF reverse
                         THEN Before(InTimeOrder(d, reverse)[j], InTimeOrder(d, reverse)[i])
                         ELSE Before(InTimeOrder(d, reverse)[i], InTimeOrder(d, reverse)[j])
<1> DEFINE n == Cardinality(d)
           place(i) == IF reverse THEN n - i ELSE i - 1
           s == InTimeOrder(d, reverse)
<1>1. n \in Nat
  BY FS_CardinalityType DEF Bucket
<1>2. s = [i \in 1..n |-> CHOOSE c \in d : Cardinality(Earlier(c, d)) = place(i)]
  BY DEF InTimeOrder
<1>3. ASSUME NEW i \in 1..n
      PROVE  s[i] \in d /\ Cardinality(Earlier(s[i], d)) = place(i)
  <2>1. place(i) \in 0..(n - 1)
    BY <1>1
  <2>2. \E c \in d : Cardinality(Earlier(c, d)) = place(i)
    BY <2>1, RankExists
  <2>3. s[i] = CHOOSE c \in d : Cardinality(Earlier(c, d)) = place(i)
    BY <1>2
  <2> HIDE DEF s, place
  <2> QED
    BY <2>2, <2>3
<1>4. s \in [1..n -> d]
  <2> HIDE DEF place
  <2> QED
    BY <1>2, <1>3
<1>5. ASSUME NEW c \in d
      PROVE  \E i \in 1..n : s[i] = c
  <2> DEFINE k == Cardinality(Earlier(c, d))
             i == IF reverse THEN n - k ELSE k + 1
  <2>1. k \in 0..(n - 1)
    BY Ranks
  <2>2. i \in 1..n /\ place(i) = k
    BY <1>1, <2>1
  <2> HIDE DEF i, place, s
  <2>3. s[i] \in d /\ Cardinality(Earlier(s[i], d)) = k
    BY <1>3, <2>2
  <2>4. ~Before(s[i], c) /\ ~Before(c, s[i])
    BY <2>1, <2>3, RankOrder
  <2>5. s[i] = c
    BY <2>3, <2>4, BeforeOrder, KeyOrder DEF Bucket
  <2> QED
    BY <2>2, <2>5
<1>6. ASSUME NEW i \in 1..n, NEW j \in 1..n, i < j
      PROVE  IF reverse THEN Before(s[j], s[i]) ELSE Before(s[i], s[j])
  <2>1. /\ s[i] \in d /\ Cardinality(Earlier(s[i], d)) = place(i)
        /\ s[j] \in d /\ Cardinality(Earlier(s[j], d)) = place(j)
    BY <1>3
  <2>2. IF reverse THEN place(j) < place(i) ELSE place(i) < place(j)
    BY <1>1, <1>6
  <2> HIDE DEF s, place
  <2> QED
    BY <2>1, <2>2, RankOrder
<1> QED
  BY <1>4, <1>5, <1>6

\* HistoryAnswers of HistoryQuery: on a device whose zone is fixed and not
\* UTC, every answerable query of the history command is answered with exactly
\* what its options ask for, in time order, whatever the file has been through.
THEOREM QueriesAnswered == FixedZone => (Spec => []HistoryAnswers)
<1> SUFFICES ASSUME FixedZone PROVE Spec => []HistoryAnswers
  OBVIOUS
<1>1. StorageInv => HistoryAnswers
  <2> SUFFICES ASSUME StorageInv, NEW z \in Offsets, NEW o \in HistoryOptions(z),
                      Answerable(db, o)
               PROVE  GetHistory(db, o) = Answer(db, o)
    BY DEF HistoryAnswers
  <2>1. Bucket(db) /\ db \subseteq Content
    BY InvBucket DEF Bucket
  <2>2. {c \in Visited(db, o) : Selected(c, o)} = Wanted(db, o)
    BY <2>1, VisitedIsWanted DEF Answerable
  <2>3. Bucket(Wanted(db, o))
    <3>1. Wanted(db, o) \subseteq db
      BY DEF Wanted
    <3> QED
      BY <2>1, <3>1, FS_Subset DEF Bucket
  <2>4. o.reverse \in BOOLEAN
    BY DEF HistoryOptions
  <2>5. Walk(Wanted(db, o), o.reverse) = InTimeOrder(Wanted(db, o), o.reverse)
    BY <2>3, <2>4, WalkIsTimeOrder
  <2> QED
    BY <2>2, <2>5 DEF GetHistory, Answer
<1> QED
  BY <1>1, StorageInvariant, PTL

=============================================================================
