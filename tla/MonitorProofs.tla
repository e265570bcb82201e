--------------------------- MODULE MonitorProofs ---------------------------
(***************************************************************************)
(* What Monitor promises of its poller, for any items, channel capacity,   *)
(* skip threshold, ring and number of copies, failures and restarts.       *)
(*                                                                         *)
(* A content is handed over by pointer: what the Monitor normalises in     *)
(* place is, for one read, the very object that Read has cached.  Whether  *)
(* a read is saved twice, or never, is therefore decided by facts about    *)
(* the contents between the poller and the Monitor (Flight) and about what *)
(* the cache, lastContent and lastContentHash say of them; Pipeline is the *)
(* conjunction of those facts.                                             *)
(***************************************************************************)
EXTENDS Monitor, FiniteSetTheorems, SequenceTheorems, TLAPS

\* hashContent tells the items apart, and no item hashes to the empty string
\* that lastContentHash starts with.
HashFaithful ==
    \A i, j \in Items : HashOf[i] # "none" /\ (HashOf[i] = HashOf[j] => i = j)

\* The poller is the only producer so far, and nothing has been stopped.
Live == running /\ ~heard /\ ~stopCh

\* What the poller has read and the Monitor has not met, oldest first.
Flight ==
    IF held["poller"] = Nothing THEN contentCh ELSE Append(contentCh, held["poller"])

AsSaved(c) == [item |-> c.item, type |-> c.type, created |-> c.created]

\* m is a real read that the Monitor has not processed.
Original(m) ==
    /\ m.shared
    /\ m.item \in Rich => m.type = "rich"
    /\ lastContent # Nothing => m.created # lastContent.created

\* m is a clone of what the Monitor has processed last.
Copied(m) == AsSaved(m) = lastContent

\* The goroutines end with the process.
Life == ~running => mode = "none" /\ ~polling /\ ~heard

\* What the Monitor keeps and saves has lost its rich type.
Normal == \A c \in {lastContent, stored} \ {Nothing} : c.type = "text"

\* Only a poller has read anything, and it starts afresh.
Quiet ==
    /\ held["events"] = Nothing
    /\ ~polling => Flight = <<>> /\ lastRead = Nothing
    /\ cache = Nothing <=> lastRead = Nothing
    /\ lastRead = Nothing => lastHash = "none"

\* A clone is only ever the oldest content on its way.
Order ==
    \A k \in 1..Len(Flight) : Original(Flight[k]) \/ (k = 1 /\ Copied(Flight[k]))

\* No capture is on its way twice.
Distinct ==
    \A j, k \in 1..Len(Flight) : Flight[j].created = Flight[k].created => j = k

\* The cache holds what was read last, and its hash is the last one ...
CacheRead == cache.item = lastRead /\ lastHash = HashOf[lastRead]

\* ... or what the Monitor made of it, and then no other read is on its way.
CacheSaved ==
    /\ cache.item \in {lastRead, Trim[lastRead]} /\ lastRead \notin Oversize
    /\ lastRead \in Rich => cache.item = lastRead
    /\ Copied(cache)
    /\ \A k \in 1..Len(Flight) : Copied(Flight[k])
    /\ lastHash = HashOf[cache.item] \/ Flight = <<>>
    /\ lastHash \in {HashOf[lastRead], HashOf[cache.item]}

Cached == cache # Nothing => CacheRead \/ CacheSaved

\* The object that the cache shares with a read on its way is that of the
\* newest read.
SharedLast ==
    cache # Nothing =>
        \A k \in 1..Len(Flight) :
            Original(Flight[k]) /\ Flight[k].created = cache.created
              => k = Len(Flight) /\ Flight[k].item = lastRead

\* m will leave the Monitor with the last item read.
Fits(m) ==
    \/ Original(m) /\ m.item = lastRead
    \/ Copied(m) /\ Captured(lastRead)

\* The last item read is on its way or has arrived.
Delivered ==
    lastRead \notin Oversize \cup {Nothing} =>
        /\ Flight # <<>> => Fits(Flight[Len(Flight)])
        /\ Flight = <<>> => Captured(lastRead)

Pipeline ==
    Live => /\ Quiet /\ Order /\ Distinct /\ Cached /\ SharedLast
            /\ HashFaithful => Delivered

MonitorInv == TypeOK /\ Life /\ Normal /\ OneSavePerRead /\ Pipeline
-----------------------------------------------------------------------------
(***************************************************************************)
(* Stamps, reads and the contents on their way.                            *)
(***************************************************************************)

\* A finite set grows by at most one with one element more.
LEMMA AddOne ==
    ASSUME NEW S, IsFiniteSet(S), NEW x, NEW k \in Nat, Cardinality(S) <= k
    PROVE  IsFiniteSet(S \cup {x}) /\ Cardinality(S \cup {x}) <= k + 1
<1>1. Cardinality(S) \in Nat
  BY FS_CardinalityType
<1> QED
  BY <1>1, FS_AddElement

\* There is a stamp that no content alive has, so a read is told apart from
\* every other capture.
LEMMA CreatedFresh ==
    ASSUME TypeOK
    PROVE  /\ Created \in Stamps
           /\ \A c \in LiveContents \ {Nothing} : c.created # Created
<1> DEFINE n == Len(contentCh)
           sent == {contentCh[i] : i \in 1..n}
           live == LiveContents \ {Nothing}
           used == {c.created : c \in live}
<1>1. n \in Nat /\ n <= ChanCap /\ DOMAIN contentCh = 1..n
  BY ClipboardAssumption DEF TypeOK
<1>2. IsFiniteSet(sent) /\ Cardinality(sent) <= n
  <2> DEFINE f == [i \in 1..n |-> contentCh[i]]
  <2>1. f \in Surjection(1..n, sent)
    BY DEF Surjection
  <2>2. IsFiniteSet(1..n) /\ Cardinality(1..n) = n
    <3> HIDE DEF n
    <3>1. /\ IsFiniteSet(1..n)
          /\ Cardinality(1..n) = IF 1 > n THEN 0 ELSE n - 1 + 1
      BY <1>1, FS_Interval
    <3> QED
      BY <1>1, <3>1
  <2> QED
    BY <2>1, <2>2, FS_Surjection
<1>3. IsFiniteSet(live) /\ Cardinality(live) <= n + 5 /\ Cardinality(live) \in Nat
  <2> DEFINE s1 == sent \cup {cache}
             s2 == s1 \cup {lastContent}
             s3 == s2 \cup {stored}
             s4 == s3 \cup {held["events"]}
             s5 == s4 \cup {held["poller"]}
  <2>1. IsFiniteSet(s1) /\ Cardinality(s1) <= n + 1
    BY <1>1, <1>2, AddOne
  <2>2. IsFiniteSet(s2) /\ Cardinality(s2) <= n + 2
    <3> HIDE DEF s1, n
    <3> QED BY <1>1, <2>1, AddOne, n + 1 \in Nat, n + 1 + 1 = n + 2
  <2>3. IsFiniteSet(s3) /\ Cardinality(s3) <= n + 3
    <3> HIDE DEF s2, n
    <3> QED BY <1>1, <2>2, AddOne, n + 2 \in Nat, n + 2 + 1 = n + 3
  <2>4. IsFiniteSet(s4) /\ Cardinality(s4) <= n + 4
    <3> HIDE DEF s3, n
    <3> QED BY <1>1, <2>3, AddOne, n + 3 \in Nat, n + 3 + 1 = n + 4
  <2>5. IsFiniteSet(s5) /\ Cardinality(s5) <= n + 5
    <3> HIDE DEF s4, n
    <3> QED BY <1>1, <2>4, AddOne, n + 4 \in Nat, n + 4 + 1 = n + 5
  <2>6. Cardinality(s5) \in Nat
    BY <2>5, FS_CardinalityType
  <2>7. live \subseteq s5
    BY <1>1 DEF LiveContents, Producers
  <2> HIDE DEF s5, live
  <2>8. IsFiniteSet(live) /\ Cardinality(live) <= Cardinality(s5)
    BY <2>5, <2>7, FS_Subset
  <2>9. Cardinality(live) \in Nat
    BY <2>8, FS_CardinalityType
  <2> QED
    BY <1>1, <2>5, <2>6, <2>8, <2>9
<1>4. IsFiniteSet(used) /\ Cardinality(used) <= n + 5 /\ Cardinality(used) \in Nat
  <2> DEFINE g == [c \in live |-> c.created]
  <2> HIDE DEF live
  <2>1. g \in Surjection(live, used)
    BY DEF Surjection
  <2>2. IsFiniteSet(used) /\ Cardinality(used) <= Cardinality(live)
    BY <1>3, <2>1, FS_Surjection
  <2>3. Cardinality(used) \in Nat
    BY <2>2, FS_CardinalityType
  <2> QED
    BY <1>1, <1>3, <2>2, <2>3
<1>5. \E s \in Stamps : s \notin used
  <2> HIDE DEF used, n
  <2> SUFFICES ASSUME Stamps \subseteq used PROVE FALSE
    OBVIOUS
  <2>1. IsFiniteSet(Stamps) /\ Cardinality(Stamps) <= Cardinality(used)
    BY <1>4, FS_Subset
  <2>2. Cardinality(Stamps) \in Nat
    BY <2>1, FS_CardinalityType
  <2> QED
    BY <1>1, <1>4, <2>1, <2>2, StampAssumption, ClipboardAssumption
<1>6. \E s \in Stamps : \A c \in live : c.created # s
  BY <1>5
<1> QED
  BY <1>6 DEF Created

\* What the readers bring is an item with a type and the formats listed, and a
\* rich item has the type of one.
LEMMA ReadingType ==
    ASSUME TypeOK, clip # Nothing, NEW g \in Readings
    PROVE  /\ g.item \in Items
           /\ g.type \in {"rich", "text"}
           /\ g.item \in Rich => g.type = "rich"
           /\ g.formats \in {"rich", "text"}
           /\ g.failed \in {0, 1}
<1>1. clip \in Items
  BY DEF TypeOK
<1>2. CASE g = Reading(clip, TypeOf(clip), FormatsOf(clip), 0)
  BY <1>1, <1>2 DEF Reading, TypeOf, FormatsOf
<1>3. CASE clip \in Rich /\ g \in TextReadings
  <2>1. Plain[clip] \in Items /\ Plain[clip] \notin Rich
    BY <1>3, ClipboardAssumption
  <2>2. /\ g.item = Plain[clip] /\ g.type \in {"rich", "text"}
        /\ g.formats \in {"rich", "text"} /\ g.failed \in {0, 1}
    BY <1>3 DEF TextReadings, Reading
  <2> QED
    BY <2>1, <2>2
<1> QED
  BY <1>2, <1>3 DEF Readings

\* What a real read of the clipboard returns is a content.
LEMMA ContentOfType ==
    ASSUME TypeOK, clip # Nothing, NEW g \in Readings
    PROVE  /\ ContentOf(g, Created) \in Contents
           /\ ContentOf(g, Created) # Nothing
<1>1. Created \in Stamps
  BY CreatedFresh
<1>2. g.item \in Items /\ g.type \in {"rich", "text"}
  BY ReadingType
<1>3. ContentOf(g, Created) \in Contents
  BY <1>1, <1>2 DEF ContentOf, Contents
<1> QED
  BY <1>3, StampAssumption

\* A read takes its result from the cache, fails, or stamps what the readers
\* brought.
LEMMA ReadCases ==
    ASSUME NEW r \in Read(Created)
    PROVE  \/ cacheValid /\ r = CacheHit
           \/ r = ReadFailure
           \/ clip # Nothing /\ \E g \in Readings :
                 \/ g.item = lastRead /\ r = Unchanged(g, Created)
                 \/ g.item # lastRead /\ r = Fresh(g, Created)
  BY DEF Read

\* What it returns, caches and remembers is of the right type.
LEMMA ReadType ==
    ASSUME TypeOK, NEW r \in Read(Created)
    PROVE  /\ r.content \in Contents \cup {Nothing}
           /\ r.cache \in Contents \cup {Nothing}
           /\ r.formats \in {"none", "rich", "text"}
           /\ r.valid \in BOOLEAN
           /\ r.valid => r.cache # Nothing
           /\ r.last \in Items \cup {Nothing}
           /\ r.failed \in {0, 1}
<1>1. CASE cacheValid /\ r = CacheHit
  <2>1. cache \in Contents /\ cache # Nothing
    BY <1>1 DEF TypeOK
  <2>2. [cache EXCEPT !.shared = FALSE] \in Contents
    BY <2>1 DEF Contents
  <2> QED
    BY <1>1, <2>1, <2>2 DEF CacheHit, Outcome, TypeOK
<1>2. CASE r = ReadFailure
  BY <1>2 DEF ReadFailure, Outcome, TypeOK
<1>3. ASSUME clip # Nothing, NEW g \in Readings,
             r = Unchanged(g, Created) \/ r = Fresh(g, Created)
      PROVE  /\ r.content \in Contents \cup {Nothing}
             /\ r.cache \in Contents \cup {Nothing}
             /\ r.formats \in {"none", "rich", "text"}
             /\ r.valid \in BOOLEAN
             /\ r.valid => r.cache # Nothing
             /\ r.last \in Items \cup {Nothing}
             /\ r.failed \in {0, 1}
  <2>1. /\ ContentOf(g, Created) \in Contents /\ ContentOf(g, Created) # Nothing
        /\ g.item \in Items /\ g.formats \in {"rich", "text"} /\ g.failed \in {0, 1}
    BY <1>3, ContentOfType, ReadingType
  <2>2. CASE r = Fresh(g, Created)
    BY <2>1, <2>2 DEF Fresh, Outcome
  <2>3. CASE r = [Fresh(g, Created) EXCEPT !.content = Nothing]
    <3>1. /\ r.content = Nothing /\ r.cache = ContentOf(g, Created)
          /\ r.formats = g.formats /\ r.valid = TRUE
          /\ r.last = g.item /\ r.failed = g.failed
      BY <2>3 DEF Fresh, Outcome
    <3> QED
      BY <2>1, <3>1
  <2>4. CASE r = Outcome(Nothing, cache, cacheFormats, FALSE, lastRead, g.failed)
    BY <2>1, <2>4 DEF Outcome, TypeOK
  <2> QED
    BY <1>3, <2>2, <2>3, <2>4 DEF Unchanged
<1> QED
  BY <1>1, <1>2, <1>3, ReadCases

\* The state after a read has the right types.
LEMMA AfterReadType ==
    ASSUME TypeOK, NEW r \in Read(Created), AfterRead(r)
    PROVE  /\ errors' \in 0..MaxErrors
           /\ cache' \in Contents \cup {Nothing}
           /\ cacheValid' \in BOOLEAN
           /\ cacheValid' => cache' # Nothing
           /\ cacheFormats' \in {"none", "rich", "text"}
           /\ lastRead' \in Items \cup {Nothing}
<1>1. r.failed \in {0, 1}
  BY ReadType
<1>2. errors' \in 0..MaxErrors
  BY <1>1, ClipboardAssumption DEF AfterRead, TypeOK
<1>3. /\ cache' \in Contents \cup {Nothing}
      /\ cacheValid' \in BOOLEAN
      /\ cacheValid' => cache' # Nothing
      /\ cacheFormats' \in {"none", "rich", "text"}
      /\ lastRead' \in Items \cup {Nothing}
  BY ReadType DEF AfterRead
<1> QED
  BY <1>2, <1>3

\* A goroutine that holds a content, or none, keeps held a function.
LEMMA HeldType ==
    ASSUME TypeOK, NEW p \in Producers, NEW c \in Contents \cup {Nothing},
           held' = [held EXCEPT ![p] = c]
    PROVE  /\ held' \in [Producers -> Contents \cup {Nothing}]
           /\ held'[p] = c
           /\ \A q \in Producers \ {p} : held'[q] = held[q]
  BY DEF TypeOK
-----------------------------------------------------------------------------
(***************************************************************************)
(* Type correctness.                                                       *)
(***************************************************************************)

\* A notification: the events goroutine reads and holds what it read.
ReadsEvent ==
    /\ ReadAndHold(Created)
    /\ pending' \in Nat /\ heard' = TRUE /\ mode # "none"
    /\ UNCHANGED <<sessionVars, mode, helper, pollVars, contentCh, stopCh>>

\* A helper's end: the events goroutine leaves it to a poller.
FallsBack ==
    /\ StartPolling
    /\ mode # "none"
    /\ mode' = "none" \/ (mode' = "alternative" /\ helper' = "done")
    /\ helper' \in {helper, "done"}
    /\ ~(mode = "alternative" /\ helper = "done")
    /\ UNCHANGED <<sessionVars, readVars, pending, heard, held, contentCh, stopCh>>

\* What the events goroutine does is one of three things.
LEMMA WatchCases ==
    ASSUME TypeOK, Watch(Created)
    PROVE  ReadsEvent \/ FallsBack \/ WaylandCloses
<1>1. CASE XFixesChange(Created)
  BY <1>1 DEF XFixesChange, Waiting, ReadsEvent
<1>2. CASE XFixesDied
  BY <1>2 DEF XFixesDied, Waiting, FallsBack
<1>3. CASE XpropLine(Created)
  BY <1>3 DEF XpropLine, Waiting, ReadsEvent, TypeOK
<1>4. CASE XpropEnds
  BY <1>4 DEF XpropEnds, Waiting, FallsBack
<1>5. CASE WaylandChange(Created)
  BY <1>5 DEF WaylandChange, Waiting, ReadsEvent
<1>6. CASE AlternativeLine(Created)
  BY <1>6 DEF AlternativeLine, Waiting, ReadsEvent, TypeOK
<1>7. CASE AlternativeEnds
  BY <1>7 DEF AlternativeEnds, FallsBack
<1> QED
  BY <1>1, <1>2, <1>3, <1>4, <1>5, <1>6, <1>7 DEF Watch

\* The events goroutine keeps the types, and leaves at most one goroutine
\* reading unless the alternative Wayland method's output has ended.
LEMMA WatchTypes ==
    ASSUME TypeOK, Watching
    PROVE  TypeOK'
<1> USE DEF monitorVars, pollVars, readVars, sessionVars
<1>1. CASE ReadsEvent
  <2>1. PICK r \in Read(Created) :
          /\ AfterRead(r)
          /\ held' = [held EXCEPT !["events"] = r.content]
    BY <1>1 DEF ReadsEvent, ReadAndHold
  <2>2. held' \in [Producers -> Contents \cup {Nothing}]
    BY <2>1, ReadType, HeldType DEF Producers
  <2>3. /\ errors' \in 0..MaxErrors
        /\ cache' \in Contents \cup {Nothing}
        /\ cacheValid' \in BOOLEAN
        /\ cacheValid' => cache' # Nothing
        /\ cacheFormats' \in {"none", "rich", "text"}
        /\ lastRead' \in Items \cup {Nothing}
    BY <2>1, AfterReadType
  <2> QED
    BY <1>1, <2>2, <2>3 DEF Watching, ReadsEvent, TypeOK
<1>2. CASE FallsBack
  <2>1. skipCounter' \in 0..SkipThreshold - 1
    BY <1>2, ClipboardAssumption DEF FallsBack, StartPolling
  <2>2. /\ mode' \in {"alternative", "none"}
        /\ formats' \in {"none", "rich", "text"}
        /\ polling' /\ mode' # "none" => mode' = "alternative" /\ helper' = "done"
        /\ helper' \in {"up", "down", "done"}
        /\ polling' \in BOOLEAN
    BY <1>2 DEF FallsBack, StartPolling, TypeOK
  <2> QED
    BY <1>2, <2>1, <2>2 DEF Watching, FallsBack, TypeOK
<1>3. CASE WaylandCloses
  <2>1. ~polling
    BY <1>3 DEF WaylandCloses, Waiting, TypeOK
  <2> QED
    BY <1>3, <2>1 DEF Watching, WaylandCloses, TypeOK
<1> QED
  BY <1>1, <1>2, <1>3, WatchCases DEF Watching

\* The poller keeps the types; its skip counter stays below the threshold.
LEMMA PollTypes ==
    ASSUME TypeOK, Polling
    PROVE  TypeOK'
<1> USE DEF monitorVars, pollVars, readVars, helperVars, sessionVars
<1>1. CASE PollSkips
  <2>1. skipCounter' \in 0..SkipThreshold - 1
    BY <1>1, ClipboardAssumption DEF PollSkips, TypeOK
  <2> QED
    BY <1>1, <2>1 DEF Polling, PollSkips, TypeOK
<1>2. CASE PollFails
  <2>1. errors' \in 0..MaxErrors
    BY <1>2, ClipboardAssumption DEF PollFails, TypeOK
  <2> QED
    BY <1>2, <2>1 DEF Polling, PollFails, TypeOK
<1>3. CASE PollReads(Created)
  <2>1. PICK r \in Read(Created) :
          /\ AfterRead(r)
          /\ held' = IF HashChanged(r) THEN [held EXCEPT !["poller"] = r.content] ELSE held
    BY <1>3 DEF PollReads
  <2>2. held' \in [Producers -> Contents \cup {Nothing}]
    <3>1. CASE HashChanged(r)
      BY <2>1, <3>1, ReadType, HeldType DEF Producers
    <3>2. CASE ~HashChanged(r)
      BY <2>1, <3>2 DEF TypeOK
    <3> QED
      BY <3>1, <3>2
  <2>3. /\ errors' \in 0..MaxErrors
        /\ cache' \in Contents \cup {Nothing}
        /\ cacheValid' \in BOOLEAN
        /\ cacheValid' => cache' # Nothing
        /\ cacheFormats' \in {"none", "rich", "text"}
        /\ lastRead' \in Items \cup {Nothing}
    BY <2>1, AfterReadType
  <2>4. skipCounter' \in 0..SkipThreshold - 1
    BY <1>3, ClipboardAssumption DEF PollReads
  <2>5. formats' \in {"none", "rich", "text"}
    BY <1>3 DEF PollReads, AvailableFormats, FormatsOf, TypeOf, TypeOK
  <2> QED
    BY <1>3, <2>2, <2>3, <2>4, <2>5 DEF Polling, PollReads, TypeOK
<1> QED
  BY <1>1, <1>2, <1>3 DEF Polling, Poll

\* A send waits for room, and a stop lets go of what is held.
LEMMA SendStopTypes ==
    ASSUME TypeOK, (\E p \in Producers : Sending(p)) \/ Stopping
    PROVE  TypeOK'
<1> USE DEF monitorVars, pollVars, readVars, helperVars, sessionVars
<1>1. ASSUME NEW p \in Producers, Sending(p) PROVE TypeOK'
  <2>1. held[p] \in Contents
    BY <1>1 DEF Sending, Send, TypeOK
  <2>2. contentCh' \in Seq(Contents) /\ Len(contentCh') = Len(contentCh) + 1
    BY <1>1, <2>1 DEF Sending, Send, TypeOK
  <2>3. Len(contentCh') <= ChanCap
    BY <1>1, <2>2, ClipboardAssumption DEF Sending, Send, TypeOK
  <2>4. held' \in [Producers -> Contents \cup {Nothing}]
    BY <1>1, HeldType DEF Sending, Send
  <2> QED
    BY <1>1, <2>2, <2>3, <2>4 DEF Sending, Send, TypeOK
<1>2. CASE Stopping
  <2>1. held' \in [Producers -> Contents \cup {Nothing}]
    BY <1>2, HeldType DEF Stopping, EventsStop, PollerStops, Producers
  <2>2. CASE EventsStop
    BY <1>2, <2>1, <2>2 DEF Stopping, EventsStop, TypeOK
  <2>3. CASE PollerStops
    BY <1>2, <2>1, <2>3 DEF Stopping, PollerStops, TypeOK
  <2> QED
    BY <1>2, <2>2, <2>3 DEF Stopping
<1> QED
  BY <1>1, <1>2

\* The user, the clock and the helper's death keep the types.
LEMMA EnvironmentTypes ==
    ASSUME TypeOK, Environment, UNCHANGED <<monitorVars, running, starts>>
    PROVE  TypeOK'
<1> USE DEF monitorVars, pollVars, readVars, helperVars, sessionVars
<1>1. ASSUME NEW i \in Items, Copy(i) PROVE TypeOK'
  <2>1. copies' \in 0..MaxCopies
    BY <1>1, ClipboardAssumption DEF Copy, TypeOK
  <2>2. pending' \in Nat
    BY <1>1 DEF Copy, Notified, TypeOK
  <2> QED
    BY <1>1, <2>1, <2>2 DEF Copy, TypeOK
<1>2. CASE CacheExpires
  BY <1>2 DEF CacheExpires, TypeOK
<1>3. CASE HelperDies
  <2>1. ~polling
    BY <1>3 DEF HelperDies, TypeOK
  <2>2. pending' \in Nat
    BY <1>3 DEF HelperDies, TypeOK
  <2> QED
    BY <1>3, <2>1, <2>2 DEF HelperDies, TypeOK
<1> QED
  BY <1>1, <1>2, <1>3 DEF Environment

\* What the Monitor makes of a content: only one of type text is trimmed.
LEMMA ProcessedType ==
    ASSUME NEW m \in Contents
    PROVE  /\ Processed(m) \in SavedContents
           /\ Processed(m).item \in Items
           /\ Processed(m).type = "text"
           /\ Processed(m).created = m.created
           /\ Processed(m).item \in {m.item, Trim[m.item]}
           /\ m.type = "rich" => Processed(m).item = m.item
<1>1. m.item \in Items /\ m.created \in Stamps /\ m.type \in {"rich", "text"}
  BY DEF Contents
<1>2. Trim[m.item] \in Items
  BY <1>1, ClipboardAssumption
<1> QED
  BY <1>1, <1>2 DEF Processed, SavedContents

\* The cached content, rewritten through its shared pointer or not, is still a
\* content.
LEMMA RewrittenType ==
    ASSUME TypeOK, NEW m \in Contents
    PROVE  /\ CacheRewritten(m) \in Contents \cup {Nothing}
           /\ CacheRewritten(m) = Nothing <=> cache = Nothing
<1>1. CASE m.shared /\ cache # Nothing /\ cache.created = m.created
  <2> DEFINE k == [cache EXCEPT !.item = Processed(m).item, !.type = Processed(m).type]
  <2>1. CacheRewritten(m) = k /\ cache \in Contents
    BY <1>1 DEF CacheRewritten, TypeOK
  <2>3. k \in Contents
    BY <2>1, ProcessedType DEF Contents
  <2> QED
    BY <1>1, <2>1, <2>3, StampAssumption
<1>2. CASE ~(m.shared /\ cache # Nothing /\ cache.created = m.created)
  <2>1. CacheRewritten(m) = cache
    BY <1>2 DEF CacheRewritten
  <2> QED
    BY <2>1 DEF TypeOK
<1> QED
  BY <1>1, <1>2

\* The in-memory history never outgrows its slots.
LEMMA AddType ==
    ASSUME NEW r \in Seq(Items), Len(r) <= RingSize, NEW c \in Items
    PROVE  Add(r, c) \in Seq(Items) /\ Len(Add(r, c)) <= RingSize
<1>1. CASE Len(r) < RingSize
  BY <1>1, MonitorAssumption DEF Add
<1>2. CASE ~(Len(r) < RingSize)
  <2>1. r # <<>> /\ Len(r) \in Nat
    BY <1>2, MonitorAssumption
  <2>2. Tail(r) \in Seq(Items) /\ Len(Tail(r)) = Len(r) - 1
    BY <2>1
  <2> QED
    BY <1>2, <2>1, <2>2, MonitorAssumption DEF Add
<1> QED
  BY <1>1, <1>2

\* The Monitor keeps the types.
LEMMA ConsumeTypes ==
    ASSUME TypeOK, Consume
    PROVE  TypeOK'
<1> USE DEF monitorVars, pollVars, helperVars, sessionVars
<1> DEFINE m == Head(contentCh)
<1>1. /\ m \in Contents
      /\ contentCh' \in Seq(Contents)
      /\ Len(contentCh') <= ChanCap
  <2>1. contentCh \in Seq(Contents) /\ contentCh # <<>> /\ Len(contentCh) <= ChanCap
    BY DEF Consume, TypeOK
  <2>2. m \in Contents /\ Tail(contentCh) \in Seq(Contents)
        /\ Len(Tail(contentCh)) = Len(contentCh) - 1
    BY <2>1
  <2> QED
    BY <2>1, <2>2, ClipboardAssumption DEF Consume
<1>2. CASE UNCHANGED <<monitorVars, cache>>
  BY <1>1, <1>2 DEF Consume, TypeOK
<1>3. CASE /\ cache' = CacheRewritten(m)
           /\ lastContent' = Processed(m)
           /\ stored' \in {stored, Processed(m)}
           /\ ring' = Add(ring, Processed(m).item)
           /\ timesSaved' \in {1, 2}
  <2>1. cache' \in Contents \cup {Nothing} /\ (cacheValid => cache' # Nothing)
    BY <1>1, <1>3, RewrittenType DEF TypeOK
  <2>2. {lastContent', stored'} \subseteq SavedContents \cup {Nothing}
    BY <1>1, <1>3, ProcessedType DEF TypeOK
  <2>3. ring' \in Seq(Items) /\ Len(ring') <= RingSize
    <3>1. Processed(m).item \in Items
      BY <1>1, ProcessedType
    <3> QED
      BY <1>3, <3>1, AddType DEF TypeOK
  <2> QED
    BY <1>1, <1>3, <2>1, <2>2, <2>3 DEF Consume, TypeOK
<1> QED
  BY <1>2, <1>3 DEF Consume, processNewContent

\* A start, a stop and an end of the process keep the types.
LEMMA LifeTypes ==
    ASSUME TypeOK, (\E m \in StartModes, l \in Listings : Start(m, l)) \/ Stop \/ Exit
    PROVE  TypeOK'
<1> USE DEF monitorVars, pollVars, readVars, helperVars, sessionVars
<1>1. /\ <<>> \in Seq(Contents) /\ <<>> \in Seq(Items) /\ Len(<<>>) = 0
      /\ 0 <= ChanCap /\ 0 <= RingSize /\ 0 \in 0..SkipThreshold - 1
      /\ [p \in Producers |-> Nothing] \in [Producers -> Contents \cup {Nothing}]
  BY ClipboardAssumption, MonitorAssumption
<1>2. ASSUME NEW m \in StartModes, NEW l \in Listings, Start(m, l) PROVE TypeOK'
  <2>1. m \in {"xfixes", "xprop", "wayland", "polling"}
    BY ClipboardAssumption
  <2>2. /\ mode' \in {"xfixes", "xprop", "wayland", "alternative", "none"}
        /\ helper' \in {"up", "down", "done"} /\ pending' \in Nat
        /\ polling' \in BOOLEAN /\ (polling' => mode' = "none")
        /\ listable' \in BOOLEAN
    BY <1>2, <2>1, ClipboardAssumption DEF Start, MonitorChanges
  <2> QED
    BY <1>1, <1>2, <2>2 DEF Start, MonitorChanges, TypeOK
<1>3. CASE Stop
  BY <1>3 DEF Stop, TypeOK
<1>4. CASE Exit
  <2>1. {lastContent', stored'} \subseteq SavedContents \cup {Nothing}
    BY <1>4 DEF Exit, TypeOK
  <2>2. ring' = <<>> /\ contentCh' = <<>> /\ held' = [p \in Producers |-> Nothing]
    BY <1>4 DEF Exit
  <2>3. /\ ring' \in Seq(Items) /\ Len(ring') <= RingSize
        /\ contentCh' \in Seq(Contents) /\ Len(contentCh') <= ChanCap
        /\ held' \in [Producers -> Contents \cup {Nothing}]
    BY <1>1, <2>2
  <2>4. /\ clip' \in Items \cup {Nothing} /\ copies' \in 0..MaxCopies
        /\ errors' \in 0..MaxErrors /\ timesSaved' \in 0..2
        /\ skipCounter' \in 0..SkipThreshold - 1 /\ pending' \in Nat
    BY <1>1, <1>4 DEF Exit, TypeOK
  <2> QED
    BY <1>4, <2>1, <2>3, <2>4 DEF Exit, TypeOK
<1> QED
  BY <1>2, <1>3, <1>4

\* Every step of the composition keeps the types.
LEMMA TypesStep ==
    ASSUME TypeOK, [Next]_vars
    PROVE  TypeOK'
<1>1. CASE UNCHANGED vars
  BY <1>1 DEF vars, clipboardVars, sessionVars, readVars, helperVars, pollVars, monitorVars,
              TypeOK
<1> QED
  BY <1>1, WatchTypes, PollTypes, SendStopTypes, EnvironmentTypes, ConsumeTypes, LifeTypes
     DEF Next

\* The initial state has the types.
LEMMA InitTypes == Init => TypeOK
<1> SUFFICES ASSUME Init PROVE TypeOK
  OBVIOUS
<1>1. /\ <<>> \in Seq(Contents) /\ <<>> \in Seq(Items) /\ Len(<<>>) = 0
      /\ 0 <= ChanCap /\ 0 <= RingSize /\ 0 \in 0..SkipThreshold - 1
      /\ 0 \in 0..MaxCopies /\ 0 \in 0..MaxErrors
      /\ [p \in Producers |-> Nothing] \in [Producers -> Contents \cup {Nothing}]
  BY ClipboardAssumption, MonitorAssumption
<1>2. ring = <<>> /\ contentCh = <<>> /\ held = [p \in Producers |-> Nothing]
  BY DEF Init
<1>3. /\ ring \in Seq(Items) /\ Len(ring) <= RingSize
      /\ contentCh \in Seq(Contents) /\ Len(contentCh) <= ChanCap
      /\ held \in [Producers -> Contents \cup {Nothing}]
  BY <1>1, <1>2
<1>4. /\ copies \in 0..MaxCopies /\ errors \in 0..MaxErrors /\ timesSaved \in 0..2
      /\ skipCounter \in 0..SkipThreshold - 1 /\ pending \in Nat
  BY <1>1 DEF Init
<1> QED
  BY <1>3, <1>4 DEF Init, TypeOK

\* TypeOK of Monitor holds in every behaviour: among the rest, contentCh and
\* the ring never outgrow their capacity, whatever goroutine sends, and two
\* goroutines read the clipboard only after the alternative method has ended.
THEOREM MonitorTypes == Spec => []TypeOK
<1>1. Init => TypeOK
  BY InitTypes
<1>2. TypeOK /\ [Next]_vars => TypeOK'
  BY TypesStep
<1> QED
  BY <1>1, <1>2, PTL DEF Spec
-----------------------------------------------------------------------------
(***************************************************************************)
(* The contents on their way.                                              *)
(***************************************************************************)

\* The contents on their way form a sequence of live contents.
LEMMA FlightType ==
    ASSUME TypeOK
    PROVE  /\ Flight \in Seq(Contents)
           /\ \A k \in 1..Len(Flight) : Flight[k] \in LiveContents \ {Nothing}
<1>1. contentCh \in Seq(Contents) /\ held["poller"] \in Contents \cup {Nothing}
  BY DEF TypeOK, Producers
<1>2. CASE held["poller"] = Nothing
  <2>1. Flight = contentCh
    BY <1>2 DEF Flight
  <2>2. \A k \in 1..Len(contentCh) : contentCh[k] \in Contents
    BY <1>1
  <2>3. DOMAIN contentCh = 1..Len(contentCh)
    BY <1>1
  <2> QED
    BY <1>1, <2>1, <2>2, <2>3, StampAssumption DEF LiveContents
<1>3. CASE held["poller"] # Nothing
  <2>1. Flight = Append(contentCh, held["poller"]) /\ held["poller"] \in Contents
    BY <1>1, <1>3 DEF Flight
  <2>2. /\ Flight \in Seq(Contents) /\ Len(Flight) = Len(contentCh) + 1
        /\ Len(contentCh) \in Nat
        /\ \A k \in 1..Len(contentCh) : Flight[k] = contentCh[k]
        /\ Flight[Len(contentCh) + 1] = held["poller"]
    BY <1>1, <2>1
  <2>3. DOMAIN contentCh = 1..Len(contentCh)
    BY <1>1
  <2>4. \A k \in 1..Len(Flight) : Flight[k] \in Contents
    BY <2>2
  <2>5. \A k \in 1..Len(contentCh) : Flight[k] \in LiveContents
    BY <2>2, <2>3 DEF LiveContents
  <2>6. Flight[Len(contentCh) + 1] \in LiveContents
    BY <2>2 DEF LiveContents, Producers
  <2>7. \A k \in 1..Len(Flight) : Flight[k] \in LiveContents
    BY <2>2, <2>5, <2>6
  <2> QED
    BY <2>2, <2>4, <2>7, StampAssumption
<1> QED
  BY <1>2, <1>3

\* A new read differs in its stamp from all that is on its way and from the
\* last content.
LEMMA FreshInFlight ==
    ASSUME TypeOK
    PROVE  /\ \A k \in 1..Len(Flight) : Flight[k].created # Created
           /\ lastContent # Nothing => lastContent.created # Created
  BY FlightType, CreatedFresh DEF LiveContents

\* A clone has the value and the stamp of the last content.
LEMMA CopiedFacts ==
    ASSUME TypeOK, Normal, NEW m \in Contents, Copied(m)
    PROVE  /\ lastContent # Nothing
           /\ lastContent.item = m.item
           /\ lastContent.type = m.type
           /\ lastContent.created = m.created
           /\ m.type = "text"
           /\ ~Original(m)
<1>1. m.item \in Items /\ m.type \in {"rich", "text"} /\ m.created \in Stamps
  BY DEF Contents
<1>2. AsSaved(m) \in SavedContents
  BY <1>1 DEF AsSaved, SavedContents
<1>3. lastContent # Nothing
  BY <1>2, StampAssumption DEF Copied
<1>4. /\ lastContent.item = m.item
      /\ lastContent.type = m.type
      /\ lastContent.created = m.created
  BY DEF Copied, AsSaved
<1>5. lastContent.type = "text"
  BY <1>3 DEF Normal
<1> QED
  BY <1>3, <1>4, <1>5 DEF Original

\* A step that changes nothing that Pipeline speaks of, except that a content
\* may move from the poller's hand into the channel.
LEMMA PipelineFrame ==
    ASSUME Pipeline, Live' => Live, Flight' = Flight,
           held'["events"] = held["events"],
           UNCHANGED <<polling, cache, lastRead, lastHash, lastContent>>
    PROVE  Pipeline'
<1> SUFFICES ASSUME Live'
             PROVE  /\ Quiet' /\ Order' /\ Distinct' /\ Cached' /\ SharedLast'
                    /\ HashFaithful => Delivered'
  BY DEF Pipeline, HashFaithful
<1>1. /\ Quiet /\ Order /\ Distinct /\ Cached /\ SharedLast
      /\ HashFaithful => Delivered
  BY DEF Pipeline
<1>2. Quiet'
  BY <1>1 DEF Quiet
<1>3. Order' /\ Distinct' /\ SharedLast'
  BY <1>1 DEF Order, Distinct, SharedLast, Original, Copied
<1>4. Cached'
  BY <1>1 DEF Cached, CacheRead, CacheSaved, Copied
<1>5. HashFaithful => Delivered'
  BY <1>1 DEF Delivered, Fits, Original, Copied, Captured
<1> QED
  BY <1>2, <1>3, <1>4, <1>5
-----------------------------------------------------------------------------
(***************************************************************************)
(* The steps around the pipeline.                                          *)
(***************************************************************************)

\* The events goroutine reads only once it has heard of a change, which ends
\* the poller's monopoly; a fallback starts a poller where there was none.
LEMMA WatchStep ==
    ASSUME MonitorInv, Watching
    PROVE  Life' /\ Normal' /\ OneSavePerRead' /\ Pipeline'
<1> USE DEF monitorVars
<1>1. /\ Normal'
      /\ UNCHANGED <<lastContent, running, timesSaved>>
  BY DEF Watching, MonitorInv, Normal
<1>2. CASE ReadsEvent
  <2>1. running /\ heard'
    BY <1>2 DEF ReadsEvent, MonitorInv, Life
  <2> QED
    BY <1>1, <2>1 DEF Life, OneSavePerRead, Pipeline, Live
<1>3. CASE FallsBack
  <2>1. running /\ ~polling
    BY <1>3 DEF FallsBack, MonitorInv, Life, TypeOK
  <2>2. /\ UNCHANGED <<heard, stopCh, held, contentCh, cache, lastRead>>
        /\ polling' /\ lastHash' = "none"
    BY <1>3 DEF FallsBack, StartPolling, readVars
  <2>3. Life' /\ OneSavePerRead'
    BY <1>1, <2>1, <2>2 DEF Life, OneSavePerRead, MonitorInv
  <2>4. Pipeline'
    <3> SUFFICES ASSUME Live'
                 PROVE  /\ Quiet' /\ Order' /\ Distinct' /\ Cached' /\ SharedLast'
                        /\ HashFaithful => Delivered'
      BY DEF Pipeline, HashFaithful
    <3>1. Quiet
      BY <1>1, <2>2 DEF Live, MonitorInv, Pipeline
    <3>2. Flight' = Flight
      BY <2>2 DEF Flight
    <3>3. /\ held'["events"] = Nothing /\ Flight' = <<>>
          /\ lastRead' = Nothing /\ cache' = Nothing
      BY <2>1, <2>2, <3>1, <3>2 DEF Quiet
    <3> QED
      BY <2>2, <3>3 DEF Quiet, Order, Distinct, Cached, SharedLast, Delivered
  <2> QED
    BY <1>1, <2>3, <2>4
<1>4. CASE WaylandCloses
  <2>1. running
    BY <1>4 DEF WaylandCloses, Waiting, MonitorInv, Life
  <2>2. /\ UNCHANGED <<heard, stopCh, held, contentCh, cache, lastRead, polling, lastHash>>
    BY <1>4 DEF WaylandCloses, readVars, pollVars
  <2>3. Flight' = Flight
    BY <2>2 DEF Flight
  <2>4. Pipeline'
    BY <1>1, <2>2, <2>3, PipelineFrame DEF MonitorInv, Live
  <2> QED
    BY <1>1, <2>1, <2>2, <2>4 DEF Life, OneSavePerRead, MonitorInv
<1> QED
  BY <1>2, <1>3, <1>4, WatchCases DEF Watching, MonitorInv

\* A content moves from the poller's hand into the channel, or is dropped by a
\* goroutine that stops.
LEMMA SendStopStep ==
    ASSUME MonitorInv, (\E p \in Producers : Sending(p)) \/ Stopping
    PROVE  Life' /\ Normal' /\ OneSavePerRead' /\ Pipeline'
<1> USE DEF monitorVars
<1>1. /\ Normal' /\ OneSavePerRead' /\ Life'
      /\ UNCHANGED <<lastContent, running, timesSaved, heard, stopCh, cache, lastRead, lastHash>>
  <2>1. UNCHANGED <<lastContent, stored, running, timesSaved, heard, stopCh, cache,
                    lastRead, lastHash>>
    BY DEF Sending, Send, Stopping, EventsStop, PollerStops, pollVars, readVars, helperVars
  <2>2. (mode' \in {mode, "none"}) /\ (polling' = polling \/ polling' = FALSE)
    BY DEF Sending, Send, Stopping, EventsStop, PollerStops, pollVars, helperVars
  <2> QED
    BY <2>1, <2>2 DEF MonitorInv, Normal, OneSavePerRead, Life
<1>2. CASE Sending("events") /\ Live
  <2>1. held["events"] = Nothing
    BY <1>2 DEF MonitorInv, Pipeline, Quiet
  <2> QED
    BY <1>2, <2>1 DEF Sending, Send
<1>3. CASE Sending("poller")
  <2>1. /\ held["poller"] # Nothing
        /\ contentCh' = Append(contentCh, held["poller"])
        /\ held' = [held EXCEPT !["poller"] = Nothing]
        /\ polling' = polling
    BY <1>3 DEF Sending, Send, pollVars
  <2>2. held'["poller"] = Nothing /\ held'["events"] = held["events"]
    BY <2>1 DEF MonitorInv, TypeOK, Producers
  <2>3. Flight' = Flight
    BY <2>1, <2>2 DEF Flight
  <2>4. Pipeline'
    BY <1>1, <2>1, <2>2, <2>3, PipelineFrame DEF MonitorInv, Live
  <2> QED
    BY <1>1, <2>4
<1>4. CASE Stopping
  <2>1. stopCh'
    BY <1>4 DEF Stopping, EventsStop, PollerStops, StopSending
  <2> QED
    BY <1>1, <2>1 DEF Pipeline, Live
<1>5. CASE ~Live
  BY <1>1, <1>5 DEF Pipeline, Live
<1> QED
  BY <1>2, <1>3, <1>4, <1>5 DEF Producers

\* The user, the clock and the helper touch neither the contents on their way
\* nor what is known of them.
LEMMA EnvironmentStep ==
    ASSUME MonitorInv, Environment, UNCHANGED <<monitorVars, running, starts>>
    PROVE  Life' /\ Normal' /\ OneSavePerRead' /\ Pipeline'
<1>1. UNCHANGED <<lastContent, stored, running, timesSaved, heard, stopCh, cache, mode,
                  lastRead, lastHash, polling, held, contentCh>>
  BY DEF Environment, Copy, CacheExpires, HelperDies, pollVars, readVars, helperVars,
         monitorVars
<1>2. Flight' = Flight
  BY <1>1 DEF Flight
<1>3. Pipeline'
  BY <1>1, <1>2, PipelineFrame DEF MonitorInv, Live
<1> QED
  BY <1>1, <1>3 DEF MonitorInv, Normal, OneSavePerRead, Life

\* A process starts with nothing read and nothing on its way; one that ends
\* or is told to stop promises nothing more.
LEMMA LifeStep ==
    ASSUME MonitorInv, (\E m \in StartModes, l \in Listings : Start(m, l)) \/ Stop \/ Exit
    PROVE  Life' /\ Normal' /\ OneSavePerRead' /\ Pipeline'
<1> USE DEF monitorVars
<1>1. ASSUME NEW m \in StartModes, NEW l \in Listings, Start(m, l)
      PROVE  Life' /\ Normal' /\ OneSavePerRead' /\ Pipeline'
  <2>1. /\ running' /\ lastContent' = stored /\ stored' = stored
        /\ timesSaved' = timesSaved /\ ~running
        /\ cache' = Nothing /\ lastRead' = Nothing /\ lastHash' = "none"
        /\ held' = [p \in Producers |-> Nothing] /\ contentCh' = <<>>
    BY <1>1 DEF Start, MonitorChanges
  <2>2. Flight' = <<>> /\ held'["events"] = Nothing
    BY <2>1 DEF Flight, Producers
  <2>3. Pipeline'
    BY <2>1, <2>2 DEF Pipeline, Quiet, Order, Distinct, Cached, SharedLast, Delivered
  <2>4. Normal'
    BY <2>1 DEF MonitorInv, Normal
  <2>5. OneSavePerRead'
    BY <2>1 DEF MonitorInv, Life, OneSavePerRead
  <2> QED
    BY <2>1, <2>3, <2>4, <2>5 DEF Life
<1>2. CASE Stop
  <2>1. /\ stopCh'
        /\ UNCHANGED <<lastContent, stored, timesSaved, running, mode, polling, heard>>
    BY <1>2 DEF Stop, pollVars, helperVars
  <2> QED
    BY <2>1 DEF MonitorInv, Life, Normal, OneSavePerRead, Pipeline, Live
<1>3. CASE Exit
  <2>1. /\ ~running' /\ mode' = "none" /\ ~polling' /\ ~heard' /\ timesSaved' = 0
        /\ lastContent' = Nothing /\ stored' = stored
    BY <1>3 DEF Exit
  <2> QED
    BY <2>1 DEF MonitorInv, Life, Normal, OneSavePerRead, Pipeline, Live
<1> QED
  BY <1>1, <1>2, <1>3
-----------------------------------------------------------------------------
(***************************************************************************)
(* The poller reads.                                                       *)
(***************************************************************************)

\* The effect of a poll with outcome r on what Pipeline speaks of.
PollEffect(r) ==
    /\ cache' = r.cache
    /\ lastRead' = r.last
    /\ lastHash' = IF HashChanged(r) THEN HashOf[r.content.item] ELSE lastHash
    /\ Flight' = IF HashChanged(r) THEN Append(Flight, r.content) ELSE Flight
    /\ held'["events"] = held["events"]
    /\ polling /\ UNCHANGED <<polling, lastContent, running, heard, stopCh>>

\* A poll that reads adds what it read to the end of the contents on their
\* way, or nothing.
LEMMA PollReadsEffect ==
    ASSUME TypeOK, PollReads(Created), UNCHANGED <<monitorVars, running, starts>>
    PROVE  \E r \in Read(Created) : PollEffect(r)
<1>1. PICK r \in Read(Created) :
        /\ AfterRead(r)
        /\ lastHash' = IF HashChanged(r) THEN HashOf[r.content.item] ELSE lastHash
        /\ held' = IF HashChanged(r) THEN [held EXCEPT !["poller"] = r.content] ELSE held
  BY DEF PollReads
<1>2. /\ polling /\ held["poller"] = Nothing
      /\ UNCHANGED <<polling, contentCh, lastContent, running, heard, stopCh>>
  BY DEF PollReads, Ticks, helperVars, monitorVars
<1>3. Flight = contentCh
  BY <1>2 DEF Flight
<1>4. CASE HashChanged(r)
  <2>1. held'["poller"] = r.content /\ held'["events"] = held["events"]
    BY <1>1, <1>4 DEF TypeOK, Producers
  <2>2. r.content # Nothing
    BY <1>4 DEF HashChanged
  <2>3. Flight' = Append(Flight, r.content)
    BY <1>2, <1>3, <2>1, <2>2 DEF Flight
  <2> QED
    BY <1>1, <1>2, <1>4, <2>1, <2>3 DEF PollEffect, AfterRead
<1>5. CASE ~HashChanged(r)
  <2>1. Flight' = Flight
    BY <1>1, <1>2, <1>5 DEF Flight
  <2> QED
    BY <1>1, <1>2, <1>5, <2>1 DEF PollEffect, AfterRead
<1> QED
  BY <1>4, <1>5

\* A cache hit: the very content that was read last is not sent again, for its
\* hash is the last one; what the Monitor made of it may be, as a clone, when
\* nothing else is on its way.
LEMMA CacheHitStep ==
    ASSUME MonitorInv, Live, cacheValid, PollEffect(CacheHit)
    PROVE  Pipeline'
<1> DEFINE clone == [cache EXCEPT !.shared = FALSE]
<1>1. /\ Quiet /\ Order /\ Distinct /\ Cached /\ SharedLast
      /\ HashFaithful => Delivered
  BY DEF MonitorInv, Pipeline
<1>2. /\ CacheHit.content = clone /\ CacheHit.cache = cache /\ CacheHit.last = lastRead
  BY DEF CacheHit, Outcome
<1>3. /\ cache \in Contents /\ cache # Nothing
      /\ lastRead \in Items
  BY <1>1, StampAssumption DEF MonitorInv, TypeOK, Quiet
<1>4. /\ clone.item = cache.item /\ clone.type = cache.type
      /\ clone.created = cache.created /\ ~clone.shared
      /\ clone \in Contents
  BY <1>3 DEF Contents
<1>5. UNCHANGED <<cache, lastRead, lastContent, polling>> /\ held'["events"] = held["events"]
  BY <1>2 DEF PollEffect
<1>6. CASE ~HashChanged(CacheHit)
  <2>1. lastHash' = lastHash /\ Flight' = Flight
    BY <1>6 DEF PollEffect
  <2> QED
    BY <1>5, <2>1, PipelineFrame DEF MonitorInv
<1>7. CASE HashChanged(CacheHit)
  <2>1. lastHash # HashOf[cache.item]
    BY <1>2, <1>4, <1>7 DEF HashChanged
  <2>2. CacheSaved /\ Flight = <<>>
    BY <1>1, <1>3, <2>1 DEF Cached, CacheRead, CacheSaved
  <2>3. lastHash' = HashOf[cache.item] /\ Flight' = Append(<<>>, clone)
    BY <1>2, <1>4, <1>7, <2>2 DEF PollEffect
  <2>4. /\ Flight' = <<clone>> /\ Len(Flight') = 1 /\ Flight'[1] = clone
        /\ \A k \in 1..Len(Flight') : k = 1
    BY <2>3
  <2>5. /\ AsSaved(clone) = AsSaved(cache) /\ Copied(cache)
        /\ Copied(clone)
    BY <1>4, <2>2 DEF AsSaved, CacheSaved, Copied
  <2>7. Captured(lastRead)
    <3>1. /\ lastContent # Nothing /\ lastContent.item = cache.item
          /\ lastContent.type = "text"
      BY <1>3, <2>5, CopiedFacts DEF MonitorInv
    <3> QED
      BY <2>2, <3>1 DEF CacheSaved, Captured
  <2>8. Quiet'
    BY <1>1, <1>3, <1>5 DEF Quiet, PollEffect
  <2>9. Order' /\ Distinct'
    <3>1. AsSaved(Flight'[1]) = lastContent'
      BY <1>5, <2>4, <2>5 DEF Copied
    <3> QED
      BY <2>4, <3>1 DEF Order, Distinct, Copied, AsSaved
  <2>10. Cached'
    <3>1. /\ cache'.item \in {lastRead', Trim[lastRead']} /\ lastRead' \notin Oversize
          /\ lastRead' \in Rich => cache'.item = lastRead'
          /\ Copied(cache)' /\ lastHash' = HashOf[cache'.item]
      BY <1>5, <2>2, <2>3 DEF CacheSaved, Copied, AsSaved
    <3>2. \A k \in 1..Len(Flight') : AsSaved(Flight'[k]) = lastContent'
      BY <1>5, <2>4, <2>5 DEF Copied
    <3> QED
      BY <3>1, <3>2 DEF Cached, CacheSaved, Copied, AsSaved
  <2>11. SharedLast'
    <3>1. \A k \in 1..Len(Flight') : ~Flight'[k].shared
      BY <1>4, <2>4
    <3> QED
      BY <3>1 DEF SharedLast, Original
  <2>12. Delivered'
    <3>1. AsSaved(Flight'[Len(Flight')]) = lastContent' /\ Captured(lastRead)'
      BY <1>5, <2>4, <2>5, <2>7 DEF Captured, Copied
    <3> QED
      BY <2>4, <3>1 DEF Delivered, Fits, Copied, AsSaved
  <2> QED
    BY <2>8, <2>9, <2>10, <2>11, <2>12 DEF Pipeline
<1> QED
  BY <1>6, <1>7

\* An unchanged rich item: the cache is refreshed with a capture of its own,
\* and nothing is sent.
LEMMA RefreshStep ==
    ASSUME MonitorInv, Live, clip # Nothing, NEW g \in Readings,
           PollEffect(Unchanged(g, Created)), g.item = lastRead, g.item \in Rich
    PROVE  Pipeline'
<1>1. /\ Quiet /\ Order /\ Distinct /\ Cached /\ SharedLast
      /\ HashFaithful => Delivered
  BY DEF MonitorInv, Pipeline
<1>2. lastRead \in Items /\ lastRead \in Rich /\ lastRead # Nothing
  BY ClipboardAssumption
<1>3. /\ Unchanged(g, Created).content = Nothing
      /\ Unchanged(g, Created).cache = ContentOf(g, Created)
      /\ Unchanged(g, Created).last = g.item
  BY DEF Unchanged, Fresh, Outcome
<1>4. /\ UNCHANGED <<lastRead, lastHash, lastContent, polling, Flight>>
      /\ held'["events"] = held["events"] /\ polling
      /\ cache' = ContentOf(g, Created)
  BY <1>3 DEF PollEffect, HashChanged
<1>5. /\ cache'.item = lastRead' /\ cache'.created = Created
      /\ cache' # Nothing
  <2>1. ContentOf(g, Created) # Nothing
    BY ContentOfType DEF MonitorInv
  <2> QED
    BY <1>4, <2>1 DEF ContentOf
<1>6. lastHash = HashOf[lastRead]
  BY <1>1, <1>2 DEF Quiet, Cached, CacheRead, CacheSaved
<1>7. Quiet'
  BY <1>1, <1>2, <1>4, <1>5 DEF Quiet
<1>8. Order' /\ Distinct'
  BY <1>1, <1>4 DEF Order, Distinct, Original, Copied
<1>9. Cached'
  BY <1>4, <1>5, <1>6 DEF Cached, CacheRead
<1>10. SharedLast'
  <2>1. \A k \in 1..Len(Flight') : Flight'[k].created # cache'.created
    BY <1>4, <1>5, FreshInFlight DEF MonitorInv
  <2> QED
    BY <2>1 DEF SharedLast
<1>11. HashFaithful => Delivered'
  BY <1>1, <1>4 DEF Delivered, Fits, Original, Copied, Captured
<1> QED
  BY <1>7, <1>8, <1>9, <1>10, <1>11 DEF Pipeline, HashFaithful

\* A real read of something new joins the end of the contents on their way,
\* unless its hash is the last one: then the Monitor has it already.
LEMMA FreshStep ==
    ASSUME MonitorInv, Live, clip # Nothing, NEW g \in Readings,
           PollEffect(Fresh(g, Created)), g.item # lastRead
    PROVE  Pipeline'
<1> DEFINE new == ContentOf(g, Created)
           n == Len(Flight)
<1>1. /\ Quiet /\ Order /\ Distinct /\ Cached /\ SharedLast
      /\ HashFaithful => Delivered
  BY DEF MonitorInv, Pipeline
<1>2. /\ Fresh(g, Created).content = new
      /\ Fresh(g, Created).cache = new
      /\ Fresh(g, Created).last = g.item
  BY DEF Fresh, Outcome
<1>3. /\ new \in Contents /\ new # Nothing
      /\ new.item = g.item /\ new.created = Created /\ new.shared
      /\ g.item \in Items
      /\ g.item \in Rich => new.type = "rich"
  BY ContentOfType, ReadingType DEF MonitorInv, ContentOf
<1>4. /\ UNCHANGED <<lastContent, polling>> /\ polling
      /\ held'["events"] = held["events"]
      /\ cache' = new /\ lastRead' = g.item
  BY <1>2 DEF PollEffect
<1>5. /\ Flight \in Seq(Contents) /\ n \in Nat
      /\ \A k \in 1..n : Flight[k].created # Created
      /\ lastContent # Nothing => lastContent.created # Created
  BY FlightType, FreshInFlight DEF MonitorInv
<1>6. Quiet'
  BY <1>1, <1>3, <1>4, ClipboardAssumption DEF Quiet
<1> HIDE DEF new, n
<1>7. CASE HashChanged(Fresh(g, Created))
  <2>1. lastHash' = HashOf[g.item] /\ Flight' = Append(Flight, new)
    BY <1>2, <1>3, <1>7 DEF PollEffect
  <2>2. /\ Len(Flight') = n + 1 /\ Flight'[n + 1] = new
        /\ \A k \in 1..n : Flight'[k] = Flight[k]
        /\ Flight' # <<>>
    BY <1>3, <1>5, <2>1 DEF n
  <2>3. \A k \in 1..Len(Flight') : k \in 1..n \/ k = n + 1
    BY <1>5, <2>2
  <2>4. /\ Flight'[n + 1].shared
        /\ Flight'[n + 1].item \in Rich => Flight'[n + 1].type = "rich"
        /\ lastContent' # Nothing => Flight'[n + 1].created # lastContent'.created
    BY <1>3, <1>4, <1>5, <2>2
  <2>5. Order'
    <3> SUFFICES ASSUME NEW k \in 1..Len(Flight')
                 PROVE  Original(Flight[k])' \/ (k = 1 /\ Copied(Flight[k])')
      BY DEF Order
    <3>1. CASE k = n + 1
      BY <2>4, <3>1 DEF Original
    <3>2. CASE k \in 1..n
      <4>1. Original(Flight[k]) \/ (k = 1 /\ Copied(Flight[k]))
        BY <1>1, <3>2 DEF Order, n
      <4> QED
        BY <1>4, <2>2, <3>2, <4>1 DEF Original, Copied, AsSaved
    <3> QED
      BY <2>3, <3>1, <3>2
  <2>6. Distinct'
    <3> SUFFICES ASSUME NEW j \in 1..Len(Flight'), NEW k \in 1..Len(Flight'),
                        Flight'[j].created = Flight'[k].created
                 PROVE  j = k
      BY DEF Distinct
    <3>1. CASE j \in 1..n /\ k \in 1..n
      BY <1>1, <2>2, <3>1 DEF Distinct, n
    <3>2. CASE j = n + 1 /\ k \in 1..n
      BY <1>3, <1>5, <2>2, <3>2
    <3>3. CASE j \in 1..n /\ k = n + 1
      BY <1>3, <1>5, <2>2, <3>3
    <3> QED
      BY <2>3, <3>1, <3>2, <3>3
  <2>7. Cached'
    BY <1>3, <1>4, <2>1 DEF Cached, CacheRead
  <2>8. SharedLast'
    <3> SUFFICES ASSUME NEW k \in 1..Len(Flight'),
                        Flight'[k].created = cache'.created
                 PROVE  k = Len(Flight') /\ Flight'[k].item = lastRead'
      BY DEF SharedLast
    <3>1. k = n + 1
      BY <1>3, <1>4, <1>5, <2>2, <2>3
    <3> QED
      BY <1>3, <1>4, <2>2, <3>1
  <2>9. Delivered'
    <3>1. Flight'[Len(Flight')] = Flight'[n + 1]
      BY <2>2
    <3>2. Original(Flight[Len(Flight)])' /\ Flight'[Len(Flight')].item = lastRead'
      BY <1>3, <1>4, <2>2, <2>4, <3>1 DEF Original
    <3> QED
      BY <2>2, <3>2 DEF Delivered, Fits
  <2> QED
    BY <1>6, <2>5, <2>6, <2>7, <2>8, <2>9 DEF Pipeline
<1>8. CASE ~HashChanged(Fresh(g, Created))
  <2>1. UNCHANGED <<lastHash, Flight>> /\ lastHash = HashOf[g.item]
    BY <1>2, <1>3, <1>8 DEF PollEffect, HashChanged
  <2>2. Order' /\ Distinct'
    BY <1>1, <1>4, <2>1 DEF Order, Distinct, Original, Copied
  <2>3. Cached'
    BY <1>3, <1>4, <2>1 DEF Cached, CacheRead
  <2>4. SharedLast'
    <3>1. \A k \in 1..Len(Flight') : Flight'[k].created # cache'.created
      BY <1>3, <1>4, <1>5, <2>1 DEF n
    <3> QED
      BY <3>1 DEF SharedLast
  <2>5. ASSUME HashFaithful PROVE Delivered'
    <3>1. HashOf[g.item] # "none" /\ (\A j \in Items : HashOf[g.item] = HashOf[j] => g.item = j)
      BY <1>3, <2>5 DEF HashFaithful
    <3>2. lastRead \in Items /\ cache # Nothing /\ cache \in Contents
      BY <1>1, <2>1, <3>1 DEF Quiet, MonitorInv, TypeOK
    <3>3. CacheSaved
      BY <1>1, <2>1, <3>1, <3>2 DEF Cached, CacheRead
    <3>5. g.item = cache.item
      BY <1>3, <2>1, <3>1, <3>2, <3>3 DEF CacheSaved, Contents
    <3>6. Captured(g.item)
      <4>1. /\ lastContent # Nothing /\ lastContent.item = cache.item
            /\ lastContent.type = "text"
        BY <3>2, <3>3, CopiedFacts DEF MonitorInv, CacheSaved
      <4> QED
        BY <3>5, <4>1 DEF Captured
    <3>7. Captured(lastRead)'
      BY <1>4, <3>6 DEF Captured
    <3>8. \A k \in 1..Len(Flight) : Copied(Flight[k])
      BY <3>3 DEF CacheSaved
    <3>9. Flight # <<>> => Copied(Flight[Len(Flight)])
      <4>1. Flight # <<>> => Len(Flight) \in 1..Len(Flight)
        BY <1>5 DEF n
      <4> QED
        BY <3>8, <4>1
    <3>10. Flight' # <<>> => Copied(Flight[Len(Flight)])'
      BY <1>4, <2>1, <3>9 DEF Copied, AsSaved
    <3> QED
      BY <3>7, <3>10 DEF Delivered, Fits
  <2> QED
    BY <1>6, <2>2, <2>3, <2>4, <2>5 DEF Pipeline, HashFaithful
<1> QED
  BY <1>7, <1>8

\* A tick of the poller, whatever its read comes to.
LEMMA PollStep ==
    ASSUME MonitorInv, Polling
    PROVE  Life' /\ Normal' /\ OneSavePerRead' /\ Pipeline'
<1> USE DEF monitorVars, helperVars
<1>1. UNCHANGED <<mode, heard, polling, stopCh, lastContent, stored, timesSaved, running>>
  BY DEF Polling, Poll, PollFails, PollSkips, PollReads, pollVars
<1>2. Life' /\ Normal' /\ OneSavePerRead'
  BY <1>1 DEF MonitorInv, Life, Normal, OneSavePerRead
<1>3. CASE ~Live
  BY <1>1, <1>2, <1>3 DEF Live, Pipeline
<1>4. CASE PollFails \/ PollSkips
  <2>1. UNCHANGED <<held, contentCh, cache, lastRead, lastHash>>
    BY <1>4 DEF PollFails, PollSkips, readVars, pollVars
  <2>2. Flight' = Flight
    BY <2>1 DEF Flight
  <2>3. Pipeline'
    BY <1>1, <2>1, <2>2, PipelineFrame DEF MonitorInv, Live
  <2> QED
    BY <1>2, <2>3
<1>5. CASE PollReads(Created) /\ Live
  <2>1. TypeOK /\ UNCHANGED <<monitorVars, running, starts>>
    BY DEF MonitorInv, Polling
  <2>2. PICK r \in Read(Created) : PollEffect(r)
    BY <1>5, <2>1, PollReadsEffect
  <2>3. CASE cacheValid /\ r = CacheHit
    BY <1>2, <1>5, <2>2, <2>3, CacheHitStep
  <2>4. CASE r.content = Nothing /\ r.cache = cache /\ r.last = lastRead
    <3>1. /\ UNCHANGED <<cache, lastRead, lastHash, Flight>>
          /\ held'["events"] = held["events"]
      BY <2>2, <2>4 DEF PollEffect, HashChanged
    <3>2. Pipeline'
      BY <1>1, <3>1, PipelineFrame DEF MonitorInv, Live
    <3> QED
      BY <1>2, <3>2
  <2>5. CASE r = ReadFailure
    BY <2>4, <2>5 DEF ReadFailure, Outcome
  <2>6. ASSUME clip # Nothing, NEW g \in Readings, g.item = lastRead,
               r = Unchanged(g, Created)
        PROVE  Pipeline'
    <3>1. CASE g.item \in Rich
      BY <1>5, <2>2, <2>6, <3>1, RefreshStep
    <3>2. CASE g.item \notin Rich
      BY <2>4, <2>6, <3>2 DEF Unchanged, Outcome
    <3> QED
      BY <3>1, <3>2
  <2>7. ASSUME clip # Nothing, NEW g \in Readings, g.item # lastRead,
               r = Fresh(g, Created)
        PROVE  Pipeline'
    BY <1>5, <2>2, <2>7, FreshStep
  <2> QED
    BY <1>2, <2>3, <2>5, <2>6, <2>7, ReadCases
<1> QED
  BY <1>3, <1>4, <1>5 DEF Polling, Poll
-----------------------------------------------------------------------------
(***************************************************************************)
(* The Monitor consumes.                                                   *)
(***************************************************************************)

\* The Monitor takes the oldest content on its way.
LEMMA ConsumeFlight ==
    ASSUME TypeOK, Consume
    PROVE  /\ Len(Flight) \in Nat \ {0}
           /\ Flight[1] = Head(contentCh)
           /\ Len(Flight') = Len(Flight) - 1
           /\ \A k \in 1..Len(Flight') : Flight'[k] = Flight[k + 1]
           /\ Flight' = <<>> <=> Len(Flight) = 1
<1>1. /\ contentCh \in Seq(Contents) /\ contentCh # <<>>
      /\ contentCh' = Tail(contentCh) /\ held' = held
      /\ held["poller"] \in Contents \cup {Nothing}
  BY DEF Consume, TypeOK, Producers
<1>2. /\ Len(contentCh) \in Nat \ {0} /\ contentCh[1] = Head(contentCh)
      /\ Tail(contentCh) \in Seq(Contents)
      /\ Len(Tail(contentCh)) = Len(contentCh) - 1
      /\ \A k \in 1..(Len(contentCh) - 1) : Tail(contentCh)[k] = contentCh[k + 1]
  BY <1>1, HeadTailProperties
<1>3. CASE held["poller"] = Nothing
  <2>1. Flight = contentCh /\ Flight' = Tail(contentCh)
    BY <1>1, <1>3 DEF Flight
  <2>2. Tail(contentCh) = <<>> <=> Len(contentCh) = 1
    BY <1>2
  <2> QED
    BY <1>2, <2>1, <2>2
<1>4. CASE held["poller"] # Nothing
  <2> DEFINE h == held["poller"]
             t == Tail(contentCh)
  <2>1. h \in Contents /\ Flight = Append(contentCh, h) /\ Flight' = Append(t, h)
    BY <1>1, <1>4 DEF Flight
  <2> HIDE DEF h, t
  <2>2. /\ Len(Flight) = Len(contentCh) + 1
        /\ \A k \in 1..Len(contentCh) : Flight[k] = contentCh[k]
        /\ Flight[Len(contentCh) + 1] = h
    BY <1>1, <2>1
  <2>3. /\ Len(Flight') = Len(contentCh)
        /\ \A k \in 1..(Len(contentCh) - 1) : Flight'[k] = t[k]
        /\ Flight'[Len(contentCh)] = h
    BY <1>2, <2>1 DEF t
  <2>4. \A k \in 1..(Len(contentCh) - 1) : Flight'[k] = Flight[k + 1]
    BY <1>2, <2>2, <2>3 DEF t
  <2>5. Flight'[Len(contentCh)] = Flight[Len(contentCh) + 1]
    BY <2>2, <2>3
  <2>6. Flight' # <<>>
    BY <1>2, <2>3
  <2> QED
    BY <1>2, <2>2, <2>3, <2>4, <2>5, <2>6
<1> QED
  BY <1>3, <1>4

\* A content that the Monitor drops (a clone, an equal one, an oversize one)
\* takes nothing with it that the Monitor does not have.
LEMMA DropStep ==
    ASSUME MonitorInv, Live, Consume,
           UNCHANGED <<lastContent, cache>>,
           \/ Copied(Head(contentCh))
           \/ SameValue(Head(contentCh), lastContent)
           \/ Head(contentCh).item \in Oversize
    PROVE  Pipeline'
<1> DEFINE m == Head(contentCh)
           n == Len(Flight)
<1>1. /\ Quiet /\ Order /\ Distinct /\ Cached /\ SharedLast
      /\ HashFaithful => Delivered
  BY DEF MonitorInv, Pipeline
<1>2. /\ n \in Nat \ {0} /\ Flight[1] = m
      /\ Len(Flight') = n - 1
      /\ \A k \in 1..Len(Flight') : k + 1 \in 2..n /\ Flight'[k] = Flight[k + 1]
      /\ Flight' = <<>> <=> n = 1
  BY ConsumeFlight DEF MonitorInv
<1>3. UNCHANGED <<polling, lastRead, lastHash, held>>
  BY DEF Consume, pollVars
<1>4. Flight \in Seq(Contents) /\ m \in Contents
  BY <1>2, FlightType DEF MonitorInv
<1> HIDE DEF m, n
<1>5. Quiet'
  <2>1. polling
    BY <1>1, <1>2 DEF Quiet, n
  <2> QED
    BY <1>1, <1>3, <2>1 DEF Quiet
<1>6. \A k \in 1..Len(Flight') : Original(Flight[k])' /\ Original(Flight[k + 1])
  <2> SUFFICES ASSUME NEW k \in 1..Len(Flight')
               PROVE  Original(Flight[k])' /\ Original(Flight[k + 1])
    OBVIOUS
  <2>1. k + 1 \in 1..n /\ k + 1 # 1 /\ Flight'[k] = Flight[k + 1]
    BY <1>2
  <2>2. Original(Flight[k + 1])
    BY <1>1, <2>1 DEF Order, n
  <2> QED
    BY <2>1, <2>2 DEF Original
<1>7. Order'
  BY <1>6 DEF Order
<1>8. Distinct'
  <2> SUFFICES ASSUME NEW j \in 1..Len(Flight'), NEW k \in 1..Len(Flight'),
                      Flight'[j].created = Flight'[k].created
               PROVE  j = k
    BY DEF Distinct
  <2>1. /\ j + 1 \in 1..n /\ k + 1 \in 1..n
        /\ Flight[j + 1].created = Flight[k + 1].created
    BY <1>2
  <2>2. j + 1 = k + 1
    BY <1>1, <2>1 DEF Distinct, n
  <2> QED
    BY <1>2, <2>2
<1>9. Cached'
  <2>1. CASE CacheRead
    BY <1>3, <2>1 DEF CacheRead, Cached
  <2>2. CASE CacheSaved
    <3>1. \A k \in 1..Len(Flight') : AsSaved(Flight'[k]) = lastContent'
      BY <1>2, <2>2 DEF CacheSaved, Copied, n
    <3>2. \A k \in 1..Len(Flight) : Copied(Flight[k])
      BY <2>2 DEF CacheSaved
    <3>3. Flight' = <<>>
      <4> SUFFICES ASSUME n # 1 PROVE FALSE
        BY <1>2
      <4>1. 1 \in 1..Len(Flight') /\ 2 \in 1..n
        BY <1>2
      <4>2. Original(Flight[2]) /\ Copied(Flight[2]) /\ Flight[2] \in Contents
        BY <1>4, <1>6, <3>2, <4>1 DEF n
      <4> QED
        BY <4>2, CopiedFacts DEF MonitorInv
    <3>4. CacheSaved'
      BY <1>3, <2>2, <3>1, <3>3 DEF CacheSaved, Copied, AsSaved
    <3> QED
      BY <3>4 DEF Cached
  <2> QED
    BY <1>1, <2>1, <2>2 DEF Cached
<1>10. SharedLast'
  <2> SUFFICES ASSUME cache # Nothing, NEW k \in 1..Len(Flight'),
                      Flight'[k].created = cache.created
               PROVE  k = Len(Flight') /\ Flight'[k].item = lastRead
    BY <1>3 DEF SharedLast
  <2>1. k + 1 \in 1..n /\ Original(Flight[k + 1]) /\ Flight'[k] = Flight[k + 1]
    BY <1>2, <1>6
  <2>2. k + 1 = n /\ Flight[k + 1].item = lastRead
    BY <1>1, <2>1 DEF SharedLast, n
  <2> QED
    BY <1>2, <2>1, <2>2
<1>11. ASSUME HashFaithful PROVE Delivered'
  <2> SUFFICES ASSUME lastRead \notin Oversize \cup {Nothing}
               PROVE  /\ Flight' # <<>> => Fits(Flight[Len(Flight)])'
                      /\ Flight' = <<>> => Captured(lastRead)
    BY <1>3 DEF Delivered, Captured
  <2>1. Fits(Flight[n]) /\ lastRead \in Items
    <3>1. Flight # <<>>
      BY <1>2, <1>4 DEF n
    <3> QED
      BY <1>1, <1>11, <3>1 DEF Delivered, n, MonitorInv, TypeOK
  <2>2. ASSUME Flight' # <<>> PROVE Fits(Flight[Len(Flight)])'
    <3>1. Len(Flight') \in 1..Len(Flight') /\ Flight'[Len(Flight')] = Flight[n]
      BY <1>2, <2>2
    <3>2. Original(Flight[Len(Flight)])'
      BY <1>6, <3>1
    <3>3. n \in 1..n /\ Flight[n] \in Contents
      BY <1>2, <1>4 DEF n
    <3>4. Original(Flight[n])
      BY <1>2, <1>6, <3>1
    <3>5. Flight[n].item = lastRead
      BY <2>1, <3>3, <3>4, CopiedFacts DEF Fits, MonitorInv
    <3> QED
      BY <1>3, <3>1, <3>2, <3>5 DEF Fits
  <2>3. ASSUME Flight' = <<>> PROVE Captured(lastRead)
    <3>1. Fits(m)
      BY <1>2, <2>1, <2>3
    <3>2. CASE Copied(m) /\ Captured(lastRead)
      BY <3>2
    <3>3. CASE Original(m) /\ m.item = lastRead
      <4>1. SameValue(m, lastContent)
        BY <1>4, <3>3, CopiedFacts DEF m, MonitorInv
      <4>2. /\ lastContent # Nothing /\ lastContent.item = lastRead
            /\ lastContent.type = "text"
        BY <3>3, <4>1 DEF SameValue, MonitorInv, Normal
      <4> QED
        BY <4>2 DEF Captured
    <3> QED
      BY <3>1, <3>2, <3>3 DEF Fits
  <2> QED
    BY <2>2, <2>3
<1> QED
  BY <1>5, <1>7, <1>8, <1>9, <1>10, <1>11 DEF Pipeline, HashFaithful

\* A read that the Monitor keeps: what it makes of it becomes the last content,
\* and the cached object too if it is that read's, which is then the newest.
LEMMA ProcessStep ==
    ASSUME MonitorInv, Live, Consume,
           Original(Head(contentCh)), Head(contentCh).item \notin Oversize,
           cache' = CacheRewritten(Head(contentCh)),
           lastContent' = Processed(Head(contentCh))
    PROVE  Pipeline'
<1> DEFINE m == Head(contentCh)
           n == Len(Flight)
<1>1. /\ Quiet /\ Order /\ Distinct /\ Cached /\ SharedLast
      /\ HashFaithful => Delivered
  BY DEF MonitorInv, Pipeline
<1>2. /\ n \in Nat \ {0} /\ Flight[1] = m
      /\ Len(Flight') = n - 1
      /\ \A k \in 1..Len(Flight') : k + 1 \in 2..n /\ Flight'[k] = Flight[k + 1]
      /\ Flight' = <<>> <=> n = 1
  BY ConsumeFlight DEF MonitorInv
<1>3. UNCHANGED <<polling, lastRead, lastHash, held>>
  BY DEF Consume, pollVars
<1>4. Flight \in Seq(Contents) /\ m \in Contents
  BY <1>2, FlightType DEF MonitorInv
<1>5. /\ lastContent' \in SavedContents /\ lastContent' # Nothing
      /\ lastContent'.item \in {m.item, Trim[m.item]}
      /\ m.item \in Rich => lastContent'.item = m.item
      /\ lastContent'.type = "text"
      /\ lastContent'.created = m.created
  BY <1>4, ProcessedType, StampAssumption DEF Original
<1>6. m.shared /\ cache' = CacheRewritten(m) /\ m.item \notin Oversize /\ Original(m)
      /\ lastContent' = Processed(m)
  BY DEF Original
<1> HIDE DEF m, n
<1>7. polling /\ Quiet'
  <2>1. polling
    BY <1>1, <1>2 DEF Quiet, n
  <2>2. cache' = Nothing <=> cache = Nothing
    BY <1>4, <1>6, RewrittenType DEF MonitorInv
  <2> QED
    BY <1>1, <1>3, <2>1, <2>2 DEF Quiet
<1>8. cache # Nothing => CacheRead
  <2> SUFFICES ASSUME CacheSaved PROVE FALSE
    BY <1>1 DEF Cached
  <2>1. Copied(Flight[1])
    BY <1>2 DEF CacheSaved, n
  <2> QED
    BY <1>2, <1>4, <1>6, <2>1, CopiedFacts DEF MonitorInv
<1>9. \A k \in 1..Len(Flight') : Original(Flight[k])' /\ Original(Flight[k + 1])
  <2> SUFFICES ASSUME NEW k \in 1..Len(Flight')
               PROVE  Original(Flight[k])' /\ Original(Flight[k + 1])
    OBVIOUS
  <2>1. k + 1 \in 1..n /\ k + 1 # 1 /\ 1 \in 1..n /\ Flight'[k] = Flight[k + 1]
    BY <1>2
  <2>2. Original(Flight[k + 1])
    BY <1>1, <2>1 DEF Order, n
  <2>3. Flight[k + 1].created # Flight[1].created
    BY <1>1, <2>1 DEF Distinct, n
  <2> QED
    BY <1>2, <1>5, <2>1, <2>2, <2>3 DEF Original
<1>10. Order'
  BY <1>9 DEF Order
<1>11. Distinct'
  <2> SUFFICES ASSUME NEW j \in 1..Len(Flight'), NEW k \in 1..Len(Flight'),
                      Flight'[j].created = Flight'[k].created
               PROVE  j = k
    BY DEF Distinct
  <2>1. /\ j + 1 \in 1..n /\ k + 1 \in 1..n
        /\ Flight[j + 1].created = Flight[k + 1].created
    BY <1>2
  <2>2. j + 1 = k + 1
    BY <1>1, <2>1 DEF Distinct, n
  <2> QED
    BY <1>2, <2>2
<1>12. Cached' /\ SharedLast'
  <2>1. CASE cache = Nothing
    <3>1. cache' = Nothing
      BY <1>4, <1>6, <2>1, RewrittenType DEF MonitorInv
    <3> QED
      BY <3>1 DEF Cached, SharedLast
  <2>2. CASE cache # Nothing /\ cache.created = m.created
    <3>1. n = 1 /\ m.item = lastRead
      <4>1. 1 \in 1..n
        BY <1>2
      <4> QED
        BY <1>1, <1>2, <1>6, <2>2, <4>1 DEF SharedLast, n
    <3>2. Flight' = <<>> /\ Len(Flight') = 0
      BY <1>2, <3>1
    <3>3. cache' = [cache EXCEPT !.item = Processed(m).item, !.type = Processed(m).type]
      BY <1>6, <2>2 DEF CacheRewritten
    <3>4. cache \in Contents
      BY <2>2 DEF MonitorInv, TypeOK
    <3>5. /\ cache'.item = lastContent'.item /\ cache'.type = lastContent'.type
          /\ cache'.created = lastContent'.created
      BY <1>5, <1>6, <2>2, <3>3, <3>4 DEF Contents
    <3>6. Copied(cache)'
      <4>1. lastContent' = [item |-> lastContent'.item, type |-> lastContent'.type,
                            created |-> lastContent'.created]
        BY <1>5 DEF SavedContents
      <4> QED
        BY <3>5, <4>1 DEF Copied, AsSaved
    <3>7. CacheSaved'
      <4>1. lastHash' = HashOf[lastRead']
        BY <1>3, <1>8, <2>2 DEF CacheRead
      <4>2. /\ cache'.item \in {lastRead', Trim[lastRead']} /\ lastRead' \notin Oversize
            /\ lastRead' \in Rich => cache'.item = lastRead'
        BY <1>3, <1>5, <1>6, <3>1, <3>5
      <4> QED
        BY <3>2, <3>6, <4>1, <4>2 DEF CacheSaved
    <3> QED
      BY <3>2, <3>7 DEF Cached, SharedLast
  <2>3. CASE cache # Nothing /\ cache.created # m.created
    <3>1. cache' = cache
      BY <1>6, <2>3 DEF CacheRewritten
    <3>2. Cached'
      BY <1>3, <1>8, <2>3, <3>1 DEF Cached, CacheRead
    <3>3. SharedLast'
      <4> SUFFICES ASSUME NEW k \in 1..Len(Flight'),
                          Flight'[k].created = cache.created
                   PROVE  k = Len(Flight') /\ Flight'[k].item = lastRead
        BY <1>3, <3>1 DEF SharedLast
      <4>1. k + 1 \in 1..n /\ Original(Flight[k + 1]) /\ Flight'[k] = Flight[k + 1]
        BY <1>2, <1>9
      <4>2. k + 1 = n /\ Flight[k + 1].item = lastRead
        BY <1>1, <2>3, <4>1 DEF SharedLast, n
      <4> QED
        BY <1>2, <4>1, <4>2
    <3> QED
      BY <3>2, <3>3
  <2> QED
    BY <2>1, <2>2, <2>3
<1>13. ASSUME HashFaithful PROVE Delivered'
  <2> SUFFICES ASSUME lastRead \notin Oversize \cup {Nothing}
               PROVE  /\ Flight' # <<>> => Fits(Flight[Len(Flight)])'
                      /\ Flight' = <<>> => Captured(lastRead)'
    BY <1>3 DEF Delivered
  <2>1. Fits(Flight[n]) /\ lastRead \in Items
    <3>1. Flight # <<>>
      BY <1>2, <1>4 DEF n
    <3> QED
      BY <1>1, <1>13, <3>1 DEF Delivered, n, MonitorInv, TypeOK
  <2>2. Original(Flight[n])
    <3>1. CASE n = 1
      BY <1>2, <1>6, <3>1
    <3>2. CASE n # 1
      <4>1. n - 1 \in 1..Len(Flight') /\ n - 1 + 1 = n
        BY <1>2, <3>2
      <4> QED
        BY <1>9, <4>1
    <3> QED
      BY <3>1, <3>2
  <2>3. Flight[n].item = lastRead
    <3>1. n \in 1..n /\ Flight[n] \in Contents
      BY <1>2, <1>4 DEF n
    <3> QED
      BY <2>1, <2>2, <3>1, CopiedFacts DEF Fits, MonitorInv
  <2>4. ASSUME Flight' # <<>> PROVE Fits(Flight[Len(Flight)])'
    <3>1. Len(Flight') \in 1..Len(Flight') /\ Flight'[Len(Flight')] = Flight[n]
      BY <1>2, <2>4
    <3>2. Original(Flight[Len(Flight)])'
      BY <1>9, <3>1
    <3> QED
      BY <1>3, <2>3, <3>1, <3>2 DEF Fits
  <2>5. ASSUME Flight' = <<>> PROVE Captured(lastRead)'
    <3>1. m.item = lastRead
      BY <1>2, <2>3, <2>5
    <3>2. /\ lastContent' # Nothing /\ lastContent'.item \in {lastRead', Trim[lastRead']}
          /\ lastContent'.type = "text"
      BY <1>3, <1>5, <3>1
    <3> QED
      BY <3>2 DEF Captured
  <2> QED
    BY <2>4, <2>5
<1> QED
  BY <1>7, <1>10, <1>11, <1>12, <1>13 DEF Pipeline, HashFaithful

\* A content through the Monitor's loop.
LEMMA ConsumeStep ==
    ASSUME MonitorInv, Consume
    PROVE  Life' /\ Normal' /\ OneSavePerRead' /\ Pipeline'
<1> USE DEF monitorVars
<1> DEFINE m == Head(contentCh)
<1>1. /\ UNCHANGED <<mode, polling, heard, running, stopCh>>
      /\ running /\ ~stopCh
  BY DEF Consume, helperVars, pollVars
<1>2. m \in Contents
  BY DEF Consume, MonitorInv, TypeOK
<1>3. Life'
  BY <1>1 DEF MonitorInv, Life
<1>4. CASE UNCHANGED <<monitorVars, cache>>
           /\ (SameValue(m, lastContent) \/ m.item \in Oversize)
  <2>1. Normal' /\ OneSavePerRead'
    BY <1>1, <1>4 DEF MonitorInv, Normal, OneSavePerRead
  <2>2. CASE ~Live
    BY <1>1, <1>3, <2>1, <2>2 DEF Live, Pipeline
  <2>3. CASE Live
    BY <1>3, <1>4, <2>1, <2>3, DropStep
  <2> QED
    BY <2>2, <2>3
<1>5. CASE /\ processNewContent(m) /\ m.item \notin Oversize
           /\ \E late \in BOOLEAN : ~isContentEqual(m, late)
  <2>1. /\ cache' = CacheRewritten(m)
        /\ lastContent' = Processed(m)
        /\ stored' \in {stored, Processed(m)}
        /\ timesSaved' = IF lastContent # Nothing /\ lastContent.created = m.created
                         THEN 2 ELSE 1
    BY <1>5 DEF processNewContent
  <2>2. Normal'
    BY <1>2, <2>1, ProcessedType DEF MonitorInv, Normal
  <2>3. CASE ~Live
    <3>1. heard'
      BY <1>1, <2>3 DEF Live
    <3> QED
      BY <1>3, <2>2, <3>1 DEF OneSavePerRead, Pipeline, Live
  <2>4. CASE Live
    <3>1. Original(m)
      <4>1. Order /\ Len(Flight) \in Nat \ {0} /\ Flight[1] = m
        BY <2>4, ConsumeFlight DEF MonitorInv, Pipeline
      <4>2. Original(m) \/ Copied(m)
        BY <4>1 DEF Order
      <4>3. ~Copied(m)
        BY <1>2, <1>5, CopiedFacts DEF MonitorInv, isContentEqual, SameValue
      <4> QED
        BY <4>2, <4>3
    <3>2. timesSaved' = 1
      BY <2>1, <3>1 DEF Original
    <3>3. Pipeline'
      BY <1>5, <2>1, <2>4, <3>1, ProcessStep
    <3> QED
      BY <1>3, <2>2, <3>2, <3>3 DEF OneSavePerRead
  <2> QED
    BY <2>3, <2>4
<1> QED
  BY <1>4, <1>5 DEF Consume, processNewContent, isContentEqual

-----------------------------------------------------------------------------
(***************************************************************************)
(* The theorems.                                                           *)
(***************************************************************************)

\* Every step keeps the invariant.
LEMMA MonitorInvStep ==
    ASSUME MonitorInv, [Next]_vars
    PROVE  MonitorInv'
<1>1. TypeOK'
  BY TypesStep DEF MonitorInv
<1>2. Life' /\ Normal' /\ OneSavePerRead' /\ Pipeline'
  <2>1. CASE UNCHANGED vars
    <3>1. UNCHANGED <<lastContent, stored, running, timesSaved, heard, stopCh, cache, mode,
                      lastRead, lastHash, polling, held, contentCh>>
      BY <2>1 DEF vars, clipboardVars, readVars, helperVars, pollVars, monitorVars
    <3>2. Flight' = Flight
      BY <3>1 DEF Flight
    <3>3. Pipeline'
      BY <3>1, <3>2, PipelineFrame DEF MonitorInv, Live
    <3> QED
      BY <3>1, <3>3 DEF MonitorInv, Normal, OneSavePerRead, Life
  <2> QED
    BY <2>1, WatchStep, PollStep, SendStopStep, EnvironmentStep, ConsumeStep, LifeStep
       DEF Next
<1> QED
  BY <1>1, <1>2 DEF MonitorInv

\* Nothing runs in the initial state.
LEMMA InitMonitorInv == Init => MonitorInv
<1> SUFFICES ASSUME Init PROVE MonitorInv
  OBVIOUS
<1>1. TypeOK
  BY InitTypes
<1>2. Life /\ Normal /\ OneSavePerRead /\ Pipeline
  BY DEF Init, Life, Normal, OneSavePerRead, Pipeline, Live
<1> QED
  BY <1>1, <1>2 DEF MonitorInv

\* The invariant of the poller's pipeline holds in every behaviour.
THEOREM MonitorInvariant == Spec => []MonitorInv
<1>1. Init => MonitorInv
  BY InitMonitorInv
<1>2. MonitorInv /\ [Next]_vars => MonitorInv'
  BY MonitorInvStep
<1> QED
  BY <1>1, <1>2, PTL DEF Spec

\* OneSavePerRead of Monitor: while only a poller reads, no capture is saved
\* twice, whatever hashContent does: a cache hit hands out either what was
\* sent last, which the hash stops, or a clone of the last content, which
\* isContentEqual stops however late it comes.
THEOREM OneSave == Spec => []OneSavePerRead
<1>1. MonitorInv => OneSavePerRead
  BY DEF MonitorInv
<1> QED
  BY <1>1, MonitorInvariant, PTL

\* ReadsReachMonitor of Monitor: if hashContent tells the items apart, the
\* Monitor has the last item read, trimmed or not, whenever nothing is on
\* its way: the hash, the cache and isContentEqual never suppress a read that
\* the Monitor has not met.
THEOREM ReadsDelivered == HashFaithful => (Spec => []ReadsReachMonitor)
<1> SUFFICES ASSUME HashFaithful PROVE Spec => []ReadsReachMonitor
  OBVIOUS
<1>1. MonitorInv => ReadsReachMonitor
  <2> SUFFICES ASSUME MonitorInv, Live, contentCh = <<>>, held["poller"] = Nothing,
                      lastRead \notin Oversize \cup {Nothing}
               PROVE  Captured(lastRead)
    BY DEF ReadsReachMonitor, Live, Producers
  <2>1. Flight = <<>>
    BY DEF Flight
  <2>2. Delivered
    BY DEF MonitorInv, Pipeline
  <2> QED
    BY <2>1, <2>2 DEF Delivered
<1> QED
  BY <1>1, MonitorInvariant, PTL

=============================================================================
