------------------------------ MODULE Monitor ------------------------------
(***************************************************************************)
(* internal/clipboard/monitor.go, history.go and content_processing.go:    *)
(* the Monitor that takes contents from contentCh, drops the ones equal to *)
(* the last, normalises and saves the others, composed with the platform's *)
(* clipboard (LinuxClipboard), with stops and restarts of the process.     *)
(*                                                                         *)
(* The store is reduced to the content that GetLatestContent would return  *)
(* (BoltStorage, LatestIsLastSaved).  Publishing changes no state here:    *)
(* its errors are logged and nothing waits for it.                         *)
(***************************************************************************)
EXTENDS LinuxClipboard

CONSTANTS
    Oversize,      \* items longer than the processor's MaxSizeBytes
    RingSize,      \* slots of the in-memory history
    MaxRestarts    \* bound: starts of the process

ASSUME MonitorAssumption ==
    /\ Oversize \subseteq Items
    /\ RingSize \in Nat \ {0}
    /\ MaxRestarts \in Nat

VARIABLES
    running,       \* the process runs
    starts,        \* number of starts so far
    lastContent,   \* Monitor.lastContent
    stored,        \* the newest content in the store
    ring,          \* ClipboardHistory, oldest first
    timesSaved     \* history: saves of the read in lastContent, 2 for more

monitorVars == <<lastContent, stored, ring, timesSaved>>
vars == <<clipboardVars, monitorVars, running, starts>>

SavedContents == [item : Items, type : {"rich", "text"}, created : Stamps]

\* nil is no content, and there are more stamps than contents can be alive:
\* those in the channel, the cached, the last, the stored and the two held.
ASSUME StampAssumption ==
    /\ Nothing \notin Contents \cup SavedContents
    /\ IsFiniteSet(Stamps) => Cardinality(Stamps) > ChanCap + 5
-----------------------------------------------------------------------------
(***************************************************************************)
(* Process and prepareContent: text is trimmed; every content is given the *)
(* type its bytes suggest, which is never HTML, RTF or a file list.        *)
(***************************************************************************)
Processed(m) ==
    [item    |-> IF m.type = "text" THEN Trim[m.item] ELSE m.item,
     type    |-> "text",
     created |-> m.created]

SameValue(m, c) == c # Nothing /\ m.item = c.item /\ m.type = c.type

\* Lateness counted from the delivery instead of the capture.
EqualUnlessLate(m, late) == ~late /\ SameValue(m, lastContent)

\* isContentEqual; late says that the two were created over 5 seconds apart,
\* which a content and its own clone never are.
isContentEqual(m, late) ==
    /\ SameValue(m, lastContent)
    /\ late => m.created = lastContent.created

\* ClipboardHistory.Add: the ring's next slot is the oldest one.
Add(r, c) ==
    IF Len(r) < RingSize THEN Append(r, c) ELSE Append(Tail(r), c)

\* The cached content is the very object the Monitor has just rewritten.
CacheRewritten(m) ==
    IF m.shared /\ cache # Nothing /\ cache.created = m.created
    THEN [cache EXCEPT !.item = Processed(m).item, !.type = Processed(m).type]
    ELSE cache

\* processNewContent, with a save that succeeds or fails.
processNewContent(m) ==
    IF m.item \in Oversize
    THEN UNCHANGED <<monitorVars, cache>>
    ELSE /\ cache' = CacheRewritten(m)
         /\ lastContent' = Processed(m)
         /\ stored' \in {stored, Processed(m)}
         /\ ring' = Add(ring, Processed(m).item)
         /\ timesSaved' = IF lastContent # Nothing /\ lastContent.created = m.created
                          THEN 2 ELSE 1

\* One content through monitorClipboard's loop.
Consume ==
    /\ running /\ ~stopCh
    /\ contentCh # <<>>
    /\ contentCh' = Tail(contentCh)
    /\ \E late \in BOOLEAN :
         IF isContentEqual(Head(contentCh), late)
         THEN UNCHANGED <<monitorVars, cache>>
         ELSE processNewContent(Head(contentCh))
    /\ UNCHANGED <<sessionVars, cacheFormats, cacheValid, lastRead, errors,
                   helperVars, pollVars, held, stopCh, running, starts>>

\* NewMonitor and Start: lastContent from the store, an empty ring.
Start(m, l) ==
    /\ ~running
    /\ starts <= MaxRestarts
    /\ starts' = starts + 1
    /\ running' = TRUE
    /\ lastContent' = stored
    /\ ring' = <<>>
    /\ MonitorChanges(m, l)
    /\ UNCHANGED <<clip, copies, errors, stored, timesSaved>>

\* Monitor.Stop: the loop sees its context done and closes stopCh.
Stop ==
    /\ running /\ ~stopCh
    /\ stopCh' = TRUE
    /\ UNCHANGED <<sessionVars, readVars, helperVars, pollVars, held, contentCh,
                   monitorVars, running, starts>>

\* The process ends, in whatever state it is.
Exit ==
    /\ running
    /\ running' = FALSE
    /\ mode' = "none" /\ helper' = "down" /\ pending' = 0 /\ heard' = FALSE
    /\ polling' = FALSE /\ formats' = "none" /\ skipCounter' = 0 /\ lastHash' = "none"
    /\ listable' = FALSE
    /\ cache' = Nothing /\ cacheFormats' = "none"
    /\ cacheValid' = FALSE /\ lastRead' = Nothing
    /\ held' = [p \in Producers |-> Nothing]
    /\ contentCh' = <<>>
    /\ stopCh' = FALSE
    /\ lastContent' = Nothing
    /\ ring' = <<>>
    /\ timesSaved' = 0
    /\ UNCHANGED <<clip, copies, errors, stored, starts>>
-----------------------------------------------------------------------------
Init ==
    /\ clip = Nothing /\ copies = 0 /\ listable = FALSE
    /\ cache = Nothing /\ cacheFormats = "none" /\ cacheValid = FALSE
    /\ lastRead = Nothing /\ errors = 0
    /\ mode = "none" /\ helper = "down" /\ pending = 0 /\ heard = FALSE
    /\ polling = FALSE /\ formats = "none" /\ skipCounter = 0 /\ lastHash = "none"
    /\ held = [p \in Producers |-> Nothing]
    /\ contentCh = <<>> /\ stopCh = FALSE
    /\ running = FALSE /\ starts = 0
    /\ lastContent = Nothing /\ stored = Nothing /\ ring = <<>> /\ timesSaved = 0

\* The Created of a read is one that no content alive has.
LiveContents ==
    {cache, lastContent, stored} \cup {held[p] : p \in Producers}
      \cup {contentCh[i] : i \in DOMAIN contentCh}
Created == CHOOSE s \in Stamps : \A c \in LiveContents \ {Nothing} : c.created # s

Watching == Watch(Created) /\ UNCHANGED <<monitorVars, running, starts>>
Polling == Poll(Created) /\ UNCHANGED <<monitorVars, running, starts>>
Sending(p) == Send(p) /\ UNCHANGED <<monitorVars, running, starts>>
Stopping ==
    (EventsStop \/ PollerStops) /\ UNCHANGED <<monitorVars, running, starts>>

Next ==
    \/ Watching
    \/ Polling
    \/ \E p \in Producers : Sending(p)
    \/ Stopping
    \/ Environment /\ UNCHANGED <<monitorVars, running, starts>>
    \/ Consume
    \/ \E m \in StartModes, l \in Listings : Start(m, l)
    \/ Stop
    \/ Exit

(***************************************************************************)
(* Goroutines are scheduled, tickers tick, a ready branch of a select is   *)
(* taken in the end, and the cache's two seconds pass.  Nothing obliges    *)
(* the user to copy, the helper to die or the process to start or stop.    *)
(***************************************************************************)
Fairness ==
    /\ WF_vars(Watching)
    /\ WF_vars(Polling)
    /\ \A p \in Producers : WF_vars(Sending(p))
    /\ WF_vars(EventsStop /\ UNCHANGED <<monitorVars, running, starts>>)
    /\ WF_vars(PollerStops /\ UNCHANGED <<monitorVars, running, starts>>)
    /\ WF_vars(Consume)
    /\ WF_vars(CacheExpires /\ UNCHANGED <<monitorVars, running, starts>>)

Spec == Init /\ [][Next]_vars /\ Fairness
-----------------------------------------------------------------------------
(***************************************************************************)
(* Properties.                                                             *)
(***************************************************************************)

\* Every variable has its type, the channel is within its capacity, a valid
\* cache has a content, and the goroutine that watches and the one that polls
\* overlap only after the output of the alternative Wayland method has ended.
TypeOK ==
    /\ clip \in Items \cup {Nothing} /\ copies \in 0..MaxCopies
    /\ cache \in Contents \cup {Nothing} /\ cacheValid \in BOOLEAN
    /\ cacheValid => cache # Nothing
    /\ listable \in BOOLEAN /\ {formats, cacheFormats} \subseteq {"none", "rich", "text"}
    /\ lastRead \in Items \cup {Nothing} /\ errors \in 0..MaxErrors
    /\ mode \in {"xfixes", "xprop", "wayland", "alternative", "none"}
    /\ helper \in {"up", "down", "done"} /\ pending \in Nat /\ heard \in BOOLEAN
    /\ polling \in BOOLEAN /\ skipCounter \in 0..SkipThreshold - 1
    /\ polling /\ mode # "none" => mode = "alternative" /\ helper = "done"
    /\ held \in [Producers -> Contents \cup {Nothing}]
    /\ contentCh \in Seq(Contents) /\ Len(contentCh) <= ChanCap
    /\ stopCh \in BOOLEAN /\ running \in BOOLEAN
    /\ {lastContent, stored} \subseteq SavedContents \cup {Nothing}
    /\ ring \in Seq(Items) /\ Len(ring) <= RingSize
    /\ timesSaved \in 0..2

\* The Monitor's last content is item i, trimmed if it was read as text.
Captured(i) ==
    /\ lastContent # Nothing
    /\ lastContent.item \in {i, Trim[i]}
    /\ lastContent.type = "text"

\* What the poller reads reaches the Monitor: whenever nothing is on its way,
\* the last content is the last item read, whatever cache hits, skipped ticks,
\* failed reads and restarts came in between.
ReadsReachMonitor ==
    running /\ ~heard /\ ~stopCh /\ contentCh = <<>>
      /\ (\A p \in Producers : held[p] = Nothing)
      /\ lastRead \notin Oversize \cup {Nothing}
        => Captured(lastRead)

\* A read of the poller is saved once: a cache hit that hands out the same
\* capture again, before or after the Monitor rewrote it, is not saved again.
OneSavePerRead == ~heard => timesSaved <= 1

\* Once the user stops copying, a poller that can list the formats brings the
\* last item to the Monitor, however often it hit the cache, skipped a tick or
\* failed to list or to read before; the loop of the alternative Wayland method
\* may run beside it, if it had nothing left to send when the poller started.
PollerCaptures ==
    [](polling => held["events"] = Nothing) =>
        \A i \in Items \ Oversize :
            <>[](clip = i /\ polling /\ listable /\ ~stopCh) => <>[]Captured(i)

\* A goroutine whose pipe has ended without its noticing reads over and over
\* (monitorWithXFixes after the first writer, monitorWithWayland after the
\* first data): the fallback is not taken, yet the last item arrives.
SpinningCaptures ==
    \A i \in Items \ Oversize :
        <>[](/\ clip = i /\ heard /\ ~stopCh
             /\ i \in Rich => listable
             /\ mode = "xfixes" \/ (mode = "wayland" /\ helper = "down"))
          => <>[]Captured(i)

\* After Stop both goroutines end, even with a content in hand and the channel
\* full; only the xprop loop may still wait for its next line, and the XFixes
\* goroutine for a helper that died before it wrote anything.
StopEndsGoroutines ==
    stopCh ~> \/ ~stopCh
              \/ ~polling /\ mode = "none"
              \/ ~polling /\ Waiting("xprop")
              \/ ~polling /\ Waiting("xfixes") /\ ~heard /\ helper = "down"


\* A helper that ends is replaced (clipboard_linux.go, of a read of wl-paste:
\* "If no data was read, it means the pipe was closed").
HelperReplaced ==
    mode = "wayland" /\ helper = "down" ~> mode # "wayland"

=============================================================================
