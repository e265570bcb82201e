--------------------------- MODULE LinuxClipboard ---------------------------
(***************************************************************************)
(* internal/platform/clipboard_linux.go: reading the clipboard through a   *)
(* short-lived cache, and the goroutines that watch it and send what they  *)
(* read to contentCh.                                                      *)
(*                                                                         *)
(* The events goroutine waits for a helper process (xprop, wl-paste) and   *)
(* the poller for its ticker; when a helper fails, the goroutine falls     *)
(* back to another method.  Read holds c.mu, so a read is one action.      *)
(* Time appears as two facts: the cache's two seconds have run out, and a  *)
(* read has a Created of its own.  Polling intervals only delay a tick.    *)
(***************************************************************************)
EXTENDS Integers, Sequences, FiniteSets

CONSTANTS
    Items,           \* what can be copied (the bytes)
    Rich,            \* items offered as HTML, RTF or a file list, not as text
    Plain,           \* the text that is offered beside a rich item
    Trim,            \* the item that bytes.TrimSpace makes of an item
    HashOf,          \* hashContent of an item
    StartModes,      \* results of detectMonitoringMode to consider
    Listings,        \* whether xclip or wl-paste is there to list the formats
    SkipThreshold,   \* polls without a change of formats before a full read
    ChanCap,         \* capacity of contentCh
    Stamps,          \* values of Created, enough to tell live contents apart
    MaxCopies,       \* bound: times the user copies something
    MaxErrors,       \* bound: reads that fail
    Nothing          \* nil

ASSUME ClipboardAssumption ==
    /\ Rich \subseteq Items
    /\ Plain \in [Rich -> Items \ Rich]
    /\ Trim \in [Items -> Items]
    /\ DOMAIN HashOf = Items
    /\ StartModes \subseteq {"xfixes", "xprop", "wayland", "polling"}
    /\ Listings \subseteq BOOLEAN
    /\ SkipThreshold \in Nat \ {0}
    /\ ChanCap \in Nat \ {0}
    /\ MaxCopies \in Nat
    /\ MaxErrors \in Nat
    /\ Nothing \notin Items

Producers == {"events", "poller"}

VARIABLES
    clip,          \* what the user copied last, or Nothing
    copies,        \* number of copies so far
    cache,         \* contentCache.Content, or Nothing
    cacheFormats,  \* contentCache.Formats, or "none"
    cacheValid,    \* isCacheValid()
    lastRead,      \* LinuxClipboard.lastContent
    errors,        \* number of failed reads and listings so far
    listable,      \* the session has a command that lists the formats
    mode,          \* what the events goroutine runs, or "none"
    helper,        \* the helper process is "up", "down" or (its end dealt with) "done"
    pending,       \* notifications the helper has written and nobody has read
    heard,         \* a notification has been read (readData, the open pipe)
    polling,       \* the poller goroutine is running
    formats,       \* the poller's formats
    skipCounter,   \* the poller's skipCounter
    lastHash,      \* the poller's lastContentHash
    held,          \* the content each goroutine is about to send, or Nothing
    contentCh,     \* the channel to the Monitor
    stopCh         \* the stop channel has been closed

sessionVars == <<clip, copies, listable>>
readVars == <<cache, cacheFormats, cacheValid, lastRead, errors>>
helperVars == <<mode, helper, pending, heard>>
pollVars == <<polling, formats, skipCounter, lastHash>>
clipboardVars == <<sessionVars, readVars, helperVars, pollVars, held, contentCh, stopCh>>
-----------------------------------------------------------------------------
TypeOf(i) == IF i \in Rich THEN "rich" ELSE "text"
FormatsOf(i) == TypeOf(i)

\* A content; shared says that it is the very object that Read has cached, so
\* that what the Monitor rewrites in it changes in the cache too.
Contents == [item : Items, type : {"rich", "text"}, created : Stamps, shared : BOOLEAN]

(***************************************************************************)
(* Read: the content or the error (Nothing) it returns, and what it leaves *)
(* in the cache and in lastContent.                                        *)
(***************************************************************************)
Outcome(content, newCache, newFormats, newValid, newLast, failed) ==
    [content |-> content, cache |-> newCache, formats |-> newFormats,
     valid |-> newValid, last |-> newLast, failed |-> failed]

\* A hit that also remembers what the clipboard holds now.
CacheHitRemembers ==
    Outcome([cache EXCEPT !.shared = FALSE], cache, cacheFormats, TRUE, clip, 0)

\* The cached content is cloned: same Created, its own Data.
CacheHit ==
    Outcome([cache EXCEPT !.shared = FALSE], cache, cacheFormats, TRUE, lastRead, 0)

ReadFailure == Outcome(Nothing, cache, cacheFormats, FALSE, lastRead, 1)

\* What the readers can bring: the bytes, the type detectContentType gives
\* them, the formats that were listed, and whether a command failed.
Reading(item, type, listed, failed) ==
    [item |-> item, type |-> type, formats |-> listed, failed |-> failed]

\* A rich item is read as text when its format cannot be listed, or when the
\* reader of its format fails; in that case the type still follows the formats
\* that were listed, except for a file list that is none.
TextReadings ==
    IF listable
    THEN {Reading(Plain[clip], "text", "text", 1), Reading(Plain[clip], "text", "rich", 1),
          Reading(Plain[clip], "rich", "rich", 1)}
    ELSE {Reading(Plain[clip], "text", "text", 0)}

Readings ==
    (IF clip \in Rich THEN TextReadings ELSE {})
      \cup (IF clip \in Rich => listable
            THEN {Reading(clip, TypeOf(clip), FormatsOf(clip), 0)} ELSE {})

\* The content that is made of a reading.
ContentOf(g, created) ==
    [item |-> g.item, type |-> g.type, created |-> created, shared |-> TRUE]

\* A real read of something new, and the cache refreshed with it.
Fresh(g, created) ==
    Outcome(ContentOf(g, created), ContentOf(g, created), g.formats, TRUE, g.item, g.failed)

\* "content unchanged": a read as text leaves the cache alone, the readers of
\* the other formats have already refreshed it.
Unchanged(g, created) ==
    IF g.item \in Rich
    THEN [Fresh(g, created) EXCEPT !.content = Nothing]
    ELSE Outcome(Nothing, cache, cacheFormats, FALSE, lastRead, g.failed)

Read(created) ==
    IF cacheValid THEN {CacheHit}
    ELSE {ReadFailure} \cup
         (IF clip = Nothing THEN {}
          ELSE {IF g.item = lastRead THEN Unchanged(g, created) ELSE Fresh(g, created) :
                  g \in Readings})

\* The state after a read with outcome r.
AfterRead(r) ==
    /\ clip = Nothing \/ errors + r.failed <= MaxErrors
    /\ errors' = IF clip = Nothing THEN errors ELSE errors + r.failed
    /\ cache' = r.cache
    /\ cacheFormats' = r.formats
    /\ cacheValid' = r.valid
    /\ lastRead' = r.last
-----------------------------------------------------------------------------
(***************************************************************************)
(* The events goroutine.                                                   *)
(***************************************************************************)

\* One notification: read the clipboard and hold what it returns for sending.
ReadAndHold(created) ==
    \E r \in Read(created) :
        /\ AfterRead(r)
        /\ held' = [held EXCEPT !["events"] = r.content]

StartPolling ==
    /\ polling' = TRUE
    /\ formats' = "none" /\ skipCounter' = 0 /\ lastHash' = "none"

Waiting(m) == mode = m /\ held["events"] = Nothing

\* A read of the pipe that fails is not taken for a change.
XFixesChangeWithData(created) ==
    /\ Waiting("xfixes")
    /\ pending > 0
    /\ pending' = 0 /\ heard' = TRUE
    /\ ReadAndHold(created)
    /\ UNCHANGED <<sessionVars, mode, helper, pollVars, contentCh, stopCh>>

\* monitorWithXFixes, a change: once a first writer has come and gone, the
\* pipe's reads return at once (with an error, which is only logged).  The
\* helper is never waited for, so Signal(0) may succeed on one that has ended.
XFixesChange(created) ==
    /\ Waiting("xfixes")
    /\ pending > 0 \/ heard
    /\ pending' = 0 /\ heard' = TRUE
    /\ ReadAndHold(created)
    /\ UNCHANGED <<sessionVars, mode, helper, pollVars, contentCh, stopCh>>

\* monitorWithXFixes, a change after the helper died and Signal(0) says so:
\* back to polling.
XFixesDied ==
    /\ Waiting("xfixes")
    /\ pending > 0 \/ heard
    /\ helper = "down"
    /\ mode' = "none"
    /\ StartPolling
    /\ UNCHANGED <<sessionVars, readVars, helper, pending, heard, held, contentCh, stopCh>>

\* tryDirectXpropMonitoring: one line of xprop's output, unless stopped.
XpropLine(created) ==
    /\ Waiting("xprop")
    /\ pending > 0
    /\ ~stopCh
    /\ pending' = pending - 1 /\ heard' = TRUE
    /\ ReadAndHold(created)
    /\ UNCHANGED <<sessionVars, mode, helper, pollVars, contentCh, stopCh>>

\* The fallback without the end of the goroutine that falls back.
XpropEndsTwice ==
    /\ Waiting("xprop")
    /\ pending = 0 /\ helper = "down"
    /\ ~polling
    /\ StartPolling
    /\ UNCHANGED <<sessionVars, readVars, helperVars, held, contentCh, stopCh>>

\* The output of xprop ends: back to polling.
XpropEnds ==
    /\ Waiting("xprop")
    /\ pending = 0 /\ helper = "down"
    /\ mode' = "none"
    /\ StartPolling
    /\ UNCHANGED <<sessionVars, readVars, helper, pending, heard, held, contentCh, stopCh>>

\* monitorWithWayland: a read of wl-paste's output completes, with data or,
\* once data has been seen, with an error that leaves readData as it was.
WaylandChange(created) ==
    /\ Waiting("wayland")
    /\ pending > 0 \/ (helper = "down" /\ heard)
    /\ pending' = 0 /\ heard' = TRUE
    /\ ReadAndHold(created)
    /\ UNCHANGED <<sessionVars, mode, helper, pollVars, contentCh, stopCh>>

\* The stream closes before any data: tryAlternativeWaylandMonitoring, with a
\* wl-paste of its own, which reports the present content at once.
WaylandCloses ==
    /\ Waiting("wayland")
    /\ pending = 0 /\ helper = "down" /\ ~heard
    /\ mode' = "alternative"
    /\ helper' = "up" /\ pending' = 1
    /\ UNCHANGED <<sessionVars, readVars, heard, pollVars, held, contentCh, stopCh>>

\* tryAlternativeWaylandMonitoring: one line of wl-paste's output.
AlternativeLine(created) ==
    /\ Waiting("alternative")
    /\ pending > 0
    /\ pending' = pending - 1 /\ heard' = TRUE
    /\ ReadAndHold(created)
    /\ UNCHANGED <<sessionVars, mode, helper, pollVars, contentCh, stopCh>>

\* Its scanner's goroutine meets the end of the output and starts the poller,
\* whatever the loop that reads and sends is doing.
AlternativeEnds ==
    /\ mode = "alternative"
    /\ pending = 0 /\ helper = "down"
    /\ helper' = "done"
    /\ StartPolling
    /\ UNCHANGED <<sessionVars, readVars, mode, pending, heard, held, contentCh, stopCh>>
-----------------------------------------------------------------------------
(***************************************************************************)
(* monitorWithAdaptivePolling.                                             *)
(***************************************************************************)

\* getAvailableFormats: answered from the cache while that is valid, by xclip
\* or wl-paste otherwise, if there is one and the clipboard is not empty.
AvailableFormats == IF cacheValid THEN cacheFormats ELSE FormatsOf(clip)
FormatsAvailable == cacheValid \/ (listable /\ clip # Nothing)

\* formatsEqual, of the formats seen last and the ones available now.
FormatsEqual == formats = AvailableFormats

\* A tick that has the formats to look at; on an error it does nothing more.
Ticks == polling /\ held["poller"] = Nothing /\ FormatsAvailable

\* A content was read, and its hash is not the last one.
HashChanged(r) == r.content # Nothing /\ HashOf[r.content.item] # lastHash

\* A tick whose listing fails for once, although there is a command for it.
PollFails ==
    /\ Ticks /\ ~cacheValid
    /\ errors < MaxErrors
    /\ errors' = errors + 1
    /\ UNCHANGED <<sessionVars, cache, cacheFormats, cacheValid, lastRead,
                   helperVars, pollVars, held, contentCh, stopCh>>

\* A skipped tick that is not counted.
PollSkipsUncounted ==
    /\ Ticks
    /\ FormatsEqual
    /\ skipCounter + 1 < SkipThreshold
    /\ UNCHANGED clipboardVars

\* A tick that finds the same formats and skips the read.
PollSkips ==
    /\ Ticks
    /\ FormatsEqual
    /\ skipCounter + 1 < SkipThreshold
    /\ skipCounter' = skipCounter + 1
    /\ UNCHANGED <<sessionVars, readVars, helperVars, polling, formats, lastHash,
                   held, contentCh, stopCh>>

\* A tick that reads, and sends what it reads unless its hash is the last one.
PollReads(created) ==
    /\ Ticks
    /\ FormatsEqual => skipCounter + 1 >= SkipThreshold
    /\ formats' = AvailableFormats
    /\ skipCounter' = 0
    /\ \E r \in Read(created) :
         /\ AfterRead(r)
         /\ lastHash' = IF HashChanged(r) THEN HashOf[r.content.item] ELSE lastHash
         /\ held' = IF HashChanged(r) THEN [held EXCEPT !["poller"] = r.content] ELSE held
    /\ UNCHANGED <<sessionVars, helperVars, polling, contentCh, stopCh>>
-----------------------------------------------------------------------------
\* contentCh <- content, when there is room.
Send(p) ==
    /\ held[p] # Nothing
    /\ Len(contentCh) < ChanCap
    /\ contentCh' = Append(contentCh, held[p])
    /\ held' = [held EXCEPT ![p] = Nothing]
    /\ UNCHANGED <<sessionVars, readVars, helperVars, pollVars, stopCh>>

\* <-stopCh: in a select while waiting or sending; but the xprop loop, waiting,
\* looks at it only when a line has come, and the XFixes goroutine not before
\* the open of its pipe has met a first writer.
StopSending ==
    /\ stopCh
    /\ Waiting("xprop") => pending > 0
    /\ Waiting("xfixes") => heard \/ pending > 0

\* A bare send: the goroutine cannot stop while it holds a content.
EventsStopIdle ==
    /\ mode # "none"
    /\ StopSending
    /\ held["events"] = Nothing
    /\ mode' = "none"
    /\ pending' = 0
    /\ UNCHANGED <<sessionVars, readVars, helper, heard, pollVars, held, contentCh, stopCh>>

EventsStop ==
    /\ mode # "none"
    /\ StopSending
    /\ mode' = "none"
    /\ held' = [held EXCEPT !["events"] = Nothing]
    /\ pending' = 0
    /\ UNCHANGED <<sessionVars, readVars, helper, heard, pollVars, contentCh, stopCh>>

PollerStops ==
    /\ polling /\ stopCh
    /\ polling' = FALSE
    /\ held' = [held EXCEPT !["poller"] = Nothing]
    /\ UNCHANGED <<sessionVars, readVars, helperVars, formats, skipCounter, lastHash,
                   contentCh, stopCh>>
-----------------------------------------------------------------------------
(***************************************************************************)
(* The environment: the user, the clock and the helper process.            *)
(***************************************************************************)
Notified == IF helper = "up" /\ mode # "none" THEN pending + 1 ELSE pending

Copy(i) ==
    /\ copies < MaxCopies
    /\ copies' = copies + 1
    /\ clip' = i
    /\ pending' = Notified
    /\ UNCHANGED <<listable, readVars, mode, helper, heard, pollVars, held, contentCh,
                   stopCh>>

\* cacheExpiry has passed since the cache was filled.
CacheExpires ==
    /\ cacheValid
    /\ cacheValid' = FALSE
    /\ UNCHANGED <<sessionVars, cache, cacheFormats, lastRead, errors, helperVars,
                   pollVars, held, contentCh, stopCh>>

\* The helper process ends; notifications not yet passed on may go with it.
HelperDies ==
    /\ mode # "none" /\ helper = "up"
    /\ helper' = "down"
    /\ pending' \in {0, pending}
    /\ UNCHANGED <<sessionVars, readVars, mode, heard, pollVars, held, contentCh, stopCh>>

\* NewClipboard and MonitorChanges with the mode that was detected; xprop and
\* wl-paste report the present state of the clipboard when they start.  Wayland
\* is watched only where wl-paste is, which then lists the formats too.
MonitorChanges(m, l) ==
    /\ m = "wayland" => l
    /\ listable' = l
    /\ cache' = Nothing /\ cacheFormats' = "none"
    /\ cacheValid' = FALSE /\ lastRead' = Nothing
    /\ mode' = IF m = "polling" THEN "none" ELSE m
    /\ helper' = IF m = "polling" THEN "down" ELSE "up"
    /\ pending' = IF m = "polling" THEN 0 ELSE 1
    /\ heard' = FALSE
    /\ polling' = (m = "polling")
    /\ formats' = "none" /\ skipCounter' = 0 /\ lastHash' = "none"
    /\ held' = [p \in Producers |-> Nothing]
    /\ contentCh' = <<>>
    /\ stopCh' = FALSE

\* The goroutines' own steps, with the Created that a read would stamp.
Watch(created) ==
    \/ XFixesChange(created) \/ XFixesDied
    \/ XpropLine(created) \/ XpropEnds
    \/ WaylandChange(created) \/ WaylandCloses
    \/ AlternativeLine(created) \/ AlternativeEnds

Poll(created) == PollFails \/ PollSkips \/ PollReads(created)

Environment ==
    \/ \E i \in Items : Copy(i)
    \/ CacheExpires
    \/ HelperDies

=============================================================================
