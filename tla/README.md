# Verification of the Clipman daemon

TLA+ models of the Clipman daemon (a clipboard history daemon in Go), checked
with TLC on small instances and, where a theorem is listed, proved with TLAPS
for every value of the constants. Paths below are relative to `src/`.

## 1. The system

| Part | State it keeps | Operations | Interacts with |
|---|---|---|---|
| History storage, `internal/storage/boltdb.go` | the bbolt file; in memory a byte counter and two limits | open, `SaveContent`, flush (by size, by command, on close), `GetLatestContent`, `GetHistory` | the Monitor saves; `history`, `flush`, `run` and the daemon open the file, one at a time (bbolt's file lock) |
| Linux clipboard, `internal/platform/clipboard_linux.go` | two-second content cache, last bytes read, helper processes, poller state | `Read`; goroutines for XFixes, xprop, Wayland, alternative Wayland, adaptive polling | sends contents over `contentCh`, stops on `stopCh` |
| Monitor, `internal/clipboard/monitor.go`, `history.go`, `content_processing.go` | last content, in-memory ring | start, stop, the receive loop, duplicate check, processing, save, publish | reads `contentCh`; saves to the store; publishes |
| Pairing, `internal/sync/pairing.go`, `protocols.go` | pairing mode, its callback and timer, paired devices | enable, disable, request, handle a request, remove, start, stop | another device's PairingManager over a libp2p stream; the user, through a callback |
| Sync manager and node, `internal/sync/sync.go`, `node.go` | the map of known peers, the file `peers.json`, topics | start, stop, add, remove and list peers, periodic save; `SendContent` is a stub | calls discovery and pairing; called by the daemon and by `pair` |
| Discovery, `internal/sync/discovery/` | a manager and its services (manual, mDNS, DHT, paired), each with its own mutex; the DHT's ticker, query and loop | start, stop, `AddPeer`, the DHT round, `HandlePeerDiscovered`, load and save of peers | calls back into the node, which writes the map of peers |
| Commands, `internal/cli/` | none | daemon, `run`, `history`, `flush`, `pair`, `service`, ... | all of the above |
| Windows and macOS clipboards, daemonizing, configuration, compression, logger | | | see section 8 |

What is hard here, and hard to test (`PROJECT.json`, "hazards", gives each at
its line):

* **Storage**: the counter that triggers flushes is an estimate; keys are
  wall-clock text; commands with different settings open, flush and close the
  same file; a transaction can fail after the counter moved; the daemon ends
  without closing.
* **Capture**: a cache sits between the notification and the clipboard; the
  cached object is the one the Monitor rewrites; helpers die at any moment and
  each method has a different fallback; the channel may be full at stop.
* **Pairing**: the check of pairing mode, the user's answer, the recording and
  the response are four steps with no lock over them; the timer, `Stop`, a
  crash or a lost stream can come between any two.
* **Sync node and discovery**: the manager, its services and the facade each
  have a mutex, and `AddPeer` and `Stop` take two of them in opposite orders;
  `started`, the DHT's ticker and its query object are read outside the locks
  that `Stop` changes them under; the map of peers has no lock at all; every
  process rewrites the whole of `peers.json`, without a rename, from what it
  loaded when it started.

What makes each part correct: the store loses only the oldest contents, never
below `keepItems`, and says truthfully which is the latest; the last thing
copied reaches the Monitor and is saved once; devices are listed as paired only
by consent, and a success that is reported is true; calls on the sync manager
return and nothing of it goes on after `Stop`; known peers stay known.

## 2. Modules

```
ContentKeys <- BoltStorage <- HistoryQuery <- MCBoltStorage     (TLC)
               |    '- INSTANCE BoundedHistory (abstract specification)
               '- BoltStorageProofs                             (TLAPS)
HistoryQuery, BoltStorageProofs <- HistoryQueryProofs           (TLAPS)
LinuxClipboard <- Monitor <- MCMonitor                          (TLC)
                    '- MonitorProofs                            (TLAPS)
Pairing                                                         (TLC)
  '- PairingProofs                                              (TLAPS)
SyncNode                                                        (TLC)
  '- SyncNodeProofs                                             (TLAPS)
PeersFile                                                       (TLC)
  '- PeersFileProofs                                            (TLAPS)
```

**ContentKeys** models `Created.Format(time.RFC3339Nano)` by how the resulting
texts compare: local second, then the byte that follows it (`+`, `-`, `.` or
`Z`; a zero fraction disappears from the text), then the offset. Contents carry
an instant, an offset and a length; `EncodedLen` is the JSON length with base64
data.

**BoltStorage** has the file (`db`), the process that holds it (`owner`), the
counter and limits of its `BoltStorage` object, and history variables. One
action per operation: `NewBoltStorage(p)` for each command with the
configuration that command passes, `SaveContent(c)` including the flush inside
its transaction, `FlushCache`, `Close` (flush, then close), `Exit` (the signal
handler's `os.Exit`, or a crash). `Commit` lets each transaction fail, which
leaves the file but not the counter as it was. bbolt serialises read-write
transactions, so a transaction is one step.

**BoundedHistory** is what the store promises: contents are recorded one at a
time, and only the oldest disappear, never below `Keep`.

**HistoryQuery** models `GetHistory` as operators over the file: `Visited` is
what the loop meets from where `Seek` leaves the cursor, `Selected` the filters
of its body, `Walk` the order in which what they keep is collected, `Limited` the
cut. The reference answer (`Answer`) is in terms of instants only, and
`Answerable` says which questions the code can be held to.

**LinuxClipboard** has `Read` as a set of outcomes (cache hit, failure, fresh,
unchanged) and one action per event of each watching goroutine: a notification,
the helper's end, a tick that skips or reads, a send, a stop. `Read` holds
`c.mu`, so it is one step; the send that follows is another. An item is a model
value with its trimmed form and its kind (`Rich` items are HTML, RTF or file
lists, which `Read` handles differently from text). `Readings` are what the
readers can bring: the item itself, or for a rich item the text offered beside it
(`Plain`), when its format cannot be listed or the format's reader fails; the
type may then still follow the formats that were listed. `listable` says whether
the session has xclip or wl-paste. Without one `Read` assumes text and works,
while a tick of the poller ends at the failed listing (`Ticks`, and `PollFails`
for a listing that fails once); `getAvailableFormats` answers from the cache
while that is valid (`AvailableFormats`). `shared` says that a
content is the object in the cache. Signal(0) on a helper that has ended may
succeed, since nobody waits for the process: both answers are allowed. The XFixes
goroutine looks at nothing, `stopCh` included, until the open of its pipe has met
a first writer (`StopSending`).

**Monitor** extends it with `monitorClipboard`'s loop: `Consume` is one content
through the duplicate check and `processNewContent` (size limit, trimming, type
detection, save that succeeds or fails, ring, last content, and the rewriting of
the shared cached object). `Start`, `Stop` and `Exit` are the process's life;
the store is reduced to its latest content, which is what `LatestIsLastSaved` of
BoltStorage is about. `StampAssumption` asks for more creation times than there
can be contents alive at once, as a nanosecond clock provides. One thing the
two modules do not share: BoltStorage's saves come in the order of their creation
times (or repeat the last one), while a poller started beside the alternative
Wayland method could send an older read after a newer one.

**Pairing** models PairingManagers and the exchanges between them. A peer is one
run of a process: the identity is new in each run and the paired devices are not
stored. An exchange goes `CheckEnabled`, `CallHandler` (or `CallNilHandler`,
the panic when the callback was cleared in between), `Accept` or `Reject`,
`SendResponse`, `ReceiveResponse`, each a separate step, with
`ConnectionLost`, `Stop`, `Exit`, `TimerFires` and `TimerDisables` anywhere in
between. The model is at the level of the `SyncManager` interface, so one
process may enable, disable and request several times, which the `pair` command
itself does not do in one run.

**SyncNode** models one `sync.Manager` with its node and its discovery services
at the grain of the mutexes. The goroutines are the callers, the DHT service's
`discoverPeersLoop` and `savePeersRoutine`; `pc` says where each is, `writer` and
`readers` who holds each `sync.RWMutex`, including Go's rule that a waiting
`Lock` keeps new readers out (`CanRLock`). `AddPeer` is `GetManualDiscovery`,
`EnterManual` (the second look at `started`, under a read lock kept to the end),
`Connect`, `HandlePeerDiscovered`, `RecordPeer` (which keeps nothing of an ID
that does not decode), `DialPeer`. `Stop` is
`BeginStop`, `SaveAtStop`, `StopManager`, then for each service in any order
`NextService` and `StopService` (for a started DHT `StopDHT` and `CloseDHT`, since
the loop reads between them without a lock), `ServicesStopped`, `FinishStop`.
Which services exist follows from the configured method and `SyncOverInternet`,
as `ConvertToDiscoveryConfig` and `NewNode` have it. Undefined behaviour is an
outcome: `MapFault` wherever the unlocked map is written while another goroutine
writes or iterates it, `fault = "nil"` where the loop meets a nil ticker or DHT.
`Start` is one step, because the commands start a manager before they share it;
no command calls `Start` again after `Stop`.

**PeersFile** models `peers.json` and the processes around it: each loads the
file in `Start`, changes its own map by `Discover` and `RemovePeer`, and saves at
each tick and in `Stop`. A save is `savePeers` (up to the marshalled list),
`Truncate` and `Write`, so that a kill, a failure, another process or the other
save of the same process can come in between; a torn or empty file is not JSON
and yields no peers. The daemon is only ever killed: the signal handler exits,
and nothing calls its `Stop`. Of a peer the ID is kept. SyncNode leaves the file
out and PeersFile the locks; what they share is that `Discover` may come during
`Stop` and that the save of `Stop` and that of the routine may overlap.

Each component module also defines the mutated forms of its operations (named
for the mistake, in a comment above the operation) that show the properties can
fail.

## 3. Runs

| Run | Result | Shows |
|---|---|---|
| `storage` | pass, 25,897 states | `TypeOK`, `LatestIsLastSaved`, `CounterCoversData`, `HistoryAnswers`, `FlushKeepsNewest`, `SaveRespectsLimit`, refinement of BoundedHistory |
| `storage_drift` | violation | a save evicts although the file is under its limit (`docs/CACHING.md:28`); in the trace a re-saved key was counted twice, and a flush that subtracts less than the saves added is the other way to it |
| `storage_zones` | violation | with a falling zone offset the latest content is not the last saved (`boltdb.go:148`) |
| `monitor_polling` | pass, 336,730 states | `ReadsReachMonitor`, `OneSavePerRead`, `PollerCaptures` |
| `monitor_events` | pass, 450,284 states | `TypeOK`, `PollerCaptures`, `SpinningCaptures`, `StopEndsGoroutines` in XFixes, xprop and Wayland modes |
| `monitor_stale_cache` | violation | in an event mode a second copy within two seconds is never captured (`clipboard.go:18`) |
| `monitor_helper` | violation | a dead `wl-paste` is not noticed after its first line (`clipboard_linux.go:1443`) |
| `pairing` | pass, 238,876 states | `TypeOK`, `ListedByConsent`, `RequesterSeesTruth`, `RequestEnds`, `SessionEnds` |
| `pairing_late` | violation | a request is accepted after pairing mode has ended (`docs/PAIRING.md:93`) |
| `sync_node` | pass, 139,016 states | `TypeOK`, `NoAddAfterStop`, `LoopSafeWhileStarted`, `OnlyAddAndStopDeadlock`, `CallsReturn`, `StopEndsRoutines` |
| `peers_file` | pass, 58,495 states | `SoleKeepsPeers`, `FileCatchesUp` |
| `peers_forgotten` | violation | a `pair` command's save drops peers that the daemon found meanwhile (`sync/README.md:401`) |

`LatestIsLastSaved` passes in `storage` and fails in `storage_zones`: the two
differ only in the set of offsets.

`HistoryAnswers` is about the questions that `Answerable` admits. It leaves out
two that the code gets wrong, both listed below with the disagreements: a forward
listing that the limit cuts short, and a reverse one with `--before` and nothing
at or after that time.

`PollerCaptures` has two premises that the code needs. The formats must be
listable (see the disagreements below). And the loop of the alternative Wayland
method, which keeps running beside the poller that its scanner starts, must have
nothing left to send: a content it had read before may otherwise enter the
channel after the poller's newer one, and since nothing changes any more it
stays the Monitor's last content; TLC shows this when the premise is dropped.
`SpinningCaptures` is about the opposite case, a fallback that is not taken:
after the end of its pipe the XFixes loop (Signal(0) answers for a zombie) and
the Wayland loop (`readData` is never cleared) read over and over, and so still
bring the last item. `StopEndsGoroutines` excepts the two waits that do not look
at `stopCh`: the xprop loop until a line comes, and the XFixes goroutine in the
open of its pipe, if the helper died before it wrote anything; both outlive
`Stop`, and in the second case nothing watches the clipboard from the start.

`CallsReturn` and `StopEndsRoutines` are stated with the exceptions the code
needs. A crash ends everything: the unlocked map and the DHT loop's nil ticker
are real ways to one, and the model reaches both. `Embraced` is the deadlock
that the lock order of `AddPeer` (manual service, then manager) and `Stop`
(manager, then manual service) makes possible; the model reaches it.
`OnlyAddAndStopDeadlock` shows that the mutexes allow no other deadlock: in any
other state in which somebody waits for a lock, some call in progress waits for
none. `CallsReturn` shows that no other wait is endless.

Disagreements met while modelling that have no run of their own:

* Storage: `history` deletes contents, because its `Close` flushes
  (`docs/CACHING.md:146` says it "retrieves cached items"; `FlushKeepsNewest`
  bounds what it may delete). A plain `--limit n` lists the n oldest contents,
  because the walk starts at the oldest and breaks off after n (`boltdb.go:426`),
  while the command's help says "Show the last 5 items" of `history --limit 5`
  (`internal/cli/cmd/history.go:41`). `--reverse --before` with a time after the
  last content lists nothing (`boltdb.go:341`). `storage.keep_items` is never
  passed to the store (`docs/CONFIGURATION.md:52`). `--since` and `--before` given
  in another zone are sought as text.
* Linux clipboard: where the formats cannot be listed (X11 without xclip,
  Wayland without wl-paste) the poller never reads, though `Read` would find the
  text with xsel or the atotto library: `getAvailableFormats` answers "assume at
  least text is available" (`clipboard_linux.go:646`) together with an error, and
  the tick continues on the error (`clipboard_linux.go:1663`) where `Read` ignores
  it.
* Monitor: `GetLast(n)` of the in-memory ring returns the oldest n
  (`docs/CACHING.md:106`); nothing calls it.
* Pairing: the list is not persisted (`docs/PAIRING.md:13`); the `pair` command
  says "enabled indefinitely" while the manager's 300-second timer ends the mode;
  the 30-second context of `RequestPairing` is discarded, so a request waits for
  ever for a user who does not answer.
* Sync: the mDNS service is created and its own `Start` never called, so mDNS
  finds nobody; `max_stored_peers` is carried along and read by nothing; an empty
  map of peers is never saved, so the last peer removed comes back
  (`FileCatchesUp` excepts it); `ValidateSyncConfig` refuses the method "all" that
  `ConvertToDiscoveryConfig` still handles.

## 4. Bounds

* `storage`: three seconds with and without a fraction, two data lengths, five
  saves, one failed commit, `DefaultKeepItems` 2, and a limit that three or
  four contents exceed: flushes by size, re-saves of a key, flushes that empty
  more than one content, and reopenings by a command with other limits all
  occur. Option values for queries lie before, on, between and after the
  contents; the limit is absent or 1.
* `monitor_polling`: a word, the same word with a leading space, an HTML
  fragment whose text form is that spaced word, and an oversized text; three
  copies, one failed read or listing, one restart, with a command that lists the
  formats, a channel of one, a skip threshold of two. A channel of one makes a
  full channel common (the code's has ten); the code's threshold is 3 or 5, and two
  is the least that skips.
* `monitor_events`: two texts and an HTML fragment, two copies (one inside, one
  outside the cache's two seconds), each of the three event modes and their
  fallbacks, with and without a command that lists the formats (Wayland mode has
  wl-paste, so there it is always with).
* `pairing`: two peers, of which one accepts automatically, two exchanges (both
  directions, or twice the same), two sessions. The theorems of section 6 hold
  for any number of each.
* `sync_node`: two callers and two peers, mDNS with `SyncOverInternet`, so that
  there are three services and every order of stopping them. Two callers are
  what a race needs (one stops, one adds, or both stop); the two routines run
  beside them. The other settings ("dht", "paired", "manual", with and without
  `SyncOverInternet`) differ only in the set of services, over which the
  theorems of section 6 are general.
* `peers_file`: the daemon and one command, two peers, one failed write. Two
  peers make lists that are subsets of each other and lists that are not; two
  processes are enough to overwrite each other, and the theorem is general.
* `Stamps` (7 values) stands for creation times: a read takes one that no live
  content has, so there are always enough.

Deadlock is not checked in the Monitor, Pairing and `sync_node` runs: every
process may have ended for good, or crashed.

## 5. Fairness

* Monitor: the goroutines' steps, the consumer and the expiry of the cache are
  weakly fair, since Go schedules every runnable goroutine, tickers tick and two
  seconds pass. The two ways a goroutine stops are fair separately: a `select`
  with a ready `stopCh` is taken in the end. Nothing obliges the user to copy,
  the helper to die or the process to start or stop.
* Pairing: handler and requester steps and the timer are weakly fair. `Accept`
  is fair only for peers whose callback accepts without asking; a person need
  never answer. Starting, stopping, removing and losing a connection are not
  fair.
* SyncNode: the steps of each caller, of the loop and of the saving routine are
  weakly fair: Go schedules runnable goroutines, and every dial has a timeout
  (10, 15 or 30 seconds). Nobody has to call a method. Two steps are strongly
  fair: the end of a DHT query, which delivers at most 100 providers in at most
  30 seconds, so that "one more provider" cannot be taken for ever; and the
  saving routine's seeing its cancelled context, because Go's `select` chooses
  at random between that and a tick. The loop needs no such thing: once its
  context is cancelled its ticker is gone too.
* PeersFile: the 5-minute tick of a running process and the steps of a save are
  weakly fair; starting, stopping, killing, discovering and failing are not.
* BoltStorage states no fairness; its properties are safety.

## 6. Proofs

`BoltStorageProofs`, from the assumptions on the constants (`ContentAssumption`,
`StorageAssumption`):

* `StorageInvariant`: `StorageInv` is invariant. It is `TypeOK` (which includes
  that no two contents share a key), the finiteness of `db`, without which
  cardinalities mean nothing, and `CounterCoversData`. The last is inductive
  because a flush frees raw data, which is never longer than the encoded value
  it stands for, and a put of an existing key only replaces a value.
  `TypeCorrect` and `CounterCovers` follow.
* `FlushKeeping` (`FlushKeepsNewest`): a flushed content has at least
  `keepItems` newer ones, and the newest `keepItems` are not flushed; the
  argument counts the newer contents that survive.
* `LimitRespected` (`SaveRespectsLimit`), from `CounterCoversData`: either the
  counter, and so the file, was within the limit, or the flush left at most
  `keepItems`.
* `LatestContent` and `HistoryRefinement`, under `FixedZone` (one offset other
  than UTC). There the byte order of keys is the order of instants (`KeyOrder`).
  In UTC it is not: a whole second ends in `Z`, which sorts after the `.` of a
  later fraction. The strengthening `LatestInv` says that nothing in the file is
  newer than the last capture, and that the last committed save is in the file
  and newest.

`HistoryQueryProofs`, under `FixedZone` too: `QueriesAnswered` (`HistoryAnswers`)
for every bucket the storage can produce and every combination of options that
`Answerable` admits. There
`Seek` splits the bucket at an instant, so what the loop visits and its filters
keep is what the options ask for (`VisitedIsWanted`); and since no two contents
share a key, the place of a content in the cursor's walk is the number of
contents before it in time (`Ranks`, `WalkIsTimeOrder`). `ListedOnceInOrder` says
that the reference deserves the name: it lists every content once, in time order.

`MonitorProofs`, from `ClipboardAssumption`, `MonitorAssumption` and
`StampAssumption`, for any items, channel capacity, skip threshold, ring and number
of copies, failures and restarts. `MonitorInvariant` with `MonitorInv` = `TypeOK`,
`Life` (a process that has ended has no goroutines), `Normal` (what the Monitor
keeps has been through its type detection), `OneSavePerRead` and `Pipeline`. Neither safety property is
inductive alone: the content the Monitor normalises in place is the object that
`Read` has cached, so whether a later cache hit is a duplicate depends on everything
between the poller and the Monitor. `Pipeline` says of it, as long as the poller
is the only reader and nothing has been stopped:

* `Order`: what is on its way (`Flight`: the channel, then what the poller holds)
  are reads the Monitor has not met, save that the first may be a clone of what
  it processed last;
* `Distinct`: no capture is on its way twice;
* `Cached`: the cache holds the last read as it was read, with `lastContentHash`
  its hash; or what the Monitor made of it, and then no other read is on its way;
* `SharedLast`: the cached object is on its way only as the newest read;
* `Quiet`: no other goroutine has anything, and a poller that has not read
  anything starts afresh;
* `Delivered`: the newest content on its way, or what the Monitor has if there is
  none, is the last read. Under `HashFaithful` only.

`MonitorTypes`, `OneSave` and `ReadsDelivered` follow. Nothing is assumed of
`Trim` or of the text beside a rich item. `ReadsDelivered` has
`HashFaithful` (no two items hash alike, and none like the empty string that
`lastContentHash` starts with) as its hypothesis, because the code needs it: the
poller drops a read whose 32-bit checksum is that of the one before. `OneSave`
does not need it.

`PairingProofs`, from `PairingAssumption`, for any peers, exchanges and
sessions: `PairingInvariant` with `PairingInv` = `TypeOK`, `Linked` (an open
exchange has both ends, an unopened one nothing), `Recorded` (an accepting
response exists only where the callback accepted, and then the responder lists
the requester until it ends or removes it) and `ListedByConsent`. The consent
property is not inductive alone: the requester records on the strength of a
response, so what a response implies has to be carried along. `PairingTypes`,
`Consent` and `SuccessIsTrue` (the success of an exchange rests on the answer of
that exchange) follow.

`SyncNodeProofs`, from `SyncNodeAssumption`, for any callers, peers and discovery
settings: `SyncInvariant` with `SyncInv` = `TypeOK` and

* `StopExclusive`: whoever is past `BeginStop` holds the facade's mutex, so there
  is one such caller;
* `StopProgress`: a service is still started only if `Stop` has yet to come to it,
  so none is once `Stop` finishes;
* `AddersGuarded`: a caller between `EnterManual` and its return holds the manual
  service's read lock, and the service is started;
* `ArgNamed`: a goroutine about to record a peer has one;
* `LoopArmed`: a started DHT that nobody is stopping has its ticker and its query
  object;
* `LoopSafeWhileStarted` itself.

`NoAddAfterStop` is about two callers, and follows because the first three meet:
`Stop` cannot stop the manual service while an adder reads, and an adder cannot
enter once it is stopped. `SyncTypes`, `NoLateAdd` and `LoopSafe` are the results.

`OneDeadlock` (`OnlyAddAndStopDeadlock`) takes a second invariant, `LockOwners`:
only an `AddPeer` at work keeps a read lock, the manual service's; only a `Stop`
keeps a lock for writing, and where it is says which; the loop runs only where
there is a DHT service. Then whoever waits for a lock waits because of a caller
in `Stop` (`WaitsForStop`), and that caller can go on, or one of the adders it
waits for can, or they are `Embraced` (`StopperGoesOn`).

`PeersFileProofs`, from `PeersFileAssumption`, for any processes and peers:
`PeersInvariant` with `PeersInv` = `TypeOK`, `SoleKeepsPeers`, `Carried` (what is
owed by the process that runs alone is in its map and in every list that one of
its saves has marshalled) and `NoGhosts` (a process that is off has no save
under way). A save takes its list before it truncates, so the file property is
only inductive together with what every such list contains.
`SoleProcessKeepsPeers` follows.

Only model-checked: liveness under fairness (`PollerCaptures`,
`SpinningCaptures`, `StopEndsGoroutines`, `RequestEnds`, `SessionEnds`, `CallsReturn`,
`StopEndsRoutines`, `FileCatchesUp`), which is out of this prover's reach. Every
invariant, action property and refinement of the passing runs is a theorem.

## 7. Plan

1. Done: storage with its abstract specification, queries, proofs; capture on
   Linux with the Monitor; pairing with proofs; the sync node with its discovery
   services, and the file of peers, with proofs; the proofs of the Monitor, of
   the history queries and of the sync node's only deadlock.
2. Proofs next: what holds of the event-driven modes (`OneSavePerRead` and
   `ReadsReachMonitor` speak of the poller only), and what a device in UTC or
   with a changing offset can still rely on.
3. Questions still open: query times given in another zone, and the Monitor
   composed with BoltStorage for the shutdown of `run --duration`.

## 8. Not modelled

* `Write` and the writers of the Linux clipboard, and its `Close`: no code
  path of the daemon calls them. The Mir mode and custom MIME readers.
* Windows: `clipboard_windows.go` builds `image.RGBA` values with fields that
  type does not have, so it does not compile and there is no program to be
  faithful to. macOS: the change counter is a placeholder that returns 0, so no
  change is ever reported.
* Topics and publishers: the daemon joins one group once, at its start, nothing
  reads the subscription, and `SendContent` always answers "not implemented". The
  calls of the facade that only forward to libp2p (`DisconnectPeer`,
  `GetConnectedPeers`, `IsConnected`) change no state of the program.
* The mDNS notifee, which is never called (section 3), `ManualDiscovery`'s own
  `RemovePeer`, which has no caller, and the background dials of loaded and
  discovered peers, which change nothing but libp2p's connections.
* Daemonizing, service installation, configuration files, logging, compression,
  output formats: input and output without a protocol. The pid file is written
  and never read. What the configuration loaders fix enters the models as stated
  above.
* A true data race on the shared content's slice (the model rewrites it in one
  step), hash collisions in the poller (`HashOf` is injective in the runs), and
  the durations of polling intervals.
