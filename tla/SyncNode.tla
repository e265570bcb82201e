------------------------------ MODULE SyncNode ------------------------------
(***************************************************************************)
(* internal/sync: one sync.Manager with its node and its discovery         *)
(* services, at the grain of its mutexes.                                  *)
(*                                                                         *)
(* The goroutines are the callers of the Manager's methods, the loop of    *)
(* the DHT service and the routine that saves the peers every 5 minutes.   *)
(* Only started is read without a lock, and node.peerStore is a plain map  *)
(* that all of them use without one.  libp2p (connections, the DHT query,  *)
(* pubsub) is external: a call into it ends in any way it can end.         *)
(*                                                                         *)
(* A Manager is started once, before its callers use it, as the commands   *)
(* do; what the saved peers are used for is PeersFile's subject, pairing   *)
(* is Pairing's.  The notifee of mDNS is left out: MDNSDiscovery.Start     *)
(* never calls the service's own Start, so it is never told of a peer.     *)
(***************************************************************************)
CONSTANTS
    Callers,            \* goroutines that call the Manager's methods
    Peers,              \* remote peers
    DiscoveryMethod,    \* the configured method
    SyncOverInternet,   \* the configured flag
    NoPeer,             \* the argument of a goroutine that has none
    Nobody              \* the holder of a free lock

Loop == "discoverPeersLoop"
Saver == "savePeersRoutine"
Goroutines == Callers \cup {Loop, Saver}

\* The methods that ValidateSyncConfig lets through.
DiscoveryMethods == {"mdns", "dht", "manual", "paired"}

ASSUME SyncNodeAssumption ==
    /\ Loop \notin Callers /\ Saver \notin Callers
    /\ Nobody \notin Callers
    /\ NoPeer \notin Peers
    /\ DiscoveryMethod \in DiscoveryMethods
    /\ SyncOverInternet \in BOOLEAN

\* ConvertToDiscoveryConfig.
Enabled ==
    {s \in {"mdns", "dht"} :
        DiscoveryMethod = s \/ (s = "dht" /\ SyncOverInternet)}

\* The services that NewManager adds, and NewNode for paired discovery.
Services == {"manual"} \cup Enabled \cup ({"paired"} \cap {DiscoveryMethod})

\* sync.Manager.mutex, discovery.Manager.mutex and one mutex per service.
Locks == {"sync", "manager"} \cup Services

VARIABLES
    phase,            \* "new", "running" (Manager.started) or "stopped"
    serviceStarted,   \* the services whose started is true
    writer,           \* who holds each lock for writing
    readers,          \* who holds each lock for reading
    discoveryTicker,  \* DHTDiscovery.discoveryTicker is not nil
    dht,              \* DHTDiscovery.dht is not nil
    cancelled,        \* the contexts done: "dht", "discovery", "node"
    peerStore,        \* the keys of Node.peerStore
    toStop, stopping, \* discovery.Manager.Stop: services left, the current one
    pc, arg,          \* where each goroutine is, and the peer it works on
    fault             \* why the runtime ended the process, if it did

lockVars == <<writer, readers>>
dhtVars == <<discoveryTicker, dht>>
stopVars == <<toStop, stopping>>
vars == <<phase, serviceStarted, lockVars, dhtVars, cancelled, peerStore, stopVars,
          pc, arg, fault>>

None == "none"
crashed == fault # None
AddSteps == {"find", "enter", "connect", "notify", "record", "dial"}
StopSteps == {"stop", "save", "stopManager", "services", "finish"}
CallerSteps == {"idle", "remove", "list"} \cup AddSteps \cup StopSteps
LoopSteps == {"off", "select", "waiting", "check", "query", "providers", "notify",
              "record", "dial"}
SaverSteps == {"off", "waiting", "save"}

Init ==
    /\ phase = "new"
    /\ serviceStarted = {}
    /\ writer = [l \in Locks |-> Nobody]
    /\ readers = [l \in Locks |-> {}]
    /\ discoveryTicker = FALSE /\ dht = FALSE
    /\ cancelled = {}
    /\ peerStore = {}
    /\ toStop = {} /\ stopping = None
    /\ pc = [g \in Goroutines |-> IF g \in Callers THEN "idle" ELSE "off"]
    /\ arg = [g \in Goroutines |-> NoPeer]
    /\ fault = None
-----------------------------------------------------------------------------
(***************************************************************************)
(* sync.RWMutex: a goroutine that waits in Lock keeps new readers out.     *)
(***************************************************************************)
AwaitsLock(c, l) ==
    \/ l = "sync" /\ pc[c] = "stop"
    \/ l = "manager" /\ pc[c] = "stopManager"
    \/ l = stopping /\ pc[c] = "services"

CanLock(l) == writer[l] = Nobody /\ readers[l] = {}
CanRLock(l) == writer[l] = Nobody /\ \A c \in Callers : ~AwaitsLock(c, l)

\* A goroutine goes on to its next step.
GoTo(g, step) == pc' = [pc EXCEPT ![g] = step]

\* A method returns.
Return(c) ==
    /\ pc' = [pc EXCEPT ![c] = "idle"]
    /\ arg' = [arg EXCEPT ![c] = NoPeer]
-----------------------------------------------------------------------------
(***************************************************************************)
(* Start: Manager.Start and Node.Start hold Manager.mutex throughout.      *)
(***************************************************************************)

\* DHTDiscovery.Start: a DHT that cannot be created leaves the service off.
StartDHT(up) ==
    /\ discoveryTicker' = up /\ dht' = up
    /\ pc' = [pc EXCEPT ![Loop] = IF up THEN "select" ELSE "off", ![Saver] = "waiting"]

\* discovery.Manager.Start: an error is logged and the next service started.
StartServices ==
    \E up \in BOOLEAN :
        /\ up => "dht" \in Services
        /\ serviceStarted' = {s \in Services : s = "dht" => up}
        /\ StartDHT(up)

\* The stored IDs are not decoded: one that is no peer's is loaded too.
StartUnchecked ==
    /\ ~crashed
    /\ phase = "new"
    /\ phase' = "running"
    /\ peerStore' \in SUBSET (Peers \cup {NoPeer})
    /\ StartServices
    /\ UNCHANGED <<lockVars, cancelled, stopVars, arg, fault>>

\* The peers of the file are loaded, except IDs that do not decode, then the
\* services are started, and the routine that saves the peers.
Start ==
    /\ ~crashed
    /\ phase = "new"
    /\ phase' = "running"
    /\ peerStore' \in SUBSET Peers
    /\ StartServices
    /\ UNCHANGED <<lockVars, cancelled, stopVars, arg, fault>>
-----------------------------------------------------------------------------
(***************************************************************************)
(* Callers: AddPeer (the first half of RequestPairing too), RemovePeer and *)
(* GetDiscoveredPeers.  started is read without the mutex: the caller may  *)
(* act on it any time later.                                               *)
(***************************************************************************)
Call(c, step) ==
    /\ ~crashed
    /\ pc[c] = "idle"
    /\ GoTo(c, step)
    /\ UNCHANGED <<phase, serviceStarted, lockVars, dhtVars, cancelled, peerStore,
                   stopVars, fault>>

AddPeer(c, q) ==
    /\ phase = "running"
    /\ Call(c, "find")
    /\ arg' = [arg EXCEPT ![c] = q]

RemovePeer(c, q) ==
    /\ phase = "running"
    /\ Call(c, "remove")
    /\ arg' = [arg EXCEPT ![c] = q]

GetDiscoveredPeers(c) == phase # "new" /\ Call(c, "list") /\ UNCHANGED arg

\* discovery.Manager.GetManualDiscovery, under mutex.RLock.
GetManualDiscovery(c) ==
    /\ pc[c] = "find"
    /\ CanRLock("manager")
    /\ GoTo(c, "enter")
    /\ UNCHANGED <<phase, serviceStarted, lockVars, dhtVars, cancelled, peerStore,
                   stopVars, arg, fault>>

\* ManualDiscovery.AddPeer without its second look at started.
EnterUnchecked(c) ==
    /\ pc[c] = "enter"
    /\ CanRLock("manual")
    /\ readers' = [readers EXCEPT !["manual"] = @ \cup {c}]
    /\ GoTo(c, "connect") /\ UNCHANGED arg
    /\ UNCHANGED <<phase, serviceStarted, writer, dhtVars, cancelled, peerStore,
                   stopVars, fault>>

\* ManualDiscovery.AddPeer: its RLock is kept until it returns.
EnterManual(c) ==
    /\ pc[c] = "enter"
    /\ CanRLock("manual")
    /\ IF "manual" \in serviceStarted
       THEN /\ readers' = [readers EXCEPT !["manual"] = @ \cup {c}]
            /\ GoTo(c, "connect") /\ UNCHANGED arg
       ELSE Return(c) /\ UNCHANGED readers
    /\ UNCHANGED <<phase, serviceStarted, writer, dhtVars, cancelled, peerStore,
                   stopVars, fault>>

\* An address that does not parse, the own peer or no connection within 30
\* seconds ends the call; a connection is reported to the manager.
Connect(c) ==
    /\ pc[c] = "connect"
    /\ \/ /\ GoTo(c, "notify")
          /\ UNCHANGED <<readers, arg>>
       \/ /\ Return(c)
          /\ readers' = [readers EXCEPT !["manual"] = @ \ {c}]
    /\ UNCHANGED <<phase, serviceStarted, writer, dhtVars, cancelled, peerStore,
                   stopVars, fault>>

\* delete(peerStore, id).
DeletePeer(c) ==
    /\ pc[c] = "remove"
    /\ peerStore' = peerStore \ {arg[c]}
    /\ Return(c)
    /\ UNCHANGED <<phase, serviceStarted, lockVars, dhtVars, cancelled, stopVars, fault>>

\* The iteration over the map ends.
ListPeers(c) ==
    /\ pc[c] = "list"
    /\ Return(c)
    /\ UNCHANGED <<phase, serviceStarted, lockVars, dhtVars, cancelled, peerStore,
                   stopVars, fault>>
-----------------------------------------------------------------------------
(***************************************************************************)
(* A discovered peer, told by a caller of AddPeer or by the DHT loop.      *)
(***************************************************************************)

\* discovery.Manager.HandlePeerDiscovered reads the callback under RLock.
HandlePeerDiscovered(g) ==
    /\ pc[g] = "notify"
    /\ CanRLock("manager")
    /\ GoTo(g, "record")
    /\ UNCHANGED <<phase, serviceStarted, lockVars, dhtVars, cancelled, peerStore,
                   stopVars, arg, fault>>

\* The node's callback puts the peer in the map, unless its ID does not decode.
RecordPeer(g) ==
    /\ pc[g] = "record"
    /\ peerStore' = peerStore \cup ({arg[g]} \cap Peers)
    /\ GoTo(g, "dial")
    /\ UNCHANGED <<phase, serviceStarted, lockVars, dhtVars, cancelled, stopVars,
                   arg, fault>>

\* It tries to connect, for up to 10 seconds, and returns to AddPeer, which
\* returns too, or to the loop.
DialPeer(g) ==
    /\ pc[g] = "dial"
    /\ readers' = [readers EXCEPT !["manual"] = @ \ {g}]
    /\ pc' = [pc EXCEPT ![g] = IF g = Loop THEN "providers" ELSE "idle"]
    /\ arg' = [arg EXCEPT ![g] = NoPeer]
    /\ UNCHANGED <<phase, serviceStarted, writer, dhtVars, cancelled, peerStore,
                   stopVars, fault>>

Discovered(g) == HandlePeerDiscovered(g) \/ RecordPeer(g) \/ DialPeer(g)
-----------------------------------------------------------------------------
(***************************************************************************)
(* Stop.                                                                   *)
(***************************************************************************)
Stop(c) == Call(c, "stop") /\ UNCHANGED arg

\* Manager.Stop takes the mutex and looks at started; Node.Stop begins to
\* save the peers.
BeginStop(c) ==
    /\ pc[c] = "stop"
    /\ CanLock("sync")
    /\ IF phase = "running"
       THEN writer' = [writer EXCEPT !["sync"] = c] /\ GoTo(c, "save")
       ELSE UNCHANGED writer /\ GoTo(c, "idle")
    /\ UNCHANGED <<phase, serviceStarted, readers, dhtVars, cancelled, peerStore,
                   stopVars, arg, fault>>

\* The peers are saved and the protocol handlers stopped; discovery.Manager's
\* Stop calls Lock.
SaveAtStop(c) ==
    /\ pc[c] = "save"
    /\ GoTo(c, "stopManager")
    /\ UNCHANGED <<phase, serviceStarted, lockVars, dhtVars, cancelled, peerStore,
                   stopVars, arg, fault>>

\* discovery.Manager.Stop keeps its mutex while it stops the services, in the
\* order of a map.
StopManager(c) ==
    /\ pc[c] = "stopManager"
    /\ CanLock("manager")
    /\ writer' = [writer EXCEPT !["manager"] = c]
    /\ toStop' = Services
    /\ GoTo(c, "services")
    /\ UNCHANGED <<phase, serviceStarted, readers, dhtVars, cancelled, peerStore,
                   stopping, arg, fault>>

NextService(c) ==
    /\ pc[c] = "services"
    /\ stopping = None
    /\ \E s \in toStop : stopping' = s /\ toStop' = toStop \ {s}
    /\ UNCHANGED <<phase, serviceStarted, lockVars, dhtVars, cancelled, peerStore,
                   pc, arg, fault>>

\* The Stop of a service other than a started DHT: under its own mutex it
\* clears started.
StopService(c) ==
    /\ pc[c] = "services"
    /\ stopping \notin {None} \cup ({"dht"} \cap serviceStarted)
    /\ CanLock(stopping)
    /\ serviceStarted' = serviceStarted \ {stopping}
    /\ stopping' = None
    /\ UNCHANGED <<phase, lockVars, dhtVars, cancelled, peerStore, toStop, pc, arg,
                   fault>>

\* DHTDiscovery.Stop takes its mutex, drops the ticker and cancels the context.
StopDHT(c) ==
    /\ pc[c] = "services"
    /\ stopping = "dht" /\ "dht" \in serviceStarted
    /\ CanLock("dht")
    /\ writer' = [writer EXCEPT !["dht"] = c]
    /\ discoveryTicker' = FALSE
    /\ cancelled' = cancelled \cup {"dht"}
    /\ UNCHANGED <<phase, serviceStarted, readers, dht, peerStore, stopVars, pc, arg,
                   fault>>

\* DHTDiscovery.Stop returns and leaves started set.
CloseKeepsStarted(c) ==
    /\ pc[c] = "services"
    /\ stopping = "dht" /\ writer["dht"] = c
    /\ writer' = [writer EXCEPT !["dht"] = Nobody]
    /\ dht' = FALSE
    /\ stopping' = None
    /\ UNCHANGED <<phase, serviceStarted, readers, discoveryTicker, cancelled, peerStore,
                   toStop, pc, arg, fault>>

\* It closes the DHT and returns.
CloseDHT(c) ==
    /\ pc[c] = "services"
    /\ stopping = "dht" /\ writer["dht"] = c
    /\ writer' = [writer EXCEPT !["dht"] = Nobody]
    /\ dht' = FALSE
    /\ serviceStarted' = serviceStarted \ {"dht"}
    /\ stopping' = None
    /\ UNCHANGED <<phase, readers, discoveryTicker, cancelled, peerStore, toStop, pc,
                   arg, fault>>

\* The manager cancels its context and releases the mutex.
ServicesStopped(c) ==
    /\ pc[c] = "services"
    /\ stopping = None /\ toStop = {}
    /\ cancelled' = cancelled \cup {"discovery", "dht"}
    /\ writer' = [writer EXCEPT !["manager"] = Nobody]
    /\ GoTo(c, "finish")
    /\ UNCHANGED <<phase, serviceStarted, readers, dhtVars, peerStore, stopVars,
                   arg, fault>>

\* Manager.Stop without its cancel.
FinishUncancelled(c) ==
    /\ pc[c] = "finish"
    /\ phase' = "stopped"
    /\ writer' = [writer EXCEPT !["sync"] = Nobody]
    /\ GoTo(c, "idle")
    /\ UNCHANGED <<serviceStarted, readers, dhtVars, cancelled, peerStore, stopVars, arg,
                   fault>>

\* Node.Stop drops the subscriptions; Manager.Stop cancels its context, clears
\* started and returns.
FinishStop(c) ==
    /\ pc[c] = "finish"
    /\ cancelled' = cancelled \cup {"node"}
    /\ phase' = "stopped"
    /\ writer' = [writer EXCEPT !["sync"] = Nobody]
    /\ GoTo(c, "idle")
    /\ UNCHANGED <<serviceStarted, readers, dhtVars, peerStore, stopVars, arg, fault>>
-----------------------------------------------------------------------------
(***************************************************************************)
(* The loop of the DHT service.                                            *)
(***************************************************************************)

\* discoverPeersLoop evaluates d.discoveryTicker.C each time round, without
\* the mutex: a nil ticker ends the process.
EnterSelect ==
    /\ pc[Loop] = "select"
    /\ IF discoveryTicker
       THEN GoTo(Loop, "waiting") /\ UNCHANGED fault
       ELSE UNCHANGED pc /\ fault' = "nil"
    /\ UNCHANGED <<phase, serviceStarted, lockVars, dhtVars, cancelled, peerStore,
                   stopVars, arg>>

\* The context is done, or the ticker has ticked (a tick from before its Stop
\* may still be in the channel).
WakeUp ==
    /\ pc[Loop] = "waiting"
    /\ \/ "dht" \in cancelled /\ GoTo(Loop, "off")
       \/ GoTo(Loop, "check")
    /\ UNCHANGED <<phase, serviceStarted, lockVars, dhtVars, cancelled, peerStore,
                   stopVars, arg, fault>>

\* The path that goes on does not release the read lock.
CheckKeepsLock ==
    /\ pc[Loop] = "check"
    /\ CanRLock("dht")
    /\ IF "dht" \in serviceStarted /\ dht
       THEN /\ GoTo(Loop, "query")
            /\ readers' = [readers EXCEPT !["dht"] = @ \cup {Loop}]
       ELSE GoTo(Loop, "select") /\ UNCHANGED readers
    /\ UNCHANGED <<phase, serviceStarted, writer, dhtVars, cancelled, peerStore,
                   stopVars, arg, fault>>

\* discoverDHTPeers looks at started and dht under RLock, and releases it.
CheckDHT ==
    /\ pc[Loop] = "check"
    /\ CanRLock("dht")
    /\ GoTo(Loop, IF "dht" \in serviceStarted /\ dht THEN "query" ELSE "select")
    /\ UNCHANGED <<phase, serviceStarted, lockVars, dhtVars, cancelled, peerStore,
                   stopVars, arg, fault>>

\* It uses dht without the mutex: nil by now ends the process.
FindProviders ==
    /\ pc[Loop] = "query"
    /\ IF dht
       THEN GoTo(Loop, "providers") /\ UNCHANGED fault
       ELSE UNCHANGED pc /\ fault' = "nil"
    /\ UNCHANGED <<phase, serviceStarted, lockVars, dhtVars, cancelled, peerStore,
                   stopVars, arg>>

NextProvider ==
    /\ pc[Loop] = "providers"
    /\ \E q \in Peers : arg' = [arg EXCEPT ![Loop] = q]
    /\ GoTo(Loop, "notify")
    /\ UNCHANGED <<phase, serviceStarted, lockVars, dhtVars, cancelled, peerStore,
                   stopVars, fault>>

\* The channel is closed: 100 providers, 30 seconds or the context's end.
ProvidersEnd ==
    /\ pc[Loop] = "providers"
    /\ GoTo(Loop, "select")
    /\ UNCHANGED <<phase, serviceStarted, lockVars, dhtVars, cancelled, peerStore,
                   stopVars, arg, fault>>
-----------------------------------------------------------------------------
(***************************************************************************)
(* savePeersRoutine, and what the runtime does about the unlocked map.     *)
(***************************************************************************)
SaverWakes ==
    /\ pc[Saver] = "waiting"
    /\ \/ "node" \in cancelled /\ GoTo(Saver, "off")
       \/ GoTo(Saver, "save")
    /\ UNCHANGED <<phase, serviceStarted, lockVars, dhtVars, cancelled, peerStore,
                   stopVars, arg, fault>>

SaverSaves ==
    /\ pc[Saver] = "save"
    /\ GoTo(Saver, "waiting")
    /\ UNCHANGED <<phase, serviceStarted, lockVars, dhtVars, cancelled, peerStore,
                   stopVars, arg, fault>>

Writes(g) == pc[g] \in {"record", "remove"}
Iterates(g) == pc[g] \in {"save", "list"}

\* "fatal error: concurrent map iteration and map write", or "concurrent map
\* writes": the runtime may find out, or not.
MapFault ==
    /\ ~crashed
    /\ \E g \in Goroutines : \E h \in Goroutines \ {g} :
         Writes(g) /\ (Writes(h) \/ Iterates(h))
    /\ fault' = "map"
    /\ UNCHANGED <<phase, serviceStarted, lockVars, dhtVars, cancelled, peerStore,
                   stopVars, pc, arg>>
-----------------------------------------------------------------------------
StopStep(c) ==
    \/ BeginStop(c) \/ SaveAtStop(c) \/ StopManager(c) \/ NextService(c)
    \/ StopService(c) \/ StopDHT(c) \/ CloseDHT(c)
    \/ ServicesStopped(c) \/ FinishStop(c)

CallerStep(c) ==
    /\ ~crashed
    /\ \/ GetManualDiscovery(c) \/ EnterManual(c) \/ Connect(c) \/ Discovered(c)
       \/ DeletePeer(c) \/ ListPeers(c)
       \/ StopStep(c)

LoopStep ==
    /\ ~crashed
    /\ \/ EnterSelect \/ WakeUp \/ CheckDHT \/ FindProviders \/ NextProvider
       \/ ProvidersEnd \/ Discovered(Loop)

SaverStep == ~crashed /\ (SaverWakes \/ SaverSaves)

Calls(c) ==
    \/ \E q \in Peers : AddPeer(c, q) \/ RemovePeer(c, q)
    \/ GetDiscoveredPeers(c)
    \/ Stop(c)

Next ==
    \/ Start
    \/ \E c \in Callers : Calls(c) \/ CallerStep(c)
    \/ LoopStep
    \/ SaverStep
    \/ MapFault

(***************************************************************************)
(* Goroutines are scheduled, connection attempts time out, a closed        *)
(* context is noticed in the end and a query delivers at most 100 peers.   *)
(* Nobody has to call a method.                                            *)
(***************************************************************************)
Fairness ==
    /\ \A c \in Callers : WF_vars(CallerStep(c))
    /\ WF_vars(LoopStep) /\ SF_vars(~crashed /\ ProvidersEnd)
    /\ WF_vars(SaverStep)
    /\ SF_vars(~crashed /\ SaverWakes /\ pc'[Saver] = "off")

Spec == Init /\ [][Next]_vars /\ Fairness
-----------------------------------------------------------------------------
(***************************************************************************)
(* Properties.                                                             *)
(***************************************************************************)

\* Every variable has its type.
TypeOK ==
    /\ phase \in {"new", "running", "stopped"}
    /\ serviceStarted \subseteq Services
    /\ writer \in [Locks -> Callers \cup {Nobody}]
    /\ readers \in [Locks -> SUBSET Goroutines]
    /\ discoveryTicker \in BOOLEAN /\ dht \in BOOLEAN
    /\ cancelled \subseteq {"dht", "discovery", "node"}
    /\ peerStore \subseteq Peers
    /\ toStop \subseteq Services /\ stopping \in Services \cup {None}
    /\ pc \in [Goroutines -> CallerSteps \cup LoopSteps \cup SaverSteps]
    /\ \A c \in Callers : pc[c] \in CallerSteps
    /\ pc[Loop] \in LoopSteps /\ pc[Saver] \in SaverSteps
    /\ arg \in [Goroutines -> Peers \cup {NoPeer}]
    /\ fault \in {None, "nil", "map"}

\* Between its second look at started and its return, AddPeer holds the manual
\* service's lock.
Adding(c) == pc[c] \in {"connect", "notify", "record", "dial"}

\* Once Stop has returned, no AddPeer is still at work and none begins: a call
\* that saw started before Stop and was held up finds the service stopped.
NoAddAfterStop == phase = "stopped" => \A c \in Callers : ~Adding(c)

\* The DHT loop never meets a nil ticker or a nil DHT while its service is
\* started and nobody is in its Stop: only a Stop in the middle of a round can
\* do that to it.
LoopSafeWhileStarted ==
    fault = "nil" => "dht" \notin serviceStarted \/ writer["dht"] # Nobody

\* The lock order of AddPeer (manual, then manager) against Stop's (manager,
\* then manual): each waits for the other for ever.
Embraced ==
    /\ writer["manager"] # Nobody
    /\ stopping = "manual"
    /\ \E c \in readers["manual"] : pc[c] = "notify"

\* A goroutine waits for a lock it cannot have now.
Blocked(g) ==
    \/ pc[g] \in {"find", "notify"} /\ ~CanRLock("manager")
    \/ pc[g] = "enter" /\ ~CanRLock("manual")
    \/ pc[g] = "check" /\ ~CanRLock("dht")
    \/ pc[g] = "stop" /\ ~CanLock("sync")
    \/ pc[g] = "stopManager" /\ ~CanLock("manager")
    \/ /\ pc[g] = "services" /\ stopping # None
       /\ writer[stopping] # g /\ ~CanLock(stopping)

\* Those two are the only ones who can wait for each other for ever: whenever a
\* goroutine waits for a lock and they do not, some call in progress waits for
\* nothing, so the locks of Manager, discovery.Manager and the services can
\* deadlock in no other way.
OnlyAddAndStopDeadlock ==
    (\E g \in Goroutines : Blocked(g)) /\ ~Embraced
      => \E c \in Callers : pc[c] # "idle" /\ ~Blocked(c)

\* Every call returns, Stop among them, unless the process crashes or an
\* AddPeer and a Stop hold each other's locks.
CallsReturn ==
    \A c \in Callers : pc[c] # "idle" ~> pc[c] = "idle" \/ crashed \/ Embraced

\* After Stop the DHT loop and the routine that saves the peers come to an end.
StopEndsRoutines ==
    phase = "stopped" ~> (pc[Loop] = "off" /\ pc[Saver] = "off") \/ crashed

=============================================================================
