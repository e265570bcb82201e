--------------------------- MODULE SyncNodeProofs ---------------------------
(***************************************************************************)
(* What SyncNode promises, for any callers, peers and configuration.       *)
(*                                                                         *)
(* NoAddAfterStop is not inductive: it rests on AddPeer's read lock, which *)
(* keeps the manual service from being stopped under it (AddersGuarded),   *)
(* and on Stop having stopped every service by the time it returns         *)
(* (StopProgress), which in turn needs that only one caller is in Stop     *)
(* (StopExclusive).  LoopSafeWhileStarted rests on the DHT service having  *)
(* its ticker and its DHT as long as it is started (LoopArmed).            *)
(* OnlyAddAndStopDeadlock rests on where the holder of each lock can be    *)
(* (LockOwners).                                                           *)
(***************************************************************************)
EXTENDS SyncNode, TLAPS

InStop == {"save", "stopManager", "services", "finish"}

\* A caller past the lock of Manager.Stop is the only one, and the Manager
\* still counts as started.
StopExclusive ==
    \A c \in Callers : pc[c] \in InStop => writer["sync"] = c /\ phase = "running"

\* A service is started only as long as Stop has not come to it.
StopProgress ==
    /\ \A c \in Callers :
         /\ pc[c] = "services" => serviceStarted \subseteq toStop \cup {stopping}
         /\ pc[c] = "finish" => serviceStarted = {}
    /\ phase = "stopped" => serviceStarted = {}

\* An AddPeer at work holds the manual service's lock, and so keeps it started.
AddersGuarded ==
    \A c \in Callers : Adding(c) => c \in readers["manual"] /\ "manual" \in serviceStarted

\* Whoever works on a peer has one.
ArgNamed == \A g \in Goroutines : pc[g] \in AddSteps => arg[g] \in Peers

\* A started DHT service that nobody is stopping has its ticker and its DHT.
LoopArmed ==
    "dht" \in serviceStarted /\ writer["dht"] = Nobody => discoveryTicker /\ dht

SyncInv ==
    /\ TypeOK
    /\ StopExclusive /\ StopProgress
    /\ AddersGuarded /\ ArgNamed
    /\ LoopArmed /\ LoopSafeWhileStarted
-----------------------------------------------------------------------------
\* The locks and the services that exist in every configuration.
LEMMA Names ==
    /\ "manual" \in Services /\ None \notin Services
    /\ "sync" \notin Services /\ "manager" \notin Services
    /\ {"sync", "manager", "manual"} \subseteq Locks /\ Services \subseteq Locks
    /\ Loop \in Goroutines /\ Saver \in Goroutines /\ Callers \subseteq Goroutines
    /\ Loop \notin Callers /\ Saver \notin Callers /\ Loop # Saver
BY SyncNodeAssumption DEF Services, Enabled, Locks, None, Loop, Saver, Goroutines

\* A new Manager is idle.
LEMMA InitSync == Init => SyncInv
<1> SUFFICES ASSUME Init PROVE SyncInv
  OBVIOUS
<1>1. /\ pc \in [Goroutines -> {"idle", "off"}]
      /\ \A c \in Callers : pc[c] = "idle"
      /\ pc[Loop] = "off" /\ pc[Saver] = "off"
  BY Names DEF Init
<1>2. TypeOK
  BY <1>1 DEF Init, TypeOK, CallerSteps, LoopSteps, SaverSteps
<1>3. StopExclusive /\ StopProgress
  BY <1>1 DEF Init, StopExclusive, StopProgress, InStop
<1>4. AddersGuarded
  BY <1>1 DEF AddersGuarded, Adding
<1>5. ArgNamed
  BY <1>1 DEF ArgNamed, AddSteps
<1>6. LoopArmed /\ LoopSafeWhileStarted
  BY DEF Init, LoopArmed, LoopSafeWhileStarted, None
<1> QED
  BY <1>2, <1>3, <1>4, <1>5, <1>6 DEF SyncInv

\* The steps a goroutine can be at.
StepsOf(g) ==
    IF g = Loop THEN LoopSteps ELSE IF g = Saver THEN SaverSteps ELSE CallerSteps

\* A goroutine may go on to any step of its own outside Stop, if it has a peer
\* to work on and, when it is adding one, the lock of the manual service.
LEMMA MoveOn ==
    ASSUME SyncInv,
           NEW g \in Goroutines, NEW step \in StepsOf(g),
           g \in Callers => step \notin InStop,
           pc' = [pc EXCEPT ![g] = step],
           arg' \in [Goroutines -> Peers \cup {NoPeer}],
           \A h \in Goroutines \ {g} : arg'[h] = arg[h],
           step \in AddSteps => arg'[g] \in Peers,
           readers' \in [Locks -> SUBSET Goroutines],
           \A c \in Callers \ {g} : c \in readers["manual"] => c \in readers'["manual"],
           g \in Callers /\ step \in {"connect", "notify", "record", "dial"}
             => g \in readers'["manual"] /\ "manual" \in serviceStarted,
           peerStore' \subseteq Peers,
           UNCHANGED <<phase, serviceStarted, writer, discoveryTicker, dht, cancelled,
                       toStop, stopping, fault>>
    PROVE  SyncInv'
<1> USE Names
<1>1. /\ pc' \in [Goroutines -> CallerSteps \cup LoopSteps \cup SaverSteps]
      /\ \A h \in Goroutines \ {g} : pc'[h] = pc[h]
      /\ pc'[g] = step
  BY DEF SyncInv, TypeOK, StepsOf
<1>2. TypeOK'
  <2>1. \A c \in Callers : pc'[c] \in CallerSteps
    BY <1>1 DEF SyncInv, TypeOK, StepsOf
  <2>2. pc'[Loop] \in LoopSteps /\ pc'[Saver] \in SaverSteps
    BY <1>1 DEF SyncInv, TypeOK, StepsOf
  <2> QED
    BY <1>1, <2>1, <2>2 DEF SyncInv, TypeOK
<1>3. StopExclusive'
  BY <1>1 DEF SyncInv, StopExclusive
<1>4. StopProgress'
  BY <1>1 DEF SyncInv, StopProgress, InStop
<1>5. AddersGuarded'
  BY <1>1 DEF SyncInv, AddersGuarded, Adding
<1>6. ArgNamed'
  BY <1>1 DEF SyncInv, ArgNamed
<1>7. LoopArmed' /\ LoopSafeWhileStarted'
  BY DEF SyncInv, LoopArmed, LoopSafeWhileStarted
<1> QED
  BY <1>2, <1>3, <1>4, <1>5, <1>6, <1>7 DEF SyncInv

\* A call begins.
LEMMA CallStep ==
    ASSUME SyncInv, NEW c \in Callers, Calls(c)
    PROVE  SyncInv'
<1> USE Names
<1>1. PICK step \in {"find", "remove", "list", "stop"} :
        /\ Call(c, step)
        /\ \/ arg' = arg /\ step \in {"list", "stop"}
           \/ \E q \in Peers : arg' = [arg EXCEPT ![c] = q]
  BY DEF Calls, AddPeer, RemovePeer, GetDiscoveredPeers, Stop
<1>2. /\ pc' = [pc EXCEPT ![c] = step]
      /\ UNCHANGED <<phase, serviceStarted, writer, readers, discoveryTicker, dht,
                     cancelled, peerStore, toStop, stopping, fault>>
  BY <1>1 DEF Call, GoTo, lockVars, dhtVars, stopVars
<1>3. /\ arg' \in [Goroutines -> Peers \cup {NoPeer}]
      /\ \A h \in Goroutines \ {c} : arg'[h] = arg[h]
      /\ step \in AddSteps => arg'[c] \in Peers
  BY <1>1 DEF SyncInv, TypeOK, AddSteps
<1>4. step \in StepsOf(c) /\ step \notin InStop
  BY DEF StepsOf, CallerSteps, AddSteps, StopSteps, InStop
<1>5. readers \in [Locks -> SUBSET Goroutines] /\ peerStore \subseteq Peers
  BY DEF SyncInv, TypeOK
<1> QED
  BY <1>2, <1>3, <1>4, <1>5, MoveOn

\* AddPeer on its way to the manager, RemovePeer and GetDiscoveredPeers.
LEMMA CallerMoves ==
    ASSUME SyncInv, NEW c \in Callers,
           \/ GetManualDiscovery(c) \/ EnterManual(c) \/ Connect(c)
           \/ DeletePeer(c) \/ ListPeers(c)
    PROVE  SyncInv'
<1> USE Names
<1>1. /\ UNCHANGED <<phase, serviceStarted, writer, discoveryTicker, dht, cancelled,
                     toStop, stopping, fault>>
      /\ peerStore' \subseteq peerStore
  BY DEF GetManualDiscovery, EnterManual, Connect, DeletePeer, ListPeers, lockVars,
         dhtVars, stopVars
<1>2. peerStore' \subseteq Peers
  BY <1>1 DEF SyncInv, TypeOK
<1>3. /\ readers' \in [Locks -> SUBSET Goroutines]
      /\ \A d \in Callers \ {c} : d \in readers["manual"] => d \in readers'["manual"]
  BY DEF GetManualDiscovery, EnterManual, Connect, DeletePeer, ListPeers, lockVars,
         SyncInv, TypeOK
<1>4. CASE pc' = [pc EXCEPT ![c] = "idle"] /\ arg' = [arg EXCEPT ![c] = NoPeer]
  <2>1. /\ arg' \in [Goroutines -> Peers \cup {NoPeer}]
        /\ \A h \in Goroutines \ {c} : arg'[h] = arg[h]
    BY <1>4 DEF SyncInv, TypeOK
  <2>2. "idle" \in StepsOf(c) /\ "idle" \notin InStop \cup AddSteps
    BY DEF StepsOf, CallerSteps, InStop, AddSteps
  <2>3. "idle" \notin {"connect", "notify", "record", "dial"}
    OBVIOUS
  <2> QED
    BY <1>1, <1>2, <1>3, <1>4, <2>1, <2>2, <2>3, MoveOn
<1>5. ASSUME NEW step \in {"enter", "connect", "notify"},
             pc[c] \in AddSteps,
             pc' = [pc EXCEPT ![c] = step], arg' = arg,
             step # "enter" => c \in readers'["manual"] /\ "manual" \in serviceStarted
      PROVE  SyncInv'
  <2>1. arg \in [Goroutines -> Peers \cup {NoPeer}] /\ arg[c] \in Peers
    BY <1>5 DEF SyncInv, TypeOK, ArgNamed
  <2>2. step \in StepsOf(c) /\ step \notin InStop
    BY DEF StepsOf, CallerSteps, InStop, AddSteps
  <2> QED
    BY <1>1, <1>2, <1>3, <1>5, <2>1, <2>2, MoveOn
<1>6. CASE GetManualDiscovery(c)
  <2>1. pc[c] \in AddSteps /\ pc' = [pc EXCEPT ![c] = "enter"] /\ arg' = arg
    BY <1>6 DEF GetManualDiscovery, GoTo, AddSteps
  <2> QED
    BY <1>5, <2>1
<1>7. CASE EnterManual(c) /\ "manual" \in serviceStarted
  <2>1. pc[c] \in AddSteps /\ pc' = [pc EXCEPT ![c] = "connect"] /\ arg' = arg
    BY <1>7 DEF EnterManual, GoTo, AddSteps
  <2>2. c \in readers'["manual"]
    BY <1>7 DEF EnterManual, SyncInv, TypeOK
  <2> QED
    BY <1>5, <1>7, <2>1, <2>2
<1>8. CASE Connect(c) /\ pc' = [pc EXCEPT ![c] = "notify"] /\ arg' = arg /\ readers' = readers
  <2>1. pc[c] \in AddSteps /\ Adding(c)
    BY <1>8 DEF Connect, AddSteps, Adding
  <2>2. c \in readers'["manual"] /\ "manual" \in serviceStarted
    BY <1>8, <2>1 DEF SyncInv, AddersGuarded
  <2> QED
    BY <1>5, <1>8, <2>1, <2>2
<1> QED
  BY <1>4, <1>6, <1>7, <1>8
     DEF GetManualDiscovery, EnterManual, Connect, DeletePeer, ListPeers, Return, GoTo

\* A discovered peer on its way into the map, from AddPeer or from the loop.
LEMMA DiscoveredStep ==
    ASSUME SyncInv, NEW g \in Callers \cup {Loop}, Discovered(g)
    PROVE  SyncInv'
<1> USE Names
<1>1. g \in Goroutines /\ g # Saver
  OBVIOUS
<1>2. UNCHANGED <<phase, serviceStarted, writer, discoveryTicker, dht, cancelled,
                  toStop, stopping, fault>>
  BY DEF Discovered, HandlePeerDiscovered, RecordPeer, DialPeer, lockVars, dhtVars, stopVars
<1>3. arg \in [Goroutines -> Peers \cup {NoPeer}] /\ arg[g] \in Peers
  BY <1>1 DEF Discovered, HandlePeerDiscovered, RecordPeer, DialPeer, SyncInv, TypeOK,
              ArgNamed, AddSteps
<1>4. peerStore' \subseteq Peers
  BY <1>3 DEF Discovered, HandlePeerDiscovered, RecordPeer, DialPeer, SyncInv, TypeOK
<1>5. CASE HandlePeerDiscovered(g) \/ RecordPeer(g)
  <2>1. PICK step \in {"record", "dial"} : pc' = [pc EXCEPT ![g] = step]
    BY <1>5 DEF HandlePeerDiscovered, RecordPeer, GoTo
  <2>2. arg' = arg /\ readers' = readers
    BY <1>5 DEF HandlePeerDiscovered, RecordPeer, lockVars
  <2>3. g \in Callers => g \in readers["manual"] /\ "manual" \in serviceStarted
    BY <1>5 DEF HandlePeerDiscovered, RecordPeer, SyncInv, AddersGuarded, Adding
  <2>4. step \in StepsOf(g) /\ step \notin InStop
    BY <1>1 DEF StepsOf, CallerSteps, LoopSteps, InStop, AddSteps
  <2>5. readers \in [Locks -> SUBSET Goroutines]
    BY DEF SyncInv, TypeOK
  <2> QED
    BY <1>1, <1>2, <1>3, <1>4, <2>1, <2>2, <2>3, <2>4, <2>5, MoveOn
<1>6. CASE DialPeer(g)
  <2>1. PICK step \in {"idle", "providers"} :
          /\ pc' = [pc EXCEPT ![g] = step]
          /\ step = "providers" <=> g = Loop
    BY <1>6 DEF DialPeer
  <2>2. /\ arg' \in [Goroutines -> Peers \cup {NoPeer}]
        /\ \A h \in Goroutines \ {g} : arg'[h] = arg[h]
    BY <1>3, <1>6 DEF DialPeer
  <2>3. /\ readers' \in [Locks -> SUBSET Goroutines]
        /\ \A d \in Callers \ {g} : d \in readers["manual"] => d \in readers'["manual"]
    BY <1>6 DEF DialPeer, SyncInv, TypeOK
  <2>4. step \in StepsOf(g) /\ step \notin InStop \cup AddSteps
    BY <1>1, <2>1 DEF StepsOf, CallerSteps, LoopSteps, InStop, AddSteps
  <2>5. step \notin {"connect", "notify", "record", "dial"}
    OBVIOUS
  <2> QED
    BY <1>1, <1>2, <1>4, <2>1, <2>2, <2>3, <2>4, <2>5, MoveOn
<1> QED
  BY <1>5, <1>6 DEF Discovered

\* The loop and the routine that saves, as long as nothing is nil.
LEMMA RoutineMoves ==
    ASSUME SyncInv, NEW g \in {Loop, Saver},
           NEW step \in StepsOf(g),
           pc' = [pc EXCEPT ![g] = step],
           (arg' = arg /\ step \notin AddSteps) \/ \E q \in Peers : arg' = [arg EXCEPT ![g] = q],
           UNCHANGED <<phase, serviceStarted, writer, readers, discoveryTicker, dht,
                       cancelled, peerStore, toStop, stopping, fault>>
    PROVE  SyncInv'
<1>1. g \in Goroutines /\ g \notin Callers
  BY Names
<1>2. /\ arg' \in [Goroutines -> Peers \cup {NoPeer}]
      /\ \A h \in Goroutines \ {g} : arg'[h] = arg[h]
      /\ step \in AddSteps => arg'[g] \in Peers
  BY <1>1 DEF SyncInv, TypeOK
<1>3. readers \in [Locks -> SUBSET Goroutines] /\ peerStore \subseteq Peers
  BY DEF SyncInv, TypeOK
<1> QED
  BY <1>1, <1>2, <1>3, MoveOn

\* The process ends: with a nil pointer only when the DHT is stopped or being
\* stopped.
LEMMA FaultStep ==
    ASSUME SyncInv,
           fault' \in {"map", "nil"},
           fault' = "nil" => ~discoveryTicker \/ ~dht,
           UNCHANGED <<phase, serviceStarted, writer, readers, discoveryTicker, dht,
                       cancelled, peerStore, toStop, stopping, pc, arg>>
    PROVE  SyncInv'
<1>1. TypeOK'
  BY DEF SyncInv, TypeOK
<1>2. StopExclusive' /\ StopProgress'
  BY DEF SyncInv, StopExclusive, StopProgress
<1>3. AddersGuarded' /\ ArgNamed'
  BY DEF SyncInv, AddersGuarded, ArgNamed, Adding
<1>4. LoopArmed' /\ LoopSafeWhileStarted'
  BY DEF SyncInv, LoopArmed, LoopSafeWhileStarted
<1> QED
  BY <1>1, <1>2, <1>3, <1>4 DEF SyncInv

\* The loop of the DHT service and the routine that saves the peers.
LEMMA RoutineStep ==
    ASSUME SyncInv, LoopStep \/ SaverStep
    PROVE  SyncInv'
<1> USE Names DEF GoTo, lockVars, dhtVars, stopVars
<1>1. CASE EnterSelect
  <2>1. CASE discoveryTicker
    BY <1>1, <2>1, RoutineMoves DEF EnterSelect, StepsOf, LoopSteps, AddSteps
  <2>2. CASE ~discoveryTicker
    BY <1>1, <2>2, FaultStep DEF EnterSelect
  <2> QED
    BY <2>1, <2>2
<1>2. CASE WakeUp
  BY <1>2, RoutineMoves DEF WakeUp, StepsOf, LoopSteps, AddSteps
<1>3. CASE CheckDHT
  BY <1>3, RoutineMoves DEF CheckDHT, StepsOf, LoopSteps, AddSteps
<1>4. CASE FindProviders
  <2>1. CASE dht
    BY <1>4, <2>1, RoutineMoves DEF FindProviders, StepsOf, LoopSteps, AddSteps
  <2>2. CASE ~dht
    BY <1>4, <2>2, FaultStep DEF FindProviders
  <2> QED
    BY <2>1, <2>2
<1>5. CASE NextProvider
  BY <1>5, RoutineMoves DEF NextProvider, StepsOf, LoopSteps
<1>6. CASE ProvidersEnd
  BY <1>6, RoutineMoves DEF ProvidersEnd, StepsOf, LoopSteps, AddSteps
<1>7. CASE SaverWakes
  BY <1>7, RoutineMoves DEF SaverWakes, StepsOf, SaverSteps, AddSteps
<1>8. CASE SaverSaves
  BY <1>8, RoutineMoves DEF SaverSaves, StepsOf, SaverSteps, AddSteps
<1>9. CASE Discovered(Loop)
  BY <1>9, DiscoveredStep
<1> QED
  BY <1>1, <1>2, <1>3, <1>4, <1>5, <1>6, <1>7, <1>8, <1>9 DEF LoopStep, SaverStep

\* Start: every service but a DHT that failed is started, with its ticker.
LEMMA StartStep ==
    ASSUME SyncInv, Start
    PROVE  SyncInv'
<1> USE Names
<1>1. PICK up \in BOOLEAN :
        /\ up => "dht" \in Services
        /\ serviceStarted' = {s \in Services : s = "dht" => up}
        /\ discoveryTicker' = up /\ dht' = up
        /\ pc' = [pc EXCEPT ![Loop] = IF up THEN "select" ELSE "off", ![Saver] = "waiting"]
  BY DEF Start, StartServices, StartDHT
<1>2. /\ phase = "new" /\ phase' = "running" /\ fault' = None
      /\ peerStore' \subseteq Peers
      /\ UNCHANGED <<writer, readers, cancelled, toStop, stopping, arg>>
  BY DEF Start, crashed, lockVars, stopVars
<1>3. /\ pc' \in [Goroutines -> CallerSteps \cup LoopSteps \cup SaverSteps]
      /\ \A c \in Callers : pc'[c] = pc[c]
      /\ pc'[Loop] \in {"select", "off"} /\ pc'[Saver] = "waiting"
  BY <1>1 DEF SyncInv, TypeOK, LoopSteps, SaverSteps
<1>4. TypeOK'
  BY <1>1, <1>2, <1>3 DEF SyncInv, TypeOK, LoopSteps, SaverSteps
<1>5. \A c \in Callers : pc'[c] \notin InStop
  BY <1>2, <1>3 DEF SyncInv, StopExclusive
<1>6. StopExclusive' /\ StopProgress'
  BY <1>2, <1>5 DEF StopExclusive, StopProgress, InStop
<1>7. AddersGuarded'
  BY <1>1, <1>2, <1>3 DEF SyncInv, AddersGuarded, Adding
<1>8. ArgNamed'
  <2>1. \A g \in Goroutines : pc'[g] \in AddSteps => g \in Callers
    BY <1>3 DEF AddSteps, Goroutines
  <2> QED
    BY <1>2, <1>3, <2>1 DEF SyncInv, ArgNamed
<1>9. LoopArmed' /\ LoopSafeWhileStarted'
  BY <1>1, <1>2 DEF LoopArmed, LoopSafeWhileStarted, None
<1> QED
  BY <1>4, <1>6, <1>7, <1>8, <1>9 DEF SyncInv

\* Stop takes Manager.mutex, or finds the Manager not started.
LEMMA BeginStopStep ==
    ASSUME SyncInv, NEW c \in Callers, BeginStop(c)
    PROVE  SyncInv'
<1> USE Names
<1>1. PICK step \in {"save", "idle"} :
        /\ pc' = [pc EXCEPT ![c] = step]
        /\ step = "save" => phase = "running" /\ writer' = [writer EXCEPT !["sync"] = c]
        /\ step = "idle" => writer' = writer
  BY DEF BeginStop, GoTo
<1>2. /\ UNCHANGED <<phase, serviceStarted, readers, discoveryTicker, dht, cancelled,
                     peerStore, toStop, stopping, arg, fault>>
      /\ writer["sync"] = Nobody
  BY DEF BeginStop, CanLock, dhtVars, stopVars
<1>3. /\ pc' \in [Goroutines -> CallerSteps \cup LoopSteps \cup SaverSteps]
      /\ \A h \in Goroutines \ {c} : pc'[h] = pc[h]
      /\ pc'[c] = step
      /\ \A d \in Callers : pc'[d] \in CallerSteps
  BY <1>1 DEF SyncInv, TypeOK, CallerSteps, StopSteps
<1>4. /\ writer' \in [Locks -> Callers \cup {Nobody}]
      /\ step = "save" => writer'["sync"] = c
      /\ \A l \in Locks \ {"sync"} : writer'[l] = writer[l]
  BY <1>1 DEF SyncInv, TypeOK
<1>5. TypeOK'
  BY <1>2, <1>3, <1>4 DEF SyncInv, TypeOK
<1>6. \A d \in Callers : pc[d] \notin InStop
  BY <1>2, SyncNodeAssumption DEF SyncInv, StopExclusive
<1>7. StopExclusive'
  BY <1>1, <1>2, <1>3, <1>4, <1>6 DEF StopExclusive, InStop
<1>8. StopProgress'
  BY <1>2, <1>3, <1>6 DEF SyncInv, StopProgress, InStop
<1>9. AddersGuarded'
  BY <1>2, <1>3 DEF SyncInv, AddersGuarded, Adding
<1>10. ArgNamed'
  BY <1>2, <1>3 DEF SyncInv, ArgNamed, AddSteps
<1>11. LoopArmed' /\ LoopSafeWhileStarted'
  <2>1. "dht" \in serviceStarted => writer'["dht"] = writer["dht"]
    BY <1>4 DEF SyncInv, TypeOK
  <2> QED
    BY <1>2, <2>1 DEF SyncInv, LoopArmed, LoopSafeWhileStarted
<1> QED
  BY <1>5, <1>7, <1>8, <1>9, <1>10, <1>11 DEF SyncInv

\* A caller in Stop is alone there: the others are elsewhere.
LEMMA OneInStop ==
    ASSUME SyncInv, NEW c \in Callers, pc[c] \in InStop
    PROVE  \A d \in Callers \ {c} : pc[d] \notin InStop
BY DEF SyncInv, StopExclusive

\* Stop goes on inside: to the discovery manager and through its services.
LEMMA InsideStop ==
    ASSUME SyncInv, ~crashed, NEW c \in Callers,
           NEW step \in InStop \cup {"idle"},
           pc[c] \in InStop,
           pc' = [pc EXCEPT ![c] = step],
           step # "idle" => phase' = "running" /\ writer'["sync"] = writer["sync"],
           phase' \in {"running", "stopped"},
           writer' \in [Locks -> Callers \cup {Nobody}],
           serviceStarted' \subseteq serviceStarted,
           "manual" \in serviceStarted \ serviceStarted' => readers["manual"] = {},
           step = "services" => serviceStarted' \subseteq toStop' \cup {stopping'},
           step = "finish" \/ phase' = "stopped" => serviceStarted' = {},
           toStop' \subseteq Services, stopping' \in Services \cup {None},
           cancelled' \subseteq {"dht", "discovery", "node"},
           discoveryTicker' \in BOOLEAN, dht' \in BOOLEAN,
           LoopArmed',
           UNCHANGED <<readers, peerStore, arg, fault>>
    PROVE  SyncInv'
<1> USE Names
<1>1. /\ pc' \in [Goroutines -> CallerSteps \cup LoopSteps \cup SaverSteps]
      /\ \A h \in Goroutines \ {c} : pc'[h] = pc[h]
      /\ pc'[c] = step
      /\ \A d \in Callers : pc'[d] \in CallerSteps
  BY DEF SyncInv, TypeOK, CallerSteps, StopSteps, InStop
<1>2. TypeOK'
  BY <1>1 DEF SyncInv, TypeOK
<1>3. \A d \in Callers \ {c} : pc'[d] \notin InStop
  BY <1>1, OneInStop
<1>4. StopExclusive'
  BY <1>1, <1>3 DEF SyncInv, StopExclusive, InStop
<1>5. StopProgress'
  BY <1>1, <1>3 DEF StopProgress, InStop
<1>6. AddersGuarded'
  <2> SUFFICES ASSUME NEW d \in Callers, Adding(d)'
               PROVE  d \in readers["manual"] /\ "manual" \in serviceStarted'
    BY DEF AddersGuarded
  <2>1. Adding(d)
    BY <1>1 DEF Adding, InStop
  <2>2. d \in readers["manual"] /\ "manual" \in serviceStarted
    BY <2>1 DEF SyncInv, AddersGuarded
  <2> QED
    BY <2>2
<1>7. ArgNamed'
  BY <1>1 DEF SyncInv, ArgNamed, AddSteps, InStop
<1>8. LoopSafeWhileStarted'
  BY DEF LoopSafeWhileStarted, crashed, None
<1> QED
  BY <1>2, <1>4, <1>5, <1>6, <1>7, <1>8 DEF SyncInv

\* The steps of Stop before and after the services.
LEMMA FrameSteps ==
    ASSUME SyncInv, ~crashed, NEW c \in Callers,
           SaveAtStop(c) \/ StopManager(c) \/ ServicesStopped(c) \/ FinishStop(c)
    PROVE  SyncInv'
<1> USE Names DEF GoTo, lockVars, dhtVars, stopVars
<1>1. /\ toStop \subseteq Services /\ stopping \in Services \cup {None}
      /\ discoveryTicker \in BOOLEAN /\ dht \in BOOLEAN
      /\ writer \in [Locks -> Callers \cup {Nobody}]
      /\ cancelled \subseteq {"dht", "discovery", "node"}
      /\ serviceStarted \subseteq Services
  BY DEF SyncInv, TypeOK
<1>2. pc[c] \in InStop
  BY DEF SaveAtStop, StopManager, ServicesStopped, FinishStop, InStop
<1>3. phase = "running"
  BY <1>2 DEF SyncInv, StopExclusive
<1>4. /\ UNCHANGED <<serviceStarted, readers, discoveryTicker, dht, peerStore, arg, fault>>
      /\ writer' \in [Locks -> Callers \cup {Nobody}]
      /\ \A l \in Services : writer'[l] = writer[l]
  BY <1>1 DEF SaveAtStop, StopManager, ServicesStopped, FinishStop
<1>5. LoopArmed'
  BY <1>1, <1>4 DEF SyncInv, LoopArmed
<1>6. CASE SaveAtStop(c)
  <2>1. /\ pc' = [pc EXCEPT ![c] = "stopManager"]
        /\ UNCHANGED <<phase, writer, cancelled, toStop, stopping>>
    BY <1>6 DEF SaveAtStop
  <2> QED
    BY <1>1, <1>2, <1>3, <1>4, <1>5, <2>1, InsideStop DEF InStop
<1>7. CASE StopManager(c)
  <2>1. /\ pc' = [pc EXCEPT ![c] = "services"]
        /\ toStop' = Services
        /\ UNCHANGED <<phase, cancelled, stopping>>
    BY <1>7 DEF StopManager
  <2>2. writer'["sync"] = writer["sync"]
    BY <1>1, <1>7 DEF StopManager
  <2> QED
    BY <1>1, <1>2, <1>3, <1>4, <1>5, <2>1, <2>2, InsideStop DEF InStop
<1>8. CASE ServicesStopped(c)
  <2>1. /\ pc' = [pc EXCEPT ![c] = "finish"]
        /\ UNCHANGED <<phase, toStop, stopping>>
        /\ cancelled' = cancelled \cup {"discovery", "dht"}
    BY <1>8 DEF ServicesStopped
  <2>2. writer'["sync"] = writer["sync"]
    BY <1>1, <1>8 DEF ServicesStopped
  <2>3. serviceStarted = {}
    BY <1>1, <1>8 DEF ServicesStopped, SyncInv, StopProgress
  <2> QED
    BY <1>1, <1>2, <1>3, <1>4, <1>5, <2>1, <2>2, <2>3, InsideStop DEF InStop
<1>9. CASE FinishStop(c)
  <2>1. /\ pc' = [pc EXCEPT ![c] = "idle"]
        /\ phase' = "stopped"
        /\ cancelled' = cancelled \cup {"node"}
        /\ UNCHANGED <<toStop, stopping>>
    BY <1>9 DEF FinishStop
  <2>2. serviceStarted = {}
    BY <1>9 DEF FinishStop, SyncInv, StopProgress
  <2>3. "idle" \notin {"services", "finish"}
    OBVIOUS
  <2> QED
    BY <1>1, <1>2, <1>4, <1>5, <2>1, <2>2, <2>3, InsideStop
<1> QED
  BY <1>6, <1>7, <1>8, <1>9

\* Every step of the discovery manager's Stop from service to service.
LEMMA ServiceSteps ==
    ASSUME SyncInv, ~crashed, NEW c \in Callers,
           NextService(c) \/ StopService(c) \/ StopDHT(c) \/ CloseDHT(c)
    PROVE  SyncInv'
<1> USE Names DEF lockVars, dhtVars, stopVars
<1>1. /\ toStop \subseteq Services /\ stopping \in Services \cup {None}
      /\ discoveryTicker \in BOOLEAN /\ dht \in BOOLEAN
      /\ writer \in [Locks -> Callers \cup {Nobody}]
      /\ cancelled \subseteq {"dht", "discovery", "node"}
      /\ serviceStarted \subseteq Services
  BY DEF SyncInv, TypeOK
<1>2. pc[c] = "services" /\ pc[c] \in InStop /\ pc' = [pc EXCEPT ![c] = "services"]
  BY DEF NextService, StopService, StopDHT, CloseDHT, InStop, SyncInv, TypeOK
<1>3. phase = "running" /\ serviceStarted \subseteq toStop \cup {stopping}
  BY <1>2 DEF SyncInv, StopExclusive, StopProgress, InStop
<1>4. UNCHANGED <<phase, readers, peerStore, arg, fault>>
  BY DEF NextService, StopService, StopDHT, CloseDHT
<1>5. CASE NextService(c)
  <2>1. UNCHANGED <<serviceStarted, writer, discoveryTicker, dht, cancelled>>
    BY <1>5 DEF NextService
  <2>2. /\ toStop' \subseteq Services /\ stopping' \in Services
        /\ serviceStarted \subseteq toStop' \cup {stopping'}
    BY <1>1, <1>3, <1>5 DEF NextService
  <2>3. LoopArmed'
    BY <2>1 DEF SyncInv, LoopArmed
  <2> QED
    BY <1>1, <1>2, <1>3, <1>4, <2>1, <2>2, <2>3, InsideStop DEF InStop
<1>6. CASE StopService(c)
  <2>1. /\ UNCHANGED <<writer, discoveryTicker, dht, cancelled, toStop>>
        /\ serviceStarted' = serviceStarted \ {stopping}
        /\ stopping' = None
        /\ readers[stopping] = {}
    BY <1>6 DEF StopService, CanLock
  <2>2. LoopArmed'
    BY <2>1 DEF SyncInv, LoopArmed
  <2>3. serviceStarted' \subseteq toStop' \cup {stopping'}
    BY <1>3, <2>1
  <2>4. "manual" \in serviceStarted \ serviceStarted' => readers["manual"] = {}
    BY <2>1
  <2> QED
    BY <1>1, <1>2, <1>3, <1>4, <2>1, <2>2, <2>3, <2>4, InsideStop DEF InStop
<1>7. CASE StopDHT(c)
  <2>1. /\ UNCHANGED <<serviceStarted, dht, toStop, stopping>>
        /\ writer' = [writer EXCEPT !["dht"] = c]
        /\ discoveryTicker' = FALSE
        /\ cancelled' = cancelled \cup {"dht"}
        /\ "dht" \in serviceStarted
    BY <1>7 DEF StopDHT
  <2>2. /\ writer' \in [Locks -> Callers \cup {Nobody}]
        /\ writer'["dht"] = c /\ writer'["sync"] = writer["sync"]
    BY <1>1, <2>1
  <2>3. LoopArmed'
    BY <2>2, SyncNodeAssumption DEF LoopArmed
  <2> QED
    BY <1>1, <1>2, <1>3, <1>4, <2>1, <2>2, <2>3, InsideStop DEF InStop
<1>8. CASE CloseDHT(c)
  <2>1. /\ UNCHANGED <<discoveryTicker, cancelled, toStop>>
        /\ writer' = [writer EXCEPT !["dht"] = Nobody]
        /\ dht' = FALSE
        /\ stopping = "dht" /\ stopping' = None
        /\ serviceStarted' = serviceStarted \ {"dht"}
    BY <1>8 DEF CloseDHT
  <2>2. /\ writer' \in [Locks -> Callers \cup {Nobody}]
        /\ writer'["sync"] = writer["sync"]
    BY <1>1, <2>1
  <2>3. LoopArmed'
    BY <2>1 DEF LoopArmed
  <2>4. serviceStarted' \subseteq toStop' \cup {stopping'}
    BY <1>3, <2>1
  <2>5. "manual" \notin serviceStarted \ serviceStarted'
    BY <2>1
  <2> QED
    BY <1>1, <1>2, <1>3, <1>4, <2>1, <2>2, <2>3, <2>4, <2>5, InsideStop DEF InStop
<1> QED
  BY <1>5, <1>6, <1>7, <1>8
-----------------------------------------------------------------------------
\* No step leaves the invariant.
LEMMA SyncStep == SyncInv /\ [Next]_vars => SyncInv'
<1> SUFFICES ASSUME SyncInv, [Next]_vars PROVE SyncInv'
  OBVIOUS
<1>1. CASE UNCHANGED vars
  <2>1. UNCHANGED <<phase, serviceStarted, writer, readers, discoveryTicker, dht,
                    cancelled, peerStore, toStop, stopping, pc, arg, fault>>
    BY <1>1 DEF vars, lockVars, dhtVars, stopVars
  <2>2. TypeOK'
    BY <2>1 DEF SyncInv, TypeOK
  <2>3. StopExclusive' /\ StopProgress'
    BY <2>1 DEF SyncInv, StopExclusive, StopProgress
  <2>4. AddersGuarded' /\ ArgNamed'
    BY <2>1 DEF SyncInv, AddersGuarded, ArgNamed, Adding
  <2>5. LoopArmed' /\ LoopSafeWhileStarted'
    BY <2>1 DEF SyncInv, LoopArmed, LoopSafeWhileStarted
  <2> QED
    BY <2>2, <2>3, <2>4, <2>5 DEF SyncInv
<1>2. CASE Start
  BY <1>2, StartStep
<1>3. ASSUME NEW c \in Callers, Calls(c) PROVE SyncInv'
  BY <1>3, CallStep
<1>4. ASSUME NEW c \in Callers, CallerStep(c) PROVE SyncInv'
  <2>1. ~crashed
    BY <1>4 DEF CallerStep
  <2>2. CASE \/ GetManualDiscovery(c) \/ EnterManual(c) \/ Connect(c)
             \/ DeletePeer(c) \/ ListPeers(c)
    BY <2>2, CallerMoves
  <2>3. CASE Discovered(c)
    BY <2>3, DiscoveredStep
  <2>4. CASE BeginStop(c)
    BY <2>4, BeginStopStep
  <2>5. CASE SaveAtStop(c) \/ StopManager(c) \/ ServicesStopped(c) \/ FinishStop(c)
    BY <2>1, <2>5, FrameSteps
  <2>6. CASE NextService(c) \/ StopService(c) \/ StopDHT(c) \/ CloseDHT(c)
    BY <2>1, <2>6, ServiceSteps
  <2> QED
    BY <1>4, <2>2, <2>3, <2>4, <2>5, <2>6 DEF CallerStep, StopStep
<1>5. CASE LoopStep \/ SaverStep
  BY <1>5, RoutineStep
<1>6. CASE MapFault
  <2>1. /\ fault' = "map"
        /\ UNCHANGED <<phase, serviceStarted, writer, readers, discoveryTicker, dht,
                       cancelled, peerStore, toStop, stopping, pc, arg>>
    BY <1>6 DEF MapFault, lockVars, dhtVars, stopVars
  <2> QED
    BY <2>1, FaultStep
<1> QED
  BY <1>1, <1>2, <1>3, <1>4, <1>5, <1>6 DEF Next

\* Every reachable state satisfies the invariant.
THEOREM SyncInvariant == Spec => []SyncInv
BY InitSync, SyncStep, PTL DEF Spec

\* The variables keep their types: only a peer that was given or discovered
\* enters the map.
THEOREM SyncTypes == Spec => []TypeOK
<1>1. SyncInv => TypeOK
  BY DEF SyncInv
<1> QED
  BY <1>1, SyncInvariant, PTL

\* However many callers there are, none is inside AddPeer once Stop has
\* returned.
THEOREM NoLateAdd == Spec => []NoAddAfterStop
<1>1. SyncInv => NoAddAfterStop
  BY DEF SyncInv, StopProgress, AddersGuarded, NoAddAfterStop
<1> QED
  BY <1>1, SyncInvariant, PTL

\* The DHT loop meets nil only during or after the Stop of its service.
THEOREM LoopSafe == Spec => []LoopSafeWhileStarted
<1>1. SyncInv => LoopSafeWhileStarted
  BY DEF SyncInv
<1> QED
  BY <1>1, SyncInvariant, PTL
-----------------------------------------------------------------------------
(***************************************************************************)
(* Who holds which lock, from which the absence of other deadlocks.        *)
(***************************************************************************)

\* Only an AddPeer at work keeps a read lock, the manual service's.
ReadOwners ==
    /\ \A l \in Locks \ {"manual"} : readers[l] = {}
    /\ \A g \in readers["manual"] : g \in Callers /\ Adding(g)

\* Only Stop keeps a lock for writing: the Manager's until it returns, the
\* discovery manager's while it goes through the services, the DHT's while
\* that is the service it is stopping.
WriteOwners ==
    /\ writer["sync"] # Nobody => pc[writer["sync"]] \in InStop
    /\ \A c \in Callers : pc[c] = "services" <=> writer["manager"] = c
    /\ \A s \in Services : writer[s] # Nobody =>
         s = "dht" /\ stopping = "dht" /\ pc[writer[s]] = "services"

\* The loop runs only where there is a DHT service, whose lock it takes.
LoopHasService == pc[Loop] # "off" => "dht" \in Services

LockOwners == ReadOwners /\ WriteOwners /\ LoopHasService

\* No lock of a new Manager is held.
LEMMA InitOwners == Init => LockOwners
<1> SUFFICES ASSUME Init PROVE LockOwners
  OBVIOUS
<1> USE Names
<1>1. ReadOwners
  BY DEF Init, ReadOwners
<1>2. WriteOwners
  BY SyncNodeAssumption DEF Init, WriteOwners
<1>3. LoopHasService
  BY DEF Init, LoopHasService
<1> QED
  BY <1>1, <1>2, <1>3 DEF LockOwners

\* A step of a goroutine that is neither in Stop nor about to be, and that
\* takes no read lock but AddPeer's.
LEMMA OutsideOwners ==
    ASSUME SyncInv, LockOwners,
           NEW g \in Goroutines, NEW step,
           g \in Callers => pc[g] \notin InStop /\ step # "services",
           g = Loop => pc[Loop] # "off",
           pc' = [pc EXCEPT ![g] = step],
           readers' \in [Locks -> SUBSET Goroutines],
           \A l \in Locks \ {"manual"} : readers'[l] = readers[l],
           \A h \in Goroutines \ {g} : h \in readers'["manual"] => h \in readers["manual"],
           g \in readers'["manual"] =>
             g \in Callers /\ step \in {"connect", "notify", "record", "dial"},
           UNCHANGED <<writer, stopping>>
    PROVE  LockOwners'
<1> USE Names
<1>1. (\A h \in Goroutines \ {g} : pc'[h] = pc[h]) /\ pc'[g] = step
  BY DEF SyncInv, TypeOK
<1>2. ReadOwners'
  BY <1>1 DEF LockOwners, ReadOwners, Adding
<1>3. \A l \in Locks : writer[l] # Nobody => writer[l] \in Callers
  BY DEF SyncInv, TypeOK
<1>4. \A c \in Callers : pc[c] \in InStop => pc'[c] = pc[c]
  BY <1>1
<1>5. WriteOwners'
  BY <1>1, <1>3, <1>4 DEF LockOwners, WriteOwners, InStop
<1>6. LoopHasService'
  BY <1>1 DEF LockOwners, LoopHasService
<1> QED
  BY <1>2, <1>5, <1>6 DEF LockOwners

\* Calls begin, and go on outside Stop.
LEMMA CallerOwners ==
    ASSUME SyncInv, LockOwners, NEW c \in Callers,
           \/ Calls(c) \/ GetManualDiscovery(c) \/ EnterManual(c) \/ Connect(c)
           \/ DeletePeer(c) \/ ListPeers(c)
    PROVE  LockOwners'
<1> USE Names
<1>1. UNCHANGED <<writer, stopping>> /\ pc[c] \notin InStop
  BY DEF Calls, AddPeer, RemovePeer, GetDiscoveredPeers, Stop, Call, GetManualDiscovery,
         EnterManual, Connect, DeletePeer, ListPeers, lockVars, stopVars, InStop
<1>2. readers \in [Locks -> SUBSET Goroutines]
  BY DEF SyncInv, TypeOK
<1>3. c \in readers["manual"] => Adding(c)
  BY DEF LockOwners, ReadOwners
<1>4. CASE /\ pc[c] \in {"idle", "find", "remove", "list", "enter"} /\ readers' = readers
           /\ \E step \in CallerSteps \ InStop : pc' = [pc EXCEPT ![c] = step]
  <2>1. c \notin readers["manual"]
    BY <1>3, <1>4 DEF Adding
  <2> QED
    BY <1>1, <1>2, <1>4, <2>1, OutsideOwners DEF InStop
<1>5. CASE EnterManual(c) /\ readers' = [readers EXCEPT !["manual"] = @ \cup {c}]
                          /\ pc' = [pc EXCEPT ![c] = "connect"]
  <2>1. /\ readers' \in [Locks -> SUBSET Goroutines]
        /\ \A l \in Locks \ {"manual"} : readers'[l] = readers[l]
        /\ readers'["manual"] = readers["manual"] \cup {c}
    BY <1>2, <1>5
  <2> QED
    BY <1>1, <1>5, <2>1, OutsideOwners
<1>6. CASE Connect(c) /\ readers' = readers /\ pc' = [pc EXCEPT ![c] = "notify"]
  BY <1>1, <1>2, <1>6, OutsideOwners
<1>7. CASE Connect(c) /\ readers' = [readers EXCEPT !["manual"] = @ \ {c}]
                      /\ pc' = [pc EXCEPT ![c] = "idle"]
  <2>1. /\ readers' \in [Locks -> SUBSET Goroutines]
        /\ \A l \in Locks \ {"manual"} : readers'[l] = readers[l]
        /\ readers'["manual"] = readers["manual"] \ {c}
    BY <1>2, <1>7
  <2> QED
    BY <1>1, <1>7, <2>1, OutsideOwners
<1>8. CASE Calls(c)
  BY <1>4, <1>8 DEF Calls, AddPeer, RemovePeer, GetDiscoveredPeers, Stop, Call, GoTo,
                    lockVars, CallerSteps, AddSteps, StopSteps, InStop
<1>9. CASE GetManualDiscovery(c) \/ DeletePeer(c) \/ ListPeers(c)
  BY <1>4, <1>9 DEF GetManualDiscovery, DeletePeer, ListPeers, Return, GoTo, lockVars,
                    CallerSteps, AddSteps, InStop
<1>10. CASE EnterManual(c)
  BY <1>4, <1>5, <1>10 DEF EnterManual, Return, GoTo, CallerSteps, InStop
<1>11. CASE Connect(c)
  BY <1>6, <1>7, <1>11 DEF Connect, Return, GoTo
<1> QED
  BY <1>8, <1>9, <1>10, <1>11

\* A discovered peer is handled; the DHT loop has no lock to give back.
LEMMA DiscoveredOwners ==
    ASSUME SyncInv, LockOwners, NEW g \in Callers \cup {Loop}, Discovered(g)
    PROVE  LockOwners'
<1> USE Names
<1>1. /\ UNCHANGED <<writer, stopping>>
      /\ pc[g] \notin InStop \cup {"off"} /\ g \in Goroutines
  BY DEF Discovered, HandlePeerDiscovered, RecordPeer, DialPeer, lockVars, stopVars, InStop
<1>2. readers \in [Locks -> SUBSET Goroutines]
  BY DEF SyncInv, TypeOK
<1>3. g \in readers["manual"] => g \in Callers
  BY DEF LockOwners, ReadOwners
<1>4. CASE HandlePeerDiscovered(g) \/ RecordPeer(g)
  <2>1. readers' = readers /\ \E step \in {"record", "dial"} : pc' = [pc EXCEPT ![g] = step]
    BY <1>4 DEF HandlePeerDiscovered, RecordPeer, GoTo, lockVars
  <2> QED
    BY <1>1, <1>2, <1>3, <2>1, OutsideOwners
<1>5. CASE DialPeer(g)
  <2>1. /\ readers' \in [Locks -> SUBSET Goroutines]
        /\ \A l \in Locks \ {"manual"} : readers'[l] = readers[l]
        /\ readers'["manual"] = readers["manual"] \ {g}
    BY <1>2, <1>5 DEF DialPeer
  <2>2. PICK step \in {"idle", "providers"} : pc' = [pc EXCEPT ![g] = step]
    BY <1>5 DEF DialPeer
  <2> QED
    BY <1>1, <2>1, <2>2, OutsideOwners
<1> QED
  BY <1>4, <1>5 DEF Discovered

\* The loop's own steps, the routine that saves, Start and the faults change
\* no lock and move no caller.
LEMMA RoutineOwners ==
    ASSUME SyncInv, LockOwners,
           UNCHANGED <<writer, readers, stopping>>,
           \A c \in Callers : pc'[c] = pc[c],
           LoopHasService'
    PROVE  LockOwners'
<1>1. ReadOwners'
  BY DEF LockOwners, ReadOwners, Adding
<1>2. \A l \in Locks : writer[l] # Nobody => writer[l] \in Callers
  BY DEF SyncInv, TypeOK
<1>3. WriteOwners'
  BY <1>2, Names DEF LockOwners, WriteOwners, InStop
<1> QED
  BY <1>1, <1>3 DEF LockOwners

\* In Stop, the caller moves and gives up or takes locks for writing.
LEMMA StopOwners ==
    ASSUME SyncInv, LockOwners, NEW c \in Callers, StopStep(c)
    PROVE  LockOwners'
<1> USE Names DEF GoTo, lockVars, stopVars
<1>1. /\ pc \in [Goroutines -> CallerSteps \cup LoopSteps \cup SaverSteps]
      /\ writer \in [Locks -> Callers \cup {Nobody}]
  BY DEF SyncInv, TypeOK
<1>2. pc[c] \in StopSteps /\ readers' = readers
  BY DEF StopStep, BeginStop, SaveAtStop, StopManager, NextService, StopService, StopDHT,
         CloseDHT, ServicesStopped, FinishStop, StopSteps
<1>3. \A h \in Goroutines \ {c} : pc'[h] = pc[h]
  BY <1>1 DEF StopStep, BeginStop, SaveAtStop, StopManager, NextService, StopService,
              StopDHT, CloseDHT, ServicesStopped, FinishStop
<1>4. ReadOwners'
  BY <1>2, <1>3 DEF LockOwners, ReadOwners, Adding, StopSteps
<1>5. \A l \in Locks : writer[l] # Nobody /\ writer[l] # c => pc'[writer[l]] = pc[writer[l]]
  BY <1>1, <1>3
<1>6. Nobody # c
  BY SyncNodeAssumption
<1>7. WriteOwners'
  <2>1. CASE BeginStop(c)
    BY <1>1, <1>5, <1>6, <2>1 DEF BeginStop, CanLock, LockOwners, WriteOwners, InStop
  <2>2. CASE SaveAtStop(c)
    BY <1>1, <1>5, <1>6, <2>2 DEF SaveAtStop, LockOwners, WriteOwners, InStop
  <2>3. CASE StopManager(c)
    <3>1. /\ writer' = [writer EXCEPT !["manager"] = c] /\ stopping' = stopping
          /\ pc' = [pc EXCEPT ![c] = "services"] /\ writer["manager"] = Nobody
      BY <2>3 DEF StopManager, CanLock
    <3>2. \A d \in Callers : pc[d] # "services"
      BY <3>1, SyncNodeAssumption DEF LockOwners, WriteOwners
    <3>3. \A d \in Callers : pc'[d] = "services" <=> writer'["manager"] = d
      BY <1>1, <1>3, <3>1, <3>2
    <3>4. \A s \in Services : writer'[s] = Nobody
      BY <1>1, <3>1, <3>2 DEF LockOwners, WriteOwners
    <3>5. writer'["sync"] # Nobody => pc'[writer'["sync"]] \in InStop
      BY <1>1, <1>5, <3>1 DEF LockOwners, WriteOwners, InStop
    <3> QED
      BY <3>3, <3>4, <3>5 DEF WriteOwners
  <2>4. CASE NextService(c) \/ StopService(c)
    <3>1. pc' = pc /\ writer' = writer
      BY <2>4 DEF NextService, StopService
    <3>2. \A s \in Services : writer[s] = Nobody
      <4> SUFFICES ASSUME NEW s \in Services, writer[s] # Nobody PROVE FALSE
        OBVIOUS
      <4>1. s = "dht" /\ stopping = "dht"
        BY DEF LockOwners, WriteOwners
      <4> QED
        BY <2>4, <4>1 DEF NextService, StopService, CanLock, None
    <3> QED
      BY <3>1, <3>2 DEF LockOwners, WriteOwners
  <2>5. CASE StopDHT(c)
    BY <1>1, <1>6, <2>5 DEF StopDHT, LockOwners, WriteOwners
  <2>6. CASE CloseDHT(c)
    BY <1>1, <1>6, <2>6 DEF CloseDHT, LockOwners, WriteOwners
  <2>7. CASE ServicesStopped(c)
    <3>1. \A s \in Services : writer[s] = Nobody
      BY <2>7 DEF ServicesStopped, LockOwners, WriteOwners, None
    <3>2. /\ writer' = [writer EXCEPT !["manager"] = Nobody]
          /\ pc' = [pc EXCEPT ![c] = "finish"] /\ pc[c] = "services"
      BY <2>7 DEF ServicesStopped
    <3>3. \A d \in Callers : pc'[d] # "services"
      BY <1>1, <1>3, <3>2 DEF LockOwners, WriteOwners
    <3>4. writer'["manager"] = Nobody /\ \A s \in Services : writer'[s] = Nobody
      BY <1>1, <3>1, <3>2
    <3>5. writer'["sync"] # Nobody => pc'[writer'["sync"]] \in InStop
      BY <1>1, <1>5, <3>2 DEF LockOwners, WriteOwners, InStop
    <3> QED
      BY <3>3, <3>4, <3>5, SyncNodeAssumption DEF WriteOwners
  <2>8. CASE FinishStop(c)
    <3>1. writer["manager"] # c /\ \A s \in Services : writer[s] # c
      BY <1>6, <2>8 DEF FinishStop, LockOwners, WriteOwners
    <3> QED
      BY <1>1, <1>5, <1>6, <2>8, <3>1 DEF FinishStop, LockOwners, WriteOwners
  <2> QED
    BY <2>1, <2>2, <2>3, <2>4, <2>5, <2>6, <2>7, <2>8 DEF StopStep
<1>8. LoopHasService'
  BY <1>3 DEF LockOwners, LoopHasService
<1> QED
  BY <1>4, <1>7, <1>8 DEF LockOwners

\* No step leaves a lock with anybody else.
LEMMA OwnersStep == SyncInv /\ LockOwners /\ [Next]_vars => LockOwners'
<1> SUFFICES ASSUME SyncInv, LockOwners, [Next]_vars PROVE LockOwners'
  OBVIOUS
<1> USE Names DEF GoTo, lockVars, dhtVars, stopVars
<1>1. pc \in [Goroutines -> CallerSteps \cup LoopSteps \cup SaverSteps]
  BY DEF SyncInv, TypeOK
<1>2. CASE UNCHANGED vars
  BY <1>2, RoutineOwners DEF vars, LockOwners, LoopHasService
<1>3. CASE Start
  <2>1. UNCHANGED <<writer, readers, stopping>>
    BY <1>3 DEF Start
  <2>2. \A c \in Callers : pc'[c] = pc[c]
    BY <1>1, <1>3 DEF Start, StartServices, StartDHT
  <2>3. LoopHasService'
    BY <1>1, <1>3 DEF Start, StartServices, StartDHT, LoopHasService
  <2> QED
    BY <2>1, <2>2, <2>3, RoutineOwners
<1>4. ASSUME NEW c \in Callers, Calls(c) PROVE LockOwners'
  BY <1>4, CallerOwners
<1>5. ASSUME NEW c \in Callers, CallerStep(c) PROVE LockOwners'
  BY <1>5, CallerOwners, DiscoveredOwners, StopOwners DEF CallerStep
<1>6. CASE Discovered(Loop)
  BY <1>6, DiscoveredOwners
<1>7. CASE EnterSelect \/ WakeUp \/ CheckDHT \/ FindProviders \/ NextProvider \/ ProvidersEnd
  <2>1. UNCHANGED <<writer, readers, stopping>>
    BY <1>7 DEF EnterSelect, WakeUp, CheckDHT, FindProviders, NextProvider, ProvidersEnd
  <2>2. \A c \in Callers : pc'[c] = pc[c]
    BY <1>1, <1>7 DEF EnterSelect, WakeUp, CheckDHT, FindProviders, NextProvider, ProvidersEnd
  <2>3. pc[Loop] # "off"
    BY <1>7 DEF EnterSelect, WakeUp, CheckDHT, FindProviders, NextProvider, ProvidersEnd
  <2>4. LoopHasService'
    BY <2>3 DEF LockOwners, LoopHasService
  <2> QED
    BY <2>1, <2>2, <2>4, RoutineOwners
<1>8. CASE SaverStep
  <2>1. UNCHANGED <<writer, readers, stopping>>
    BY <1>8 DEF SaverStep, SaverWakes, SaverSaves
  <2>2. \A c \in Callers : pc'[c] = pc[c]
    BY <1>1, <1>8 DEF SaverStep, SaverWakes, SaverSaves
  <2>3. LoopHasService'
    BY <1>1, <1>8 DEF SaverStep, SaverWakes, SaverSaves, LockOwners, LoopHasService
  <2> QED
    BY <2>1, <2>2, <2>3, RoutineOwners
<1>9. CASE MapFault
  BY <1>9, RoutineOwners DEF MapFault, LockOwners, LoopHasService
<1> QED
  BY <1>2, <1>3, <1>4, <1>5, <1>6, <1>7, <1>8, <1>9 DEF Next, LoopStep

\* A caller in Stop can go on, or waits for the manual service's readers: then
\* one of them can go on, or waits for the lock that this caller holds.
LEMMA StopperGoesOn ==
    ASSUME SyncInv, LockOwners, NEW d \in Callers, pc[d] \in InStop, ~Embraced
    PROVE  \E c \in Callers : pc[c] # "idle" /\ ~Blocked(c)
<1> USE Names
<1>1. CASE ~Blocked(d)
  BY <1>1 DEF InStop
<1>2. CASE pc[d] # "services" /\ Blocked(d)
  <2>1. pc[d] = "stopManager" /\ ~CanLock("manager")
    BY <1>2 DEF Blocked, InStop
  <2>2. writer["manager"] # Nobody
    BY <2>1 DEF CanLock, LockOwners, ReadOwners
  <2>3. writer["manager"] \in Callers
    BY <2>2 DEF SyncInv, TypeOK
  <2>4. pc[writer["manager"]] = "services"
    BY <2>3 DEF LockOwners, WriteOwners
  <2>5. writer["manager"] = d
    BY <2>3, <2>4, OneInStop DEF InStop
  <2> QED
    BY <2>1, <2>4, <2>5
<1>3. CASE pc[d] = "services" /\ Blocked(d)
  <2>1. stopping \in Services /\ writer[stopping] # d /\ ~CanLock(stopping)
    BY <1>3 DEF Blocked, SyncInv, TypeOK
  <2>2. writer[stopping] = Nobody
    <3> SUFFICES ASSUME writer[stopping] # Nobody PROVE FALSE
      OBVIOUS
    <3>1. writer[stopping] \in Callers /\ pc[writer[stopping]] = "services"
      BY <2>1 DEF SyncInv, TypeOK, LockOwners, WriteOwners
    <3> QED
      BY <2>1, <3>1, OneInStop DEF InStop
  <2>3. stopping = "manual" /\ readers["manual"] # {}
    BY <2>1, <2>2 DEF CanLock, LockOwners, ReadOwners
  <2>4. PICK a \in readers["manual"] : a \in Callers /\ Adding(a)
    BY <2>3 DEF LockOwners, ReadOwners
  <2>5. writer["manager"] # Nobody
    BY <1>3, SyncNodeAssumption DEF LockOwners, WriteOwners
  <2>6. pc[a] # "notify"
    BY <2>3, <2>4, <2>5 DEF Embraced
  <2> QED
    BY <2>4, <2>6 DEF Adding, Blocked
<1> QED
  BY <1>1, <1>2, <1>3

\* Whoever waits for a lock waits because of a caller in Stop.
LEMMA WaitsForStop ==
    ASSUME SyncInv, LockOwners, NEW g \in Goroutines, Blocked(g)
    PROVE  \E d \in Callers : pc[d] \in InStop
<1> USE Names
<1>1. ASSUME NEW l \in Locks, writer[l] # Nobody
      PROVE  \E d \in Callers : pc[d] \in InStop
  <2>1. writer[l] \in Callers
    BY <1>1 DEF SyncInv, TypeOK
  <2>2. pc[writer[l]] \in InStop
    BY <1>1, <2>1 DEF LockOwners, WriteOwners, Locks, InStop
  <2> QED
    BY <2>1, <2>2
<1>2. ASSUME NEW l \in Locks \ {"sync"}, ~CanRLock(l)
      PROVE  \E d \in Callers : pc[d] \in InStop
  <2>1. CASE \E d \in Callers : AwaitsLock(d, l)
    BY <1>2, <2>1 DEF AwaitsLock, InStop
  <2> QED
    BY <1>1, <1>2, <2>1 DEF CanRLock
<1>3. CASE pc[g] \in {"find", "notify", "enter"}
  BY <1>2, <1>3 DEF Blocked
<1>4. CASE pc[g] = "check"
  <2>1. g = Loop
    BY <1>4 DEF SyncInv, TypeOK, CallerSteps, AddSteps, StopSteps, SaverSteps, Goroutines
  <2>2. "dht" \in Locks \ {"sync"}
    BY <1>4, <2>1 DEF LockOwners, LoopHasService
  <2> QED
    BY <1>2, <1>4, <2>2 DEF Blocked
<1>5. CASE pc[g] = "stop"
  <2>1. writer["sync"] # Nobody
    BY <1>5 DEF Blocked, CanLock, LockOwners, ReadOwners
  <2> QED
    BY <1>1, <2>1
<1>6. CASE pc[g] \in {"stopManager", "services"}
  <2>1. g \in Callers
    BY <1>6 DEF SyncInv, TypeOK, LoopSteps, SaverSteps, Goroutines
  <2> QED
    BY <1>6, <2>1 DEF InStop
<1> QED
  BY <1>3, <1>4, <1>5, <1>6 DEF Blocked

\* However many goroutines and whichever services there are, an AddPeer and a
\* Stop holding each other's locks is the only deadlock the mutexes allow.
THEOREM OneDeadlock == Spec => []OnlyAddAndStopDeadlock
<1>1. SyncInv /\ LockOwners => OnlyAddAndStopDeadlock
  BY WaitsForStop, StopperGoesOn DEF OnlyAddAndStopDeadlock
<1>2. Init => LockOwners
  BY InitOwners
<1>3. SyncInv /\ LockOwners /\ [Next]_vars => LockOwners'
  BY OwnersStep
<1> QED
  BY <1>1, <1>2, <1>3, SyncInvariant, PTL DEF Spec

=============================================================================
