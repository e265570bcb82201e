----------------------------- MODULE PeersFile -----------------------------
(***************************************************************************)
(* internal/sync/node.go and discovery/manager.go: the peers a node knows  *)
(* and the file peers.json, which every process of the user shares: the    *)
(* daemon and each pair command load it when they start, and write it      *)
(* every 5 minutes and in Stop.                                            *)
(*                                                                         *)
(* LoadSyncConfig fixes PersistDiscoveredPeers and AutoReconnectToPeers at *)
(* true.  Of a peer only its ID is kept.  os.WriteFile truncates the file  *)
(* and then writes it, so that a process can die in between and two        *)
(* processes can overlap; a file that is empty or torn is not JSON.        *)
(***************************************************************************)
EXTENDS Naturals

CONSTANTS
    Processes,     \* processes with the same data directory
    Commands,      \* those that call Stop: pair; the daemon is only ever killed
    Peers,
    MaxFailures    \* bound: writes that fail

ASSUME PeersFileAssumption ==
    /\ Commands \subseteq Processes
    /\ MaxFailures \in Nat

\* The callers of savePeers: savePeersRoutine and Node.Stop.
Tasks == {"routine", "stop"}

VARIABLES
    phase,        \* "off", "up" or "stopping" (in Node.Stop)
    peerStore,    \* the keys of Node.peerStore
    at, snapshot, \* where each savePeers is, and the peers it has marshalled
    file,         \* peers.json: "absent", "empty", "torn" or "whole", with peers
    failures,     \* writes that failed so far
    owed          \* history: what a process that has been alone since it
                  \* started found in the file and was not told to remove

saveVars == <<at, snapshot>>
vars == <<phase, peerStore, saveVars, file, failures, owed>>

Whole(S) == [state |-> "whole", peers |-> S]
NotJSON(state) == [state |-> state, peers |-> {}]

Init ==
    /\ phase = [p \in Processes |-> "off"]
    /\ peerStore = [p \in Processes |-> {}]
    /\ at = [p \in Processes |-> [t \in Tasks |-> "idle"]]
    /\ snapshot = [p \in Processes |-> [t \in Tasks |-> {}]]
    /\ file = NotJSON("absent")
    /\ failures = 0
    /\ owed = {}
-----------------------------------------------------------------------------
(***************************************************************************)
(* The peers of a process.                                                 *)
(***************************************************************************)

Alone(p) == \A o \in Processes \ {p} : phase[o] = "off"

\* No file is no peer, and a file that does not parse is only warned about.
LoadDiscoveredPeers == file.peers

\* Node.Start without the load.
StartEmpty(p) ==
    /\ phase[p] = "off"
    /\ phase' = [phase EXCEPT ![p] = "up"]
    /\ peerStore' = [peerStore EXCEPT ![p] = {}]
    /\ owed' = IF Alone(p) THEN LoadDiscoveredPeers ELSE {}
    /\ UNCHANGED <<saveVars, file, failures>>

\* Node.Start, which also dials the loaded peers in the background.
Start(p) ==
    /\ phase[p] = "off"
    /\ phase' = [phase EXCEPT ![p] = "up"]
    /\ peerStore' = [peerStore EXCEPT ![p] = LoadDiscoveredPeers]
    /\ owed' = IF Alone(p) THEN LoadDiscoveredPeers ELSE {}
    /\ UNCHANGED <<saveVars, file, failures>>

\* The discovery callback: a provider of the DHT, or a peer that AddPeer or
\* RequestPairing reached.  It can still come during Stop.
Discover(p, q) ==
    /\ phase[p] # "off"
    /\ q \notin peerStore[p]
    /\ peerStore' = [peerStore EXCEPT ![p] = @ \cup {q}]
    /\ UNCHANGED <<phase, saveVars, file, failures, owed>>

RemovePeer(p, q) ==
    /\ phase[p] # "off"
    /\ q \in peerStore[p]
    /\ peerStore' = [peerStore EXCEPT ![p] = @ \ {q}]
    /\ owed' = owed \ {q}
    /\ UNCHANGED <<phase, saveVars, file, failures>>
-----------------------------------------------------------------------------
(***************************************************************************)
(* Saving.                                                                 *)
(***************************************************************************)

\* savePeers that also skips a map with nothing new in it.
SaveNewPeers(p, t) ==
    /\ at[p][t] = "idle"
    /\ IF peerStore[p] \subseteq file.peers
       THEN UNCHANGED saveVars
       ELSE /\ at' = [at EXCEPT ![p][t] = "marshalled"]
            /\ snapshot' = [snapshot EXCEPT ![p][t] = peerStore[p]]

\* savePeers and SaveDiscoveredPeers up to the write: an empty map is skipped.
savePeers(p, t) ==
    /\ at[p][t] = "idle"
    /\ IF peerStore[p] = {}
       THEN UNCHANGED saveVars
       ELSE /\ at' = [at EXCEPT ![p][t] = "marshalled"]
            /\ snapshot' = [snapshot EXCEPT ![p][t] = peerStore[p]]

\* savePeersRoutine: the 5-minute tick.  The routine outlives the save of Stop.
Tick(p) ==
    /\ phase[p] # "off"
    /\ savePeers(p, "routine")
    /\ UNCHANGED <<phase, peerStore, file, failures, owed>>

\* Node.Stop saves first.
Stop(p) ==
    /\ p \in Commands
    /\ phase[p] = "up"
    /\ phase' = [phase EXCEPT ![p] = "stopping"]
    /\ savePeers(p, "stop")
    /\ UNCHANGED <<peerStore, file, failures, owed>>

\* savePeers returns.
Saved(p, t) ==
    /\ at' = [at EXCEPT ![p][t] = "idle"]
    /\ snapshot' = [snapshot EXCEPT ![p][t] = {}]

\* os.WriteFile opens and truncates.
Truncate(p, t) ==
    /\ at[p][t] = "marshalled"
    /\ at' = [at EXCEPT ![p][t] = "truncated"]
    /\ file' = NotJSON("empty")
    /\ UNCHANGED <<phase, peerStore, snapshot, failures, owed>>

\* It writes from the start.  Over what another writer has put there since, a
\* shorter text leaves the rest of a longer one.
Write(p, t) ==
    /\ at[p][t] = "truncated"
    /\ \/ file' = Whole(snapshot[p][t])
       \/ file.state # "empty" /\ file' = NotJSON("torn")
    /\ Saved(p, t)
    /\ UNCHANGED <<phase, peerStore, failures, owed>>

\* The directory, the opening or the write fails: logged, and tried again at
\* the next tick only.
WriteFails(p, t) ==
    /\ failures < MaxFailures
    /\ failures' = failures + 1
    /\ \/ at[p][t] = "marshalled" /\ UNCHANGED file
       \/ at[p][t] = "truncated" /\ file' = NotJSON("torn")
    /\ Saved(p, t)
    /\ UNCHANGED <<phase, peerStore, owed>>
-----------------------------------------------------------------------------
\* The process is gone, whatever its goroutines were doing.
Gone(p) ==
    /\ phase' = [phase EXCEPT ![p] = "off"]
    /\ peerStore' = [peerStore EXCEPT ![p] = {}]
    /\ at' = [at EXCEPT ![p] = [t \in Tasks |-> "idle"]]
    /\ snapshot' = [snapshot EXCEPT ![p] = [t \in Tasks |-> {}]]
    /\ UNCHANGED <<file, failures, owed>>

\* Stop returns and the command with it.
Return(p) == phase[p] = "stopping" /\ at[p]["stop"] = "idle" /\ Gone(p)

\* A signal: neither the daemon nor a command calls Stop on the way out.
Killed(p) == phase[p] # "off" /\ Gone(p)

Saving(p, t) == Truncate(p, t) \/ Write(p, t)

Next ==
    \E p \in Processes :
        \/ Start(p) \/ Tick(p) \/ Stop(p) \/ Return(p) \/ Killed(p)
        \/ \E q \in Peers : Discover(p, q) \/ RemovePeer(p, q)
        \/ \E t \in Tasks : Saving(p, t) \/ WriteFails(p, t)

\* The ticker ticks, goroutines are scheduled and writes end.
Fairness ==
    \A p \in Processes :
        /\ WF_vars(Tick(p))
        /\ \A t \in Tasks : WF_vars(Saving(p, t))

Spec == Init /\ [][Next]_vars /\ Fairness
-----------------------------------------------------------------------------
(***************************************************************************)
(* Properties.                                                             *)
(***************************************************************************)

\* As long as no other process runs beside it, whatever is killed, fails or
\* overlaps, a process does not make the file forget a peer that it found
\* there, unless it was told to remove it.
SoleKeepsPeers == file.state = "whole" => owed \subseteq file.peers

\* When the peers of the only process no longer change, the file comes to hold
\* exactly them, additions and removals, even if it was torn and whatever
\* writes failed; but an empty map is never saved.
FileCatchesUp ==
    \A p \in Processes : \A S \in SUBSET Peers \ {{}} :
        <>[](phase[p] = "up" /\ Alone(p) /\ peerStore[p] = S) => []<>(file = Whole(S))

\* No process overwrites a peer of the file that some process still knows with
\* a list that lacks it (sync/README.md: "Automatically reconnects to previously
\* discovered peers").
PeersRemembered ==
    [][\A p \in Processes, t \in Tasks : Truncate(p, t) =>
         \A q \in file.peers \ snapshot[p][t], o \in Processes : q \notin peerStore[o]]_vars

=============================================================================
