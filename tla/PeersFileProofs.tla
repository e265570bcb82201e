-------------------------- MODULE PeersFileProofs --------------------------
(***************************************************************************)
(* What PeersFile promises, for any number of processes, peers and failed  *)
(* writes.                                                                 *)
(*                                                                         *)
(* SoleKeepsPeers is about the file alone and is not inductive: what will  *)
(* be written next decides it.  PeersInv adds that what a process found in *)
(* the file is in its map and in every list it is about to write (Carried) *)
(* and that a process that is gone writes nothing (NoGhosts).              *)
(***************************************************************************)
EXTENDS PeersFile, TLAPS

\* The state is of its types, and a file that does not parse yields no peers.
TypeOK ==
    /\ phase \in [Processes -> {"off", "up", "stopping"}]
    /\ peerStore \in [Processes -> SUBSET Peers]
    /\ at \in [Processes -> [Tasks -> {"idle", "marshalled", "truncated"}]]
    /\ snapshot \in [Processes -> [Tasks -> SUBSET Peers]]
    /\ file \in [state : {"absent", "empty", "torn", "whole"}, peers : SUBSET Peers]
    /\ file.state # "whole" => file.peers = {}
    /\ failures \in 0..MaxFailures
    /\ owed \subseteq Peers

\* The peers that must survive are in the map of every process that runs and
\* in every snapshot on its way to the file.
Carried ==
    \A p \in Processes :
        /\ phase[p] # "off" => owed \subseteq peerStore[p]
        /\ \A t \in Tasks : at[p][t] # "idle" => owed \subseteq snapshot[p][t]

\* The goroutines of a process end with it.
NoGhosts ==
    \A p \in Processes : phase[p] = "off" => \A t \in Tasks : at[p][t] = "idle"

PeersInv == TypeOK /\ SoleKeepsPeers /\ Carried /\ NoGhosts
-----------------------------------------------------------------------------
\* No process runs and there is no file.
LEMMA InitPeers == Init => PeersInv
<1> SUFFICES ASSUME Init PROVE PeersInv
  OBVIOUS
<1>1. TypeOK
  BY PeersFileAssumption DEF Init, TypeOK, NotJSON
<1>2. SoleKeepsPeers
  BY DEF Init, SoleKeepsPeers
<1>3. Carried /\ NoGhosts
  BY DEF Init, Carried, NoGhosts
<1> QED
  BY <1>1, <1>2, <1>3 DEF PeersInv

\* A process that starts takes over the peers of the file; they become the
\* ones that must survive if it is alone, and otherwise nothing is promised.
LEMMA StartStep ==
    ASSUME PeersInv, NEW p \in Processes, Start(p)
    PROVE  PeersInv'
<1>1. /\ phase' = [phase EXCEPT ![p] = "up"]
      /\ peerStore' = [peerStore EXCEPT ![p] = file.peers]
      /\ UNCHANGED <<at, snapshot, file, failures>>
      /\ phase[p] = "off"
  BY DEF Start, LoadDiscoveredPeers, saveVars
<1>2. (owed' = file.peers /\ Alone(p)) \/ owed' = {}
  BY DEF Start, LoadDiscoveredPeers
<1>3. TypeOK'
  <2>1. file.peers \subseteq Peers
    BY DEF PeersInv, TypeOK
  <2>2. phase' \in [Processes -> {"off", "up", "stopping"}]
    BY <1>1 DEF PeersInv, TypeOK
  <2>3. peerStore' \in [Processes -> SUBSET Peers]
    BY <1>1, <2>1 DEF PeersInv, TypeOK
  <2> QED
    BY <1>1, <1>2, <2>1, <2>2, <2>3 DEF PeersInv, TypeOK
<1>4. SoleKeepsPeers'
  BY <1>1, <1>2 DEF SoleKeepsPeers
<1>5. NoGhosts'
  BY <1>1 DEF PeersInv, TypeOK, NoGhosts
<1>6. Carried'
  <2>1. CASE owed' = {}
    BY <2>1 DEF Carried
  <2>2. CASE owed' = file.peers /\ Alone(p)
    <3>1. \A o \in Processes : o # p => phase[o] = "off"
      BY <2>2 DEF Alone
    <3>2. \A o \in Processes : \A t \in Tasks : at[o][t] = "idle"
      BY <1>1, <3>1 DEF PeersInv, NoGhosts
    <3>3. \A o \in Processes : phase'[o] # "off" => o = p
      BY <1>1, <3>1 DEF PeersInv, TypeOK
    <3>4. owed' \subseteq peerStore'[p]
      BY <1>1, <2>2 DEF PeersInv, TypeOK
    <3> QED
      BY <1>1, <3>2, <3>3, <3>4 DEF Carried
  <2> QED
    BY <1>2, <2>1, <2>2
<1> QED
  BY <1>3, <1>4, <1>5, <1>6 DEF PeersInv

\* A discovered peer only adds to the map, and a removed one is no longer
\* owed.
LEMMA PeerStep ==
    ASSUME PeersInv, NEW p \in Processes, NEW q \in Peers,
           Discover(p, q) \/ RemovePeer(p, q)
    PROVE  PeersInv'
<1>1. UNCHANGED <<phase, at, snapshot, file, failures>>
  BY DEF Discover, RemovePeer, saveVars
<1>2. /\ owed' \subseteq owed
      /\ \A o \in Processes : owed \subseteq peerStore[o] => owed' \subseteq peerStore'[o]
      /\ peerStore' \in [Processes -> SUBSET Peers]
  <2>1. CASE Discover(p, q)
    BY <2>1 DEF Discover, PeersInv, TypeOK
  <2>2. CASE RemovePeer(p, q)
    BY <2>2 DEF RemovePeer, PeersInv, TypeOK
  <2> QED
    BY <2>1, <2>2
<1>3. TypeOK'
  BY <1>1, <1>2 DEF PeersInv, TypeOK
<1>4. SoleKeepsPeers'
  BY <1>1, <1>2 DEF PeersInv, SoleKeepsPeers
<1>5. Carried'
  <2> SUFFICES ASSUME NEW o \in Processes
               PROVE  /\ phase[o] # "off" => owed' \subseteq peerStore'[o]
                      /\ \A t \in Tasks : at[o][t] # "idle" => owed' \subseteq snapshot[o][t]
    BY <1>1 DEF Carried
  <2>1. phase[o] # "off" => owed' \subseteq peerStore'[o]
    BY <1>2 DEF PeersInv, Carried
  <2>2. \A t \in Tasks : at[o][t] # "idle" => owed' \subseteq snapshot[o][t]
    BY <1>2 DEF PeersInv, Carried
  <2> QED
    BY <2>1, <2>2
<1>6. NoGhosts'
  BY <1>1 DEF PeersInv, NoGhosts
<1> QED
  BY <1>3, <1>4, <1>5, <1>6 DEF PeersInv

\* savePeers takes its snapshot of a map that holds what is owed.
LEMMA SaveStep ==
    ASSUME PeersInv, NEW p \in Processes, Tick(p) \/ Stop(p)
    PROVE  PeersInv'
<1>1. PICK t \in Tasks : savePeers(p, t)
  BY DEF Tick, Stop, Tasks
<1>2. /\ UNCHANGED <<peerStore, file, failures, owed>>
      /\ phase[p] # "off"
      /\ phase' \in [Processes -> {"off", "up", "stopping"}]
      /\ \A o \in Processes : phase'[o] = "off" <=> phase[o] = "off"
  BY DEF Tick, Stop, PeersInv, TypeOK
<1>3. CASE UNCHANGED saveVars
  <2>1. TypeOK'
    BY <1>2, <1>3 DEF PeersInv, TypeOK, saveVars
  <2>2. SoleKeepsPeers' /\ Carried' /\ NoGhosts'
    BY <1>2, <1>3 DEF PeersInv, SoleKeepsPeers, Carried, NoGhosts, saveVars
  <2> QED
    BY <2>1, <2>2 DEF PeersInv
<1>4. CASE /\ at' = [at EXCEPT ![p][t] = "marshalled"]
           /\ snapshot' = [snapshot EXCEPT ![p][t] = peerStore[p]]
  <2>1. /\ at' \in [Processes -> [Tasks -> {"idle", "marshalled", "truncated"}]]
        /\ snapshot' \in [Processes -> [Tasks -> SUBSET Peers]]
    BY <1>4 DEF PeersInv, TypeOK
  <2>2. TypeOK'
    BY <1>2, <2>1 DEF PeersInv, TypeOK
  <2>3. snapshot'[p][t] = peerStore[p]
    BY <1>4 DEF PeersInv, TypeOK
  <2>4. \A o \in Processes, u \in Tasks : <<o, u>> # <<p, t>> =>
           at'[o][u] = at[o][u] /\ snapshot'[o][u] = snapshot[o][u]
    BY <1>4 DEF PeersInv, TypeOK
  <2>5. SoleKeepsPeers'
    BY <1>2 DEF PeersInv, SoleKeepsPeers
  <2>6. Carried'
    <3>1. owed \subseteq peerStore[p]
      BY <1>2 DEF PeersInv, Carried
    <3>2. \A o \in Processes, u \in Tasks :
             at'[o][u] # "idle" => owed \subseteq snapshot'[o][u]
      BY <2>3, <2>4, <3>1 DEF PeersInv, Carried
    <3>3. \A o \in Processes : phase'[o] # "off" => owed \subseteq peerStore[o]
      BY <1>2 DEF PeersInv, Carried
    <3> QED
      BY <1>2, <3>2, <3>3 DEF Carried
  <2>7. NoGhosts'
    <3> SUFFICES ASSUME NEW o \in Processes, phase'[o] = "off", NEW u \in Tasks
                 PROVE  at'[o][u] = "idle"
      BY DEF NoGhosts
    <3>1. o # p /\ phase[o] = "off"
      BY <1>2
    <3> QED
      BY <2>4, <3>1 DEF PeersInv, NoGhosts
  <2> QED
    BY <2>2, <2>5, <2>6, <2>7 DEF PeersInv
<1> QED
  BY <1>1, <1>3, <1>4 DEF savePeers

\* Whatever the write does to the file, a whole one is a snapshot.
LEMMA WriteStep ==
    ASSUME PeersInv, NEW p \in Processes, NEW t \in Tasks,
           Saving(p, t) \/ WriteFails(p, t)
    PROVE  PeersInv'
<1>1. UNCHANGED <<phase, peerStore, owed>> /\ at[p][t] # "idle"
  BY DEF Saving, Truncate, Write, WriteFails
<1>2. failures' \in 0..MaxFailures
  BY PeersFileAssumption DEF Saving, Truncate, Write, WriteFails, PeersInv, TypeOK
<1>3. \/ file' = file
      \/ file' \in {NotJSON("empty"), NotJSON("torn")}
      \/ file' = Whole(snapshot[p][t])
  BY DEF Saving, Truncate, Write, WriteFails
<1>4. /\ at' \in [Processes -> [Tasks -> {"idle", "marshalled", "truncated"}]]
      /\ snapshot' \in [Processes -> [Tasks -> SUBSET Peers]]
      /\ \A o \in Processes, u \in Tasks :
            at'[o][u] # "idle" => at[o][u] # "idle" /\ snapshot'[o][u] = snapshot[o][u]
  <2>1. CASE Truncate(p, t)
    BY <2>1 DEF Truncate, PeersInv, TypeOK
  <2>2. CASE Saved(p, t)
    BY <2>2 DEF Saved, PeersInv, TypeOK
  <2> QED
    BY <2>1, <2>2 DEF Saving, Write, WriteFails
<1>5. owed \subseteq snapshot[p][t] /\ snapshot[p][t] \subseteq Peers
  BY <1>1 DEF PeersInv, Carried, TypeOK
<1>6. /\ file' \in [state : {"absent", "empty", "torn", "whole"}, peers : SUBSET Peers]
      /\ file'.state # "whole" => file'.peers = {}
  BY <1>3, <1>5 DEF PeersInv, TypeOK, NotJSON, Whole
<1>7. TypeOK'
  BY <1>1, <1>2, <1>4, <1>6 DEF PeersInv, TypeOK
<1>8. SoleKeepsPeers'
  BY <1>1, <1>3, <1>5 DEF PeersInv, SoleKeepsPeers, NotJSON, Whole
<1>9. Carried'
  BY <1>1, <1>4 DEF PeersInv, Carried
<1>10. NoGhosts'
  BY <1>1, <1>4 DEF PeersInv, NoGhosts
<1> QED
  BY <1>7, <1>8, <1>9, <1>10 DEF PeersInv

\* The end of a process leaves the file as it is, and nothing to write it.
LEMMA GoneStep ==
    ASSUME PeersInv, NEW p \in Processes, Gone(p)
    PROVE  PeersInv'
<1>1. UNCHANGED <<file, failures, owed>>
  BY DEF Gone
<1>2. TypeOK'
  <2>1. /\ phase' \in [Processes -> {"off", "up", "stopping"}]
        /\ peerStore' \in [Processes -> SUBSET Peers]
    BY DEF Gone, PeersInv, TypeOK
  <2>2. /\ at' \in [Processes -> [Tasks -> {"idle", "marshalled", "truncated"}]]
        /\ snapshot' \in [Processes -> [Tasks -> SUBSET Peers]]
    BY DEF Gone, PeersInv, TypeOK
  <2> QED
    BY <1>1, <2>1, <2>2 DEF PeersInv, TypeOK
<1>3. /\ phase'[p] = "off" /\ \A t \in Tasks : at'[p][t] = "idle"
      /\ \A o \in Processes \ {p} : /\ phase'[o] = phase[o]
                                     /\ peerStore'[o] = peerStore[o]
                                     /\ at'[o] = at[o]
                                     /\ snapshot'[o] = snapshot[o]
  BY DEF Gone, PeersInv, TypeOK
<1>4. SoleKeepsPeers'
  BY <1>1 DEF PeersInv, SoleKeepsPeers
<1>5. Carried'
  BY <1>1, <1>3 DEF PeersInv, Carried
<1>6. NoGhosts'
  BY <1>3 DEF PeersInv, NoGhosts
<1> QED
  BY <1>2, <1>4, <1>5, <1>6 DEF PeersInv
-----------------------------------------------------------------------------
\* No step leaves the invariant.
LEMMA PeersStep == PeersInv /\ [Next]_vars => PeersInv'
<1> SUFFICES ASSUME PeersInv, [Next]_vars PROVE PeersInv'
  OBVIOUS
<1>1. CASE UNCHANGED vars
  <2>1. UNCHANGED <<phase, peerStore, at, snapshot, file, failures, owed>>
    BY <1>1 DEF vars, saveVars
  <2>2. TypeOK'
    BY <2>1 DEF PeersInv, TypeOK
  <2>3. SoleKeepsPeers' /\ Carried' /\ NoGhosts'
    BY <2>1 DEF PeersInv, SoleKeepsPeers, Carried, NoGhosts
  <2> QED
    BY <2>2, <2>3 DEF PeersInv
<1>2. CASE Next
  <2>1. PICK p \in Processes :
          \/ Start(p) \/ Tick(p) \/ Stop(p) \/ Return(p) \/ Killed(p)
          \/ \E q \in Peers : Discover(p, q) \/ RemovePeer(p, q)
          \/ \E t \in Tasks : Saving(p, t) \/ WriteFails(p, t)
    BY <1>2 DEF Next
  <2>2. CASE Start(p)
    BY <2>2, StartStep
  <2>3. CASE Tick(p) \/ Stop(p)
    BY <2>3, SaveStep
  <2>4. CASE Return(p) \/ Killed(p)
    BY <2>4, GoneStep DEF Return, Killed
  <2>5. CASE \E q \in Peers : Discover(p, q) \/ RemovePeer(p, q)
    BY <2>5, PeerStep
  <2>6. CASE \E t \in Tasks : Saving(p, t) \/ WriteFails(p, t)
    BY <2>6, WriteStep
  <2> QED
    BY <2>1, <2>2, <2>3, <2>4, <2>5, <2>6
<1> QED
  BY <1>1, <1>2

\* Every reachable state satisfies the invariant.
THEOREM PeersInvariant == Spec => []PeersInv
BY InitPeers, PeersStep, PTL DEF Spec

\* A process that runs alone never makes peers.json forget a peer it found
\* there and was not told to remove, whatever fails or is killed.
THEOREM SoleProcessKeepsPeers == Spec => []SoleKeepsPeers
<1>1. PeersInv => SoleKeepsPeers
  BY DEF PeersInv
<1> QED
  BY <1>1, PeersInvariant, PTL

=============================================================================
