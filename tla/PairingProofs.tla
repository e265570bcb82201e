--------------------------- MODULE PairingProofs ---------------------------
(***************************************************************************)
(* What Pairing promises, for any number of peers, sessions and exchanges. *)
(*                                                                         *)
(* ListedByConsent and RequesterSeesTruth are not inductive: they say      *)
(* nothing of an exchange whose response is still on its way.  PairingInv  *)
(* adds what the responder has already done by then (Recorded) and that    *)
(* only an opened exchange has ends (Linked).                              *)
(***************************************************************************)
EXTENDS Pairing, TLAPS

\* An exchange has both its ends from the moment it is opened, and nothing
\* happens on it before.
Linked ==
    \A x \in Exchanges :
        /\ exchange[x].client # "idle" => /\ exchange[x].from \in Peers
                                          /\ exchange[x].to \in Peers
        /\ exchange[x].client = "idle" => /\ exchange[x].to = NoPeer
                                          /\ exchange[x].server = "idle"
                                          /\ ~exchange[x].granted

\* An accepting response is written, and believed, only after the callback
\* accepted; the acceptance is in the responder's list until the responder
\* removes it or ends.
Recorded ==
    \A x \in Exchanges :
        /\ exchange[x].reply = "accepted" => exchange[x].granted
        /\ exchange[x].server = "recorded" => exchange[x].granted
        /\ exchange[x].client = "paired" => exchange[x].granted
        /\ exchange[x].granted => \/ phase[exchange[x].to] = "gone"
                                  \/ exchange[x].from \in removed[exchange[x].to]
                                  \/ exchange[x].from \in pairedDevices[exchange[x].to]

PairingInv == TypeOK /\ Linked /\ Recorded /\ ListedByConsent
-----------------------------------------------------------------------------
\* The initial state satisfies the invariant: no exchange is open.
LEMMA InitPairing == Init => PairingInv
<1> SUFFICES ASSUME Init PROVE PairingInv
  OBVIOUS
<1> USE PairingAssumption DEF Init
<1>1. exchange \in [Exchanges -> Exchange]
  BY DEF Exchange
<1>2. TypeOK
  <2>1. /\ phase \in [Peers -> {"new", "up", "stopping", "gone"}]
        /\ pairingTimeout \in [Peers -> {"none", "armed", "fired"}]
        /\ pairedDevices \in [Peers -> SUBSET Peers]
        /\ removed \in [Peers -> SUBSET Peers]
    OBVIOUS
  <2>2. /\ pairingEnabled \in [Peers -> BOOLEAN]
        /\ incomingHandler \in [Peers -> BOOLEAN]
        /\ \A p \in Peers : ~pairingEnabled[p]
    OBVIOUS
  <2>3. lateTimers \in [Peers -> Nat] /\ sessions \in 0..MaxSessions
    OBVIOUS
  <2> QED
    BY <1>1, <2>1, <2>2, <2>3 DEF TypeOK
<1>3. Linked /\ Recorded /\ ListedByConsent
  BY DEF Linked, Recorded, ListedByConsent
<1> QED
  BY <1>2, <1>3 DEF PairingInv

\* Entering, leaving and timing out of pairing mode, and starting and stopping
\* a manager, touch no list and no exchange.
LEMMA SessionStep ==
    ASSUME PairingInv, NEW p \in Peers,
           \/ Start(p) \/ EnablePairing(p) \/ DisablePairing(p)
           \/ TimerFires(p) \/ TimerDisables(p) \/ Stop(p)
    PROVE  PairingInv'
<1> USE PairingAssumption
<1>1. /\ UNCHANGED <<pairedDevices, removed, exchange>>
      /\ \A q \in Peers : phase[q] = "gone" => phase'[q] = "gone"
  BY DEF PairingInv, TypeOK, Start, EnablePairing, DisablePairing, TimerFires,
         TimerDisables, Stop
<1>2. TypeOK'
  <2> USE DEF PairingInv, TypeOK
  <2>1. CASE Start(p)
    BY <2>1 DEF Start, session
  <2>2. CASE EnablePairing(p)
    BY <2>2 DEF EnablePairing
  <2>3. CASE DisablePairing(p)
    BY <2>3 DEF DisablePairing, LeavePairingMode
  <2>4. CASE TimerFires(p)
    BY <2>4 DEF TimerFires
  <2>5. CASE TimerDisables(p)
    <3>1. lateTimers' \in [Peers -> Nat]
      BY <2>5 DEF TimerDisables
    <3>2. \A r \in Peers \ {p} : lateTimers'[r] = lateTimers[r]
      BY <2>5 DEF TimerDisables
    <3>3. ~pairingEnabled'[p] /\ pairingEnabled' \in [Peers -> BOOLEAN]
      BY <2>5 DEF TimerDisables, LeavePairingMode
    <3>4. \A r \in Peers \ {p} : /\ pairingEnabled'[r] = pairingEnabled[r]
                                  /\ incomingHandler'[r] = incomingHandler[r]
                                  /\ pairingTimeout'[r] = pairingTimeout[r]
      BY <2>5 DEF TimerDisables, LeavePairingMode
    <3>5. /\ incomingHandler' \in [Peers -> BOOLEAN]
          /\ pairingTimeout' \in [Peers -> {"none", "armed", "fired"}]
      BY <2>5 DEF TimerDisables, LeavePairingMode
    <3>6. UNCHANGED <<phase, sessions, pairedDevices, removed, exchange>>
      BY <2>5 DEF TimerDisables
    <3> QED
      BY <3>1, <3>2, <3>3, <3>4, <3>5, <3>6
  <2>6. CASE Stop(p)
    BY <2>6 DEF Stop
  <2> QED
    BY <2>1, <2>2, <2>3, <2>4, <2>5, <2>6
<1>3. Linked'
  BY <1>1 DEF PairingInv, Linked
<1>4. Recorded'
  BY <1>1 DEF PairingInv, Linked, Recorded
<1>5. ListedByConsent'
  BY <1>1 DEF PairingInv, ListedByConsent
<1> QED
  BY <1>2, <1>3, <1>4, <1>5 DEF PairingInv

\* Consent outlives a step that lists nobody new and takes no grant back.
LEMMA ConsentKept ==
    ASSUME ListedByConsent,
           \A r \in Peers : pairedDevices'[r] \subseteq pairedDevices[r],
           \A y \in Exchanges : exchange[y].granted =>
               /\ exchange'[y].granted
               /\ exchange'[y].from = exchange[y].from
               /\ exchange'[y].to = exchange[y].to
    PROVE  ListedByConsent'
<1> SUFFICES ASSUME NEW r \in Peers, NEW s \in pairedDevices'[r]
             PROVE  \E y \in Exchanges :
                       /\ exchange'[y].granted
                       /\ {exchange'[y].from, exchange'[y].to} = {r, s}
  BY DEF ListedByConsent
<1>1. PICK y \in Exchanges : /\ exchange[y].granted
                             /\ {exchange[y].from, exchange[y].to} = {r, s}
  BY DEF ListedByConsent
<1>2. {exchange'[y].from, exchange'[y].to} = {r, s}
  BY <1>1
<1> QED
  BY <1>1, <1>2

\* Removing a device moves it from one set to the other.
LEMMA RemoveStep ==
    ASSUME PairingInv, NEW p \in Peers, NEW q \in Peers,
           RemovePairedDevice(p, q)
    PROVE  PairingInv'
<1> USE PairingAssumption DEF RemovePairedDevice, session
<1>1. TypeOK'
  BY DEF PairingInv, TypeOK
<1>2. Linked'
  BY DEF PairingInv, Linked
<1>3. Recorded'
  BY DEF PairingInv, TypeOK, Linked, Recorded
<1>4. ListedByConsent'
  BY DEF PairingInv, TypeOK, ListedByConsent
<1> QED
  BY <1>1, <1>2, <1>3, <1>4 DEF PairingInv

\* The end of a process changes no end, reply or acceptance of an exchange.
LEMMA EndStep ==
    ASSUME PairingInv, NEW p \in Peers, ProcessEnds(p)
    PROVE  PairingInv'
<1> USE PairingAssumption DEF ProcessEnds
<1>0. ASSUME NEW e \in Exchange
      PROVE  /\ Ends(p, e) \in Exchange
             /\ Ends(p, e).from = e.from
             /\ Ends(p, e).to = e.to
             /\ Ends(p, e).reply = e.reply
             /\ Ends(p, e).granted = e.granted
             /\ Ends(p, e).client # e.client
                  => e.client = "waiting" /\ Ends(p, e).client = "failed"
             /\ Ends(p, e).server # e.server
                  => Ends(p, e).server = "closed" /\ e.to = p
  BY DEF Exchange, Ends
<1>1. \A x \in Exchanges :
         /\ exchange[x] \in Exchange
         /\ exchange'[x] \in Exchange
         /\ exchange'[x].from = exchange[x].from
         /\ exchange'[x].to = exchange[x].to
         /\ exchange'[x].reply = exchange[x].reply
         /\ exchange'[x].granted = exchange[x].granted
         /\ exchange'[x].client # exchange[x].client
              => exchange[x].client = "waiting" /\ exchange'[x].client = "failed"
         /\ exchange'[x].server # exchange[x].server
              => exchange'[x].server = "closed" /\ exchange[x].to = p
  BY <1>0 DEF PairingInv, TypeOK
<1>2. TypeOK'
  BY <1>1 DEF PairingInv, TypeOK
<1>3. Linked'
  BY <1>1 DEF PairingInv, Linked
<1>4. Recorded'
  BY <1>1 DEF PairingInv, TypeOK, Linked, Recorded
<1>5. \A r \in Peers : pairedDevices'[r] \subseteq pairedDevices[r]
  BY DEF PairingInv, TypeOK
<1>6. ListedByConsent'
  BY <1>1, <1>5, ConsentKept DEF PairingInv
<1> QED
  BY <1>2, <1>3, <1>4, <1>6 DEF PairingInv

\* Opening an exchange gives it its ends.
LEMMA OpenStep ==
    ASSUME PairingInv, NEW p \in Peers, NEW q \in Peers, NEW x \in Exchanges,
           RequestPairing(p, q, x)
    PROVE  PairingInv'
<1> USE PairingAssumption DEF RequestPairing, session
<1>1. /\ exchange[x] \in Exchange
      /\ exchange'[x] \in Exchange
      /\ exchange'[x].from = p /\ exchange'[x].to = q
      /\ exchange'[x].client = "waiting" /\ exchange'[x].server = "opened"
      /\ exchange'[x].reply = exchange[x].reply
      /\ exchange'[x].granted = exchange[x].granted
  BY DEF PairingInv, TypeOK, Exchange
<1>2. \A y \in Exchanges \ {x} : exchange'[y] = exchange[y]
  BY DEF PairingInv, TypeOK
<1>3. exchange' \in [Exchanges -> Exchange]
  BY <1>1, <1>2 DEF PairingInv, TypeOK
<1>4. ~exchange[x].granted
  BY DEF PairingInv, Linked
<1>5. TypeOK'
  BY <1>3 DEF PairingInv, TypeOK
<1>6. Linked'
  <2> HIDE DEF RequestPairing
  <2> SUFFICES ASSUME NEW y \in Exchanges
               PROVE  /\ exchange'[y].client # "idle" =>
                            exchange'[y].from \in Peers /\ exchange'[y].to \in Peers
                      /\ exchange'[y].client = "idle" =>
                            /\ exchange'[y].to = NoPeer
                            /\ exchange'[y].server = "idle"
                            /\ ~exchange'[y].granted
    BY DEF Linked
  <2>1. CASE y = x
    BY <1>1, <2>1
  <2>2. CASE y # x
    BY <1>2, <2>2 DEF PairingInv, Linked
  <2> QED
    BY <2>1, <2>2
<1>7. Recorded'
  BY <1>1, <1>2, <1>4 DEF PairingInv, Recorded
<1>8. ListedByConsent'
  BY <1>2, <1>4, ConsentKept DEF PairingInv
<1> QED
  BY <1>5, <1>6, <1>7, <1>8 DEF PairingInv

\* A step of exchange x that records nothing: no end is changed, and no reply
\* or outcome claims an acceptance that was not given.
LEMMA QuietStep ==
    ASSUME PairingInv, NEW x \in Exchanges,
           UNCHANGED <<phase, session, pairedDevices, removed>>,
           NEW e \in Exchange, exchange' = [exchange EXCEPT ![x] = e],
           exchange[x].client # "idle",
           e.from = exchange[x].from, e.to = exchange[x].to,
           e.client # "idle", e.granted = exchange[x].granted,
           e.reply = "accepted" => exchange[x].granted,
           e.server = "recorded" => exchange[x].granted,
           e.client = "paired" => exchange[x].granted
    PROVE  PairingInv'
<1> USE PairingAssumption DEF session
<1>1. exchange'[x] = e /\ \A y \in Exchanges \ {x} : exchange'[y] = exchange[y]
  BY DEF PairingInv, TypeOK
<1>2. TypeOK'
  BY DEF PairingInv, TypeOK
<1>3. Linked'
  BY <1>1 DEF PairingInv, Linked
<1>4. Recorded'
  BY <1>1 DEF PairingInv, Recorded
<1>5. ListedByConsent'
  BY <1>1 DEF PairingInv, ListedByConsent
<1> QED
  BY <1>2, <1>3, <1>4, <1>5 DEF PairingInv

\* The steps that move an exchange along without recording a device.
LEMMA HandshakeStep ==
    ASSUME PairingInv, NEW x \in Exchanges,
           \/ CheckEnabled(x) \/ CallHandler(x) \/ ReadRequestFails(x)
           \/ Reject(x) \/ SendResponse(x) \/ ReadResponseFails(x)
           \/ ConnectionLost(x)
    PROVE  PairingInv'
<1> DEFINE e == exchange'[x]
<1>1. exchange[x] \in Exchange
  BY DEF PairingInv, TypeOK
<1>2. /\ UNCHANGED <<phase, session, pairedDevices, removed>>
      /\ e \in Exchange
      /\ exchange' = [exchange EXCEPT ![x] = e]
      /\ e.from = exchange[x].from /\ e.to = exchange[x].to
      /\ e.granted = exchange[x].granted
      /\ e.client = exchange[x].client \/ e.client = "failed"
      /\ e.reply = exchange[x].reply \/ e.reply = "refused"
           \/ exchange[x].server = "recorded"
      /\ e.server = exchange[x].server \/ e.server # "recorded"
      /\ exchange[x].server # "idle" \/ exchange[x].client = "waiting"
  <2> USE <1>1 DEF PairingInv, TypeOK, Exchange
  <2>1. CASE CheckEnabled(x)
    BY <2>1 DEF CheckEnabled
  <2>2. CASE CallHandler(x)
    BY <2>2 DEF CallHandler
  <2>3. CASE ReadRequestFails(x)
    BY <2>3 DEF ReadRequestFails
  <2>4. CASE Reject(x)
    BY <2>4 DEF Reject
  <2>5. CASE SendResponse(x)
    BY <2>5 DEF SendResponse
  <2>6. CASE ReadResponseFails(x)
    BY <2>6 DEF ReadResponseFails
  <2>7. CASE ConnectionLost(x)
    BY <2>7 DEF ConnectionLost
  <2> QED
    BY <2>1, <2>2, <2>3, <2>4, <2>5, <2>6, <2>7
<1> HIDE DEF e
<1>3. exchange[x].client # "idle" /\ e.client # "idle"
  BY <1>2 DEF PairingInv, Linked
<1>4. /\ e.reply = "accepted" => exchange[x].granted
      /\ e.server = "recorded" => exchange[x].granted
      /\ e.client = "paired" => exchange[x].granted
  BY <1>2 DEF PairingInv, Recorded
<1> QED
  BY <1>2, <1>3, <1>4, QuietStep

\* The responder records the requester in the step that grants the exchange.
LEMMA AcceptStep ==
    ASSUME PairingInv, NEW x \in Exchanges, Accept(x)
    PROVE  PairingInv'
<1> USE PairingAssumption DEF Accept, session, Running
<1> DEFINE p == exchange[x].from
           q == exchange[x].to
<1>1. exchange[x] \in Exchange /\ p \in Peers /\ q \in Peers
  BY DEF PairingInv, TypeOK, Linked
<1>2. /\ exchange'[x] \in Exchange
      /\ exchange'[x].from = p /\ exchange'[x].to = q
      /\ exchange'[x].client = exchange[x].client
      /\ exchange'[x].granted
  BY <1>1 DEF PairingInv, TypeOK, Exchange
<1>3. \A y \in Exchanges \ {x} : exchange'[y] = exchange[y]
  BY DEF PairingInv, TypeOK
<1>4. exchange' \in [Exchanges -> Exchange]
  BY <1>2, <1>3 DEF PairingInv, TypeOK
<1>5. /\ pairedDevices'[q] = pairedDevices[q] \cup {p}
      /\ removed'[q] = removed[q] \ {p}
      /\ \A r \in Peers \ {q} : /\ pairedDevices'[r] = pairedDevices[r]
                                /\ removed'[r] = removed[r]
  BY <1>1 DEF PairingInv, TypeOK
<1>6. TypeOK'
  BY <1>1, <1>4 DEF PairingInv, TypeOK
<1>7. exchange[x].client # "idle"
  BY DEF PairingInv, Linked
<1>8. Linked'
  BY <1>1, <1>2, <1>3, <1>7 DEF PairingInv, Linked
<1> HIDE DEF p, q
<1>9. Recorded'
  <2> SUFFICES ASSUME NEW y \in Exchanges
               PROVE  /\ exchange'[y].reply = "accepted" => exchange'[y].granted
                      /\ exchange'[y].server = "recorded" => exchange'[y].granted
                      /\ exchange'[y].client = "paired" => exchange'[y].granted
                      /\ exchange'[y].granted =>
                           \/ phase'[exchange'[y].to] = "gone"
                           \/ exchange'[y].from \in removed'[exchange'[y].to]
                           \/ exchange'[y].from \in pairedDevices'[exchange'[y].to]
    BY DEF Recorded
  <2>1. CASE y = x
    BY <2>1, <1>1, <1>2, <1>5
  <2>2. CASE y # x
    <3>1. exchange'[y] = exchange[y] /\ phase' = phase
      BY <2>2, <1>3
    <3>2. exchange[y].granted => exchange[y].to \in Peers
      BY DEF PairingInv, Linked
    <3> QED
      BY <3>1, <3>2, <1>1, <1>5 DEF PairingInv, Recorded
  <2> QED
    BY <2>1, <2>2
<1>10. ListedByConsent'
  <2> SUFFICES ASSUME NEW r \in Peers, NEW s \in pairedDevices'[r]
               PROVE  \E y \in Exchanges :
                         /\ exchange'[y].granted
                         /\ {exchange'[y].from, exchange'[y].to} = {r, s}
    BY DEF ListedByConsent
  <2>1. CASE r = q /\ s = p
    BY <2>1, <1>2
  <2>2. CASE s \in pairedDevices[r]
    <3>1. PICK y \in Exchanges : /\ exchange[y].granted
                                 /\ {exchange[y].from, exchange[y].to} = {r, s}
      BY <2>2 DEF PairingInv, ListedByConsent
    <3>2. /\ exchange'[y].granted
          /\ {exchange'[y].from, exchange'[y].to} = {r, s}
      BY <3>1, <1>2, <1>3 DEF p, q
    <3> QED
      BY <3>2
  <2> QED
    BY <2>1, <2>2, <1>1, <1>5
<1> QED
  BY <1>6, <1>8, <1>9, <1>10 DEF PairingInv

\* The requester records the responder only on an accepting response, which
\* the responder has granted.
LEMMA ReceiveStep ==
    ASSUME PairingInv, NEW x \in Exchanges, ReceiveResponse(x)
    PROVE  PairingInv'
<1> USE PairingAssumption DEF ReceiveResponse, session
<1> DEFINE p == exchange[x].from
           q == exchange[x].to
<1>1. exchange[x] \in Exchange /\ p \in Peers /\ q \in Peers
  BY DEF PairingInv, TypeOK, Linked
<1>2. CASE exchange[x].reply # "accepted"
  <2> DEFINE e == [exchange[x] EXCEPT !.client = "refused"]
  <2>1. e \in Exchange /\ exchange' = [exchange EXCEPT ![x] = e]
    BY <1>1, <1>2 DEF PairingInv, TypeOK, Exchange
  <2>2. /\ e.from = exchange[x].from /\ e.to = exchange[x].to
        /\ e.client = "refused" /\ e.granted = exchange[x].granted
        /\ e.reply = exchange[x].reply /\ e.server = exchange[x].server
    BY <1>1 DEF Exchange
  <2>3. e.server = "recorded" => exchange[x].granted
    BY <2>2 DEF PairingInv, Recorded
  <2>4. UNCHANGED <<phase, session, pairedDevices, removed>>
    BY <1>2
  <2> HIDE DEF e
  <2> QED
    BY <1>2, <2>1, <2>2, <2>3, <2>4, QuietStep
<1>3. CASE exchange[x].reply = "accepted"
  <2>1. exchange[x].granted
    BY <1>3 DEF PairingInv, Recorded
  <2>2. /\ exchange'[x] \in Exchange
        /\ exchange'[x].from = p /\ exchange'[x].to = q
        /\ exchange'[x].client = "paired"
        /\ exchange'[x].granted
    BY <1>1, <1>3, <2>1 DEF PairingInv, TypeOK, Exchange
  <2>3. \A y \in Exchanges \ {x} : exchange'[y] = exchange[y]
    BY <1>3 DEF PairingInv, TypeOK
  <2>4. exchange' \in [Exchanges -> Exchange]
    BY <1>3, <2>2, <2>3 DEF PairingInv, TypeOK
  <2>5. /\ phase' = phase
        /\ pairedDevices'[p] = pairedDevices[p] \cup {q}
        /\ removed'[p] = removed[p] \ {q}
        /\ \A r \in Peers \ {p} : /\ pairedDevices'[r] = pairedDevices[r]
                                  /\ removed'[r] = removed[r]
    BY <1>1, <1>3 DEF PairingInv, TypeOK
  <2>6. TypeOK'
    BY <1>1, <1>3, <2>4 DEF PairingInv, TypeOK
  <2>7. Linked'
    BY <1>1, <2>2, <2>3 DEF PairingInv, Linked
  <2> HIDE DEF p, q
  <2>8. Recorded'
    <3> SUFFICES ASSUME NEW y \in Exchanges
                 PROVE  /\ exchange'[y].reply = "accepted" => exchange'[y].granted
                        /\ exchange'[y].server = "recorded" => exchange'[y].granted
                        /\ exchange'[y].client = "paired" => exchange'[y].granted
                        /\ exchange'[y].granted =>
                             \/ phase'[exchange'[y].to] = "gone"
                             \/ exchange'[y].from \in removed'[exchange'[y].to]
                             \/ exchange'[y].from \in pairedDevices'[exchange'[y].to]
      BY DEF Recorded
    <3>1. exchange'[y].granted => exchange[y].granted
      BY <2>1, <2>2, <2>3
    <3>2. exchange'[y].from = exchange[y].from /\ exchange'[y].to = exchange[y].to
      BY <2>2, <2>3 DEF p, q
    <3>3. exchange[y].granted =>
             /\ exchange[y].to \in Peers
             /\ \/ phase[exchange[y].to] = "gone"
                \/ exchange[y].from \in removed[exchange[y].to]
                \/ exchange[y].from \in pairedDevices[exchange[y].to]
      BY DEF PairingInv, Linked, Recorded
    <3>4. exchange'[y].granted =>
             \/ phase'[exchange'[y].to] = "gone"
             \/ exchange'[y].from \in removed'[exchange'[y].to]
             \/ exchange'[y].from \in pairedDevices'[exchange'[y].to]
      BY <3>1, <3>2, <3>3, <2>5, <1>1
    <3>5. \/ exchange'[y].granted
          \/ exchange'[y] = exchange[y]
      BY <2>2, <2>3
    <3> QED
      BY <3>4, <3>5 DEF PairingInv, Recorded
  <2>9. ListedByConsent'
    <3> SUFFICES ASSUME NEW r \in Peers, NEW s \in pairedDevices'[r]
                 PROVE  \E y \in Exchanges :
                           /\ exchange'[y].granted
                           /\ {exchange'[y].from, exchange'[y].to} = {r, s}
      BY DEF ListedByConsent
    <3>1. CASE r = p /\ s = q
      BY <3>1, <2>2
    <3>2. CASE s \in pairedDevices[r]
      <4>1. PICK y \in Exchanges : /\ exchange[y].granted
                                   /\ {exchange[y].from, exchange[y].to} = {r, s}
        BY <3>2 DEF PairingInv, ListedByConsent
      <4>2. /\ exchange'[y].granted
            /\ {exchange'[y].from, exchange'[y].to} = {r, s}
        BY <4>1, <2>2, <2>3 DEF p, q
      <4> QED
        BY <4>2
    <3> QED
      BY <3>1, <3>2, <1>1, <2>5
  <2> QED
    BY <2>6, <2>7, <2>8, <2>9 DEF PairingInv
<1> QED
  BY <1>2, <1>3
-----------------------------------------------------------------------------
\* No step leaves the invariant.
LEMMA PairingStep == PairingInv /\ [Next]_vars => PairingInv'
<1> SUFFICES ASSUME PairingInv, [Next]_vars PROVE PairingInv'
  OBVIOUS
<1>1. CASE UNCHANGED vars
  <2>1. UNCHANGED <<phase, pairingEnabled, incomingHandler, pairingTimeout,
                    lateTimers, sessions, pairedDevices, removed, exchange>>
    BY <1>1 DEF vars, session
  <2>2. TypeOK'
    BY <2>1 DEF PairingInv, TypeOK
  <2>3. Linked'
    BY <2>1 DEF PairingInv, Linked
  <2>4. Recorded'
    BY <2>1 DEF PairingInv, Recorded
  <2>5. ListedByConsent'
    BY <2>1 DEF PairingInv, ListedByConsent
  <2> QED
    BY <2>2, <2>3, <2>4, <2>5 DEF PairingInv
<1>2. ASSUME NEW p \in Peers, Application(p) \/ Timer(p) PROVE PairingInv'
  <2>1. CASE Exit(p)
    BY <2>1, EndStep DEF Exit
  <2>2. CASE \E q \in Peers : RemovePairedDevice(p, q)
    BY <2>2, RemoveStep
  <2>3. CASE \E q \in Peers, x \in Exchanges : RequestPairing(p, q, x)
    BY <2>3, OpenStep
  <2>4. CASE \/ Start(p) \/ EnablePairing(p) \/ DisablePairing(p)
             \/ TimerFires(p) \/ TimerDisables(p) \/ Stop(p)
    BY <2>4, SessionStep
  <2> QED
    BY <1>2, <2>1, <2>2, <2>3, <2>4 DEF Application, Timer
<1>3. ASSUME NEW x \in Exchanges,
             \/ Handler(x) \/ Requester(x) \/ Accept(x) \/ Reject(x)
             \/ ReadRequestFails(x) \/ ConnectionLost(x)
      PROVE  PairingInv'
  <2>1. CASE CallNilHandler(x)
    BY <2>1, EndStep DEF CallNilHandler, Running
  <2>2. CASE Accept(x)
    BY <2>2, AcceptStep
  <2>3. CASE ReceiveResponse(x)
    BY <2>3, ReceiveStep
  <2>4. CASE \/ CheckEnabled(x) \/ CallHandler(x) \/ ReadRequestFails(x)
             \/ Reject(x) \/ SendResponse(x) \/ ReadResponseFails(x)
             \/ ConnectionLost(x)
    BY <2>4, HandshakeStep
  <2> QED
    BY <1>3, <2>1, <2>2, <2>3, <2>4 DEF Handler, Requester
<1> QED
  BY <1>1, <1>2, <1>3 DEF Next

\* Every reachable state satisfies the invariant.
THEOREM PairingInvariant == Spec => []PairingInv
BY InitPairing, PairingStep, PTL DEF Spec

\* The variables keep their types, and a peer in pairing mode always has its
\* handler and a timer that will end the mode, for any number of sessions.
THEOREM PairingTypes == Spec => []TypeOK
<1>1. PairingInv => TypeOK
  BY DEF PairingInv
<1> QED
  BY <1>1, PairingInvariant, PTL

\* pairedDevices holds only devices whose pairing a callback accepted.
THEOREM Consent == Spec => []ListedByConsent
<1>1. PairingInv => ListedByConsent
  BY DEF PairingInv
<1> QED
  BY <1>1, PairingInvariant, PTL

\* A requester that reports success is in the responder's list, unless it was
\* removed or the responder ended.
THEOREM SuccessIsTrue == Spec => []RequesterSeesTruth
<1>1. PairingInv => RequesterSeesTruth
  BY DEF PairingInv, Recorded, RequesterSeesTruth
<1> QED
  BY <1>1, PairingInvariant, PTL

=============================================================================
