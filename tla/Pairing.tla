------------------------------ MODULE Pairing ------------------------------
(***************************************************************************)
(* internal/sync/pairing.go: the pairing protocol between PairingManagers. *)
(*                                                                         *)
(* A peer is one run of a process that starts the sync manager (the daemon *)
(* or the pair command).  LoadSyncConfig leaves PeerIdentity empty, so     *)
(* each run gets a fresh libp2p identity, and loadPairedDevices is a stub: *)
(* a restarted device is another member of Peers.                          *)
(*                                                                         *)
(* An exchange is one pairing stream.  Its requester runs RequestPairing,  *)
(* its responder runs Handle in a goroutine of its own; the callback that  *)
(* asks the user runs in that goroutine with no lock held.  The paired     *)
(* discovery service starts from the empty list and does nothing; payloads *)
(* other than the verdict (names, verification codes) are left out.        *)
(***************************************************************************)
EXTENDS Integers

CONSTANTS
    Peers,          \* peer IDs
    AutoAccept,     \* peers whose callback accepts without asking
    MaxExchanges,   \* bound: pairing streams that can be opened
    MaxSessions,    \* bound: calls of EnablePairing, by all peers
    NoPeer          \* an exchange end not yet known

ASSUME PairingAssumption ==
    /\ AutoAccept \subseteq Peers
    /\ MaxExchanges \in Nat
    /\ MaxSessions \in Nat
    /\ NoPeer \notin Peers

VARIABLES
    phase,              \* "new", "up", "stopping" (after Stop) or "gone"
    pairingEnabled,     \* PairingManager.pairingEnabled
    incomingHandler,    \* whether incomingHandler is non-nil
    pairingTimeout,     \* the timer: "none", "armed" or "fired"
    lateTimers,         \* timer functions about to call DisablePairing
    pairedDevices,      \* the keys of PairingManager.pairedDevices
    sessions,           \* calls of EnablePairing so far
    removed,            \* history: peers removed and not recorded again
    exchange            \* the pairing streams and both their ends

session == <<pairingEnabled, incomingHandler, pairingTimeout, lateTimers, sessions>>
vars == <<phase, session, pairedDevices, removed, exchange>>

Exchanges == 1..MaxExchanges        \* in the order they are opened

Exchange ==
    [from    : Peers \cup {NoPeer},
     to      : Peers \cup {NoPeer},
     client  : {"idle", "waiting", "paired", "refused", "failed"},
     server  : {"idle", "opened", "checked", "asking", "recorded", "closed"},
     reply   : {"none", "accepted", "refused"},  \* the response sent
     broken  : BOOLEAN,      \* the stream was reset
     granted : BOOLEAN]      \* history: the callback accepted

Init ==
    /\ phase = [p \in Peers |-> "new"]
    /\ pairingEnabled = [p \in Peers |-> FALSE]
    /\ incomingHandler = [p \in Peers |-> FALSE]
    /\ pairingTimeout = [p \in Peers |-> "none"]
    /\ lateTimers = [p \in Peers |-> 0]
    /\ pairedDevices = [p \in Peers |-> {}]
    /\ sessions = 0
    /\ removed = [p \in Peers |-> {}]
    /\ exchange = [x \in Exchanges |->
                    [from |-> NoPeer, to |-> NoPeer,
                     client |-> "idle", server |-> "idle",
                     reply |-> "none", broken |-> FALSE, granted |-> FALSE]]
-----------------------------------------------------------------------------
(***************************************************************************)
(* The life of a manager and of its pairing mode.                          *)
(***************************************************************************)

\* NewPairingManager and ProtocolManager.Start: the stream handler is set.
Start(p) ==
    /\ phase[p] = "new"
    /\ phase' = [phase EXCEPT ![p] = "up"]
    /\ UNCHANGED <<session, pairedDevices, removed, exchange>>

\* Refused when pairing is enabled already.  LoadSyncConfig fixes
\* PairingTimeout at 300 seconds, so a timer is always started.
EnablePairing(p) ==
    /\ phase[p] = "up"
    /\ ~pairingEnabled[p]
    /\ sessions < MaxSessions
    /\ incomingHandler' = [incomingHandler EXCEPT ![p] = TRUE]
    /\ pairingEnabled' = [pairingEnabled EXCEPT ![p] = TRUE]
    /\ pairingTimeout' = [pairingTimeout EXCEPT ![p] = "armed"]
    /\ sessions' = sessions + 1
    /\ UNCHANGED <<phase, lateTimers, pairedDevices, removed, exchange>>

\* A timer stopped without leaving pairing mode.
LeaveTimerOnly(p) ==
    /\ pairingTimeout' = [pairingTimeout EXCEPT ![p] = "none"]
    /\ UNCHANGED <<pairingEnabled, incomingHandler>>

\* The body of DisablePairing, under pairingMutex.
LeavePairingMode(p) ==
    IF pairingEnabled[p]
    THEN /\ pairingTimeout' = [pairingTimeout EXCEPT ![p] = "none"]
         /\ pairingEnabled' = [pairingEnabled EXCEPT ![p] = FALSE]
         /\ incomingHandler' = [incomingHandler EXCEPT ![p] = FALSE]
    ELSE UNCHANGED <<pairingTimeout, pairingEnabled, incomingHandler>>

DisablePairing(p) ==
    /\ phase[p] = "up"
    /\ pairingEnabled[p]
    /\ LeavePairingMode(p)
    /\ UNCHANGED <<phase, lateTimers, sessions, pairedDevices, removed, exchange>>

\* The timer's function starts in a goroutine, where it waits for the mutex;
\* Timer.Stop no longer stops it.
TimerFires(p) ==
    /\ phase[p] \in {"up", "stopping"}
    /\ pairingTimeout[p] = "armed"
    /\ pairingTimeout' = [pairingTimeout EXCEPT ![p] = "fired"]
    /\ lateTimers' = [lateTimers EXCEPT ![p] = @ + 1]
    /\ UNCHANGED <<phase, pairingEnabled, incomingHandler, sessions,
                   pairedDevices, removed, exchange>>

\* A timer function that starts over while a user is being asked.
TimerDefers(p) ==
    /\ phase[p] \in {"up", "stopping"}
    /\ lateTimers[p] > 0
    /\ lateTimers' = [lateTimers EXCEPT ![p] = @ - 1]
    /\ IF pairingEnabled[p] /\ \E x \in Exchanges :
             exchange[x].to = p /\ exchange[x].server = "asking"
       THEN /\ pairingTimeout' = [pairingTimeout EXCEPT ![p] = "armed"]
            /\ UNCHANGED <<pairingEnabled, incomingHandler>>
       ELSE LeavePairingMode(p)
    /\ UNCHANGED <<phase, sessions, pairedDevices, removed, exchange>>

\* It calls DisablePairing, whichever session is on by then.
TimerDisables(p) ==
    /\ phase[p] \in {"up", "stopping"}
    /\ lateTimers[p] > 0
    /\ lateTimers' = [lateTimers EXCEPT ![p] = @ - 1]
    /\ LeavePairingMode(p)
    /\ UNCHANGED <<phase, sessions, pairedDevices, removed, exchange>>

RemovePairedDevice(p, q) ==
    /\ phase[p] = "up"
    /\ q \in pairedDevices[p]
    /\ pairedDevices' = [pairedDevices EXCEPT ![p] = @ \ {q}]
    /\ removed' = [removed EXCEPT ![p] = @ \cup {q}]
    /\ UNCHANGED <<phase, session, exchange>>

pairingInProgress(p) ==
    \E x \in Exchanges : exchange[x].from = p /\ exchange[x].client = "waiting"

\* The commands stop the manager once their own calls have returned.  Stop
\* leaves incomingHandler set, and handlers already running go on.
Stop(p) ==
    /\ phase[p] = "up"
    /\ ~pairingInProgress(p)
    /\ phase' = [phase EXCEPT ![p] = "stopping"]
    /\ pairingEnabled' = [pairingEnabled EXCEPT ![p] = FALSE]
    /\ pairingTimeout' = [pairingTimeout EXCEPT
                            ![p] = IF pairingEnabled[p] THEN "none" ELSE @]
    /\ UNCHANGED <<incomingHandler, lateTimers, sessions, pairedDevices,
                   removed, exchange>>

\* The end of p's process as its exchanges see it: its handlers are over, its
\* request has failed, its streams are reset.
Ends(p, e) ==
    [e EXCEPT !.server = IF e.to = p THEN "closed" ELSE @,
              !.client = IF e.from = p /\ @ = "waiting" THEN "failed" ELSE @,
              !.broken = @ \/ e.from = p \/ e.to = p]

\* All memory is lost.
ProcessEnds(p) ==
    /\ phase' = [phase EXCEPT ![p] = "gone"]
    /\ pairingEnabled' = [pairingEnabled EXCEPT ![p] = FALSE]
    /\ incomingHandler' = [incomingHandler EXCEPT ![p] = FALSE]
    /\ pairingTimeout' = [pairingTimeout EXCEPT ![p] = "none"]
    /\ lateTimers' = [lateTimers EXCEPT ![p] = 0]
    /\ pairedDevices' = [pairedDevices EXCEPT ![p] = {}]
    /\ exchange' = [x \in Exchanges |-> Ends(p, exchange[x])]
    /\ UNCHANGED <<sessions, removed>>

\* The command returns, a signal ends it, or it crashes.
Exit(p) ==
    /\ phase[p] \in {"up", "stopping"}
    /\ ProcessEnds(p)
-----------------------------------------------------------------------------
(***************************************************************************)
(* A pairing exchange.                                                     *)
(***************************************************************************)
Running(p) == p \in Peers /\ phase[p] \in {"up", "stopping"}

\* RequestPairing up to the flushed request: q's address is known, the stream
\* opens (q still has its handler), no other request of p is in progress.  A
\* stream that does not open makes the call return with nothing changed.
RequestPairing(p, q, x) ==
    /\ p # q
    /\ phase[p] = "up" /\ phase[q] = "up"
    /\ ~pairingInProgress(p)
    /\ exchange[x].client = "idle"
    /\ \A y \in 1..(x - 1) : exchange[y].client # "idle"
    /\ exchange' = [exchange EXCEPT ![x].from = p, ![x].to = q,
                                    ![x].client = "waiting",
                                    ![x].server = "opened"]
    /\ UNCHANGED <<phase, session, pairedDevices, removed>>

\* A refusal that is neither sent nor followed by closing the stream.
CheckEnabledUnanswered(x) ==
    /\ Running(exchange[x].to)
    /\ exchange[x].server = "opened"
    /\ exchange' = [exchange EXCEPT
                      ![x].server = IF pairingEnabled[exchange[x].to]
                                    THEN "checked" ELSE "idle"]
    /\ UNCHANGED <<phase, session, pairedDevices, removed>>

\* handlePairingRequest, first step: IsPairingEnabled.
CheckEnabled(x) ==
    /\ Running(exchange[x].to)
    /\ exchange[x].server = "opened"
    /\ IF pairingEnabled[exchange[x].to]
       THEN exchange' = [exchange EXCEPT ![x].server = "checked"]
       ELSE exchange' = [exchange EXCEPT ![x].server = "closed",
                                         ![x].reply = "refused"]
    /\ UNCHANGED <<phase, session, pairedDevices, removed>>

\* The request is read and incomingHandler called, with no lock held.
CallHandler(x) ==
    /\ Running(exchange[x].to)
    /\ exchange[x].server = "checked"
    /\ incomingHandler[exchange[x].to]
    /\ exchange' = [exchange EXCEPT ![x].server = "asking"]
    /\ UNCHANGED <<phase, session, pairedDevices, removed>>

\* Pairing mode was left since the check: a nil function is called, and the
\* panic ends the process.
CallNilHandler(x) ==
    /\ Running(exchange[x].to)
    /\ exchange[x].server = "checked"
    /\ ~incomingHandler[exchange[x].to]
    /\ ProcessEnds(exchange[x].to)

\* The request cannot be read from a stream that was reset.
ReadRequestFails(x) ==
    /\ Running(exchange[x].to)
    /\ exchange[x].server = "checked"
    /\ exchange[x].broken
    /\ exchange' = [exchange EXCEPT ![x].server = "closed"]
    /\ UNCHANGED <<phase, session, pairedDevices, removed>>

\* The response written before the device is recorded.
AcceptUnrecorded(x) ==
    /\ Running(exchange[x].to)
    /\ exchange[x].server = "asking"
    /\ exchange' = [exchange EXCEPT ![x].server = "recorded",
                                    ![x].granted = TRUE]
    /\ UNCHANGED <<phase, session, pairedDevices, removed>>

\* The callback returns true: the requester is recorded.
Accept(x) ==
    /\ Running(exchange[x].to)
    /\ exchange[x].server = "asking"
    /\ pairedDevices' = [pairedDevices EXCEPT
                            ![exchange[x].to] = @ \cup {exchange[x].from}]
    /\ removed' = [removed EXCEPT ![exchange[x].to] = @ \ {exchange[x].from}]
    /\ exchange' = [exchange EXCEPT ![x].server = "recorded",
                                    ![x].granted = TRUE]
    /\ UNCHANGED <<phase, session>>

\* A refusal answered as if it were accepted.
RejectAsAccepted(x) ==
    /\ Running(exchange[x].to)
    /\ exchange[x].to \notin AutoAccept
    /\ exchange[x].server = "asking"
    /\ exchange' = [exchange EXCEPT ![x].server = "closed",
                                    ![x].reply = "accepted"]
    /\ UNCHANGED <<phase, session, pairedDevices, removed>>

\* The callback returns false or an error.
Reject(x) ==
    /\ Running(exchange[x].to)
    /\ exchange[x].to \notin AutoAccept
    /\ exchange[x].server = "asking"
    /\ exchange' = [exchange EXCEPT ![x].server = "closed",
                                    ![x].reply = "refused"]
    /\ UNCHANGED <<phase, session, pairedDevices, removed>>

\* The write of the accepting response; on a reset stream it fails, and the
\* requester stays recorded.
SendResponse(x) ==
    /\ Running(exchange[x].to)
    /\ exchange[x].server = "recorded"
    /\ exchange' = [exchange EXCEPT
                      ![x].server = "closed",
                      ![x].reply = IF exchange[x].broken THEN @ ELSE "accepted"]
    /\ UNCHANGED <<phase, session, pairedDevices, removed>>

\* RequestPairing reads the response, records an accepting peer and returns.
ReceiveResponse(x) ==
    /\ exchange[x].client = "waiting"
    /\ exchange[x].reply # "none"
    /\ IF exchange[x].reply = "accepted"
       THEN /\ exchange' = [exchange EXCEPT ![x].client = "paired"]
            /\ pairedDevices' = [pairedDevices EXCEPT
                                    ![exchange[x].from] = @ \cup {exchange[x].to}]
            /\ removed' = [removed EXCEPT
                              ![exchange[x].from] = @ \ {exchange[x].to}]
       ELSE /\ exchange' = [exchange EXCEPT ![x].client = "refused"]
            /\ UNCHANGED <<pairedDevices, removed>>
    /\ UNCHANGED <<phase, session>>

\* RequestPairing's read ends without a response: the stream was reset, or
\* closed by a handler that wrote none.
ReadResponseFails(x) ==
    /\ exchange[x].client = "waiting"
    /\ \/ exchange[x].broken
       \/ exchange[x].server = "closed" /\ exchange[x].reply = "none"
    /\ exchange' = [exchange EXCEPT ![x].client = "failed"]
    /\ UNCHANGED <<phase, session, pairedDevices, removed>>

\* The network loses the connection under the stream.
ConnectionLost(x) ==
    /\ exchange[x].client = "waiting"
    /\ ~exchange[x].broken
    /\ exchange' = [exchange EXCEPT ![x].broken = TRUE]
    /\ UNCHANGED <<phase, session, pairedDevices, removed>>
-----------------------------------------------------------------------------
Application(p) ==
    \/ Start(p)
    \/ EnablePairing(p)
    \/ DisablePairing(p)
    \/ \E q \in Peers : RemovePairedDevice(p, q)
    \/ \E q \in Peers, x \in Exchanges : RequestPairing(p, q, x)
    \/ Stop(p)
    \/ Exit(p)

Timer(p) == TimerFires(p) \/ TimerDisables(p)

\* The steps of an exchange that wait for no person and no accident.
Handler(x) ==
    \/ CheckEnabled(x)
    \/ CallHandler(x)
    \/ CallNilHandler(x)
    \/ SendResponse(x)
Requester(x) == ReceiveResponse(x) \/ ReadResponseFails(x)

Next ==
    \/ \E p \in Peers : Application(p) \/ Timer(p)
    \/ \E x \in Exchanges :
          \/ Handler(x)
          \/ Requester(x)
          \/ Accept(x)
          \/ Reject(x)
          \/ ReadRequestFails(x)
          \/ ConnectionLost(x)

\* Go runs every goroutine that can run, and timers fire; a callback returns
\* by itself only where nobody is asked.
Fairness ==
    /\ \A p \in Peers : WF_vars(TimerFires(p)) /\ WF_vars(TimerDisables(p))
    /\ \A x \in Exchanges :
          /\ WF_vars(Handler(x))
          /\ WF_vars(Requester(x))
          /\ WF_vars(exchange[x].to \in AutoAccept /\ Accept(x))

Spec == Init /\ [][Next]_vars /\ Fairness
-----------------------------------------------------------------------------
(***************************************************************************)
(* Properties.                                                             *)
(***************************************************************************)

\* Every variable has its type; a peer in pairing mode has its handler and a
\* timer, running or about to end the mode.
TypeOK ==
    /\ phase \in [Peers -> {"new", "up", "stopping", "gone"}]
    /\ pairingEnabled \in [Peers -> BOOLEAN]
    /\ incomingHandler \in [Peers -> BOOLEAN]
    /\ pairingTimeout \in [Peers -> {"none", "armed", "fired"}]
    /\ lateTimers \in [Peers -> Nat]
    /\ pairedDevices \in [Peers -> SUBSET Peers]
    /\ sessions \in 0..MaxSessions
    /\ removed \in [Peers -> SUBSET Peers]
    /\ exchange \in [Exchanges -> Exchange]
    /\ \A p \in Peers :
          pairingEnabled[p] => /\ phase[p] = "up"
                               /\ incomingHandler[p]
                               /\ \/ pairingTimeout[p] = "armed"
                                  \/ lateTimers[p] > 0

\* When RequestPairing reports success, the responder has accepted in that
\* very exchange and lists the requester, unless its process has ended or
\* its user removed the requester since.
RequesterSeesTruth ==
    \A x \in Exchanges :
        exchange[x].client = "paired" =>
            /\ exchange[x].granted
            /\ \/ phase[exchange[x].to] = "gone"
               \/ exchange[x].from \in removed[exchange[x].to]
               \/ exchange[x].from \in pairedDevices[exchange[x].to]

\* A device is listed only after a person (or --auto-accept) let it in: the
\* two devices had an exchange in which the responder's callback accepted.
ListedByConsent ==
    \A p \in Peers : \A q \in pairedDevices[p] :
        \E x \in Exchanges :
            /\ exchange[x].granted
            /\ {exchange[x].from, exchange[x].to} = {p, q}

\* A request to a peer that accepts automatically always returns, though
\* RequestPairing reads its response with no deadline: the responder may
\* disable pairing, stop, panic or exit at any point, or the stream be lost.
RequestEnds ==
    \A x \in Exchanges :
        (exchange[x].client = "waiting" /\ exchange[x].to \in AutoAccept)
            ~> exchange[x].client # "waiting"

\* Pairing mode never outlasts its timer, whatever sessions, stops and late
\* timer functions come in between.
SessionEnds ==
    \A p \in Peers : pairingEnabled[p] ~> ~pairingEnabled[p]

\* A device is recorded only while pairing mode is on (PAIRING.md: timeouts
\* "limit how long your device accepts pairing requests").
AcceptsOnlyWhileEnabled ==
    [][\A x \in Exchanges :
          exchange[x].server = "asking" /\ exchange'[x].server = "recorded"
             => pairingEnabled[exchange[x].to]]_vars

=============================================================================
