------------------------------- MODULE Events -------------------------------
(***************************************************************************)
(* The event bus: events of a provider are emitted on any machine, sent    *)
(* through Postgres NOTIFY, received by the pgListener of every machine    *)
(* and delivered to the WebSockets that its operators hold there.          *)
(*                                                                         *)
(* A machine wires the NOTIFY transport after its listener is subscribed   *)
(* and before anything emits or connects, so the loopback of emit() is not *)
(* part of the running system; neither are emitForChannel and              *)
(* emitForAllPps, which nothing calls.                                     *)
(***************************************************************************)
EXTENDS Naturals, Sequences, FiniteSets, SequencesExt

CONSTANTS Machines,
          Sockets,      \* WebSockets; a closed one stands for the next one of its client
          Pps,
          OwnerOf,      \* operator of each provider
          OperatorOf,   \* operator of the token each socket presents
          MaxEvents,    \* bound on events and foreign notifications
          MaxFaults     \* bound on lost listener connections and on machines that exit

ASSUME EventsAssumption ==
  /\ DOMAIN OwnerOf = Pps /\ DOMAIN OperatorOf = Sockets
  /\ "malformed" \notin Pps   \* stands for a payload that is no event
  /\ MaxEvents \in Nat /\ MaxFaults \in Nat

VARIABLES
  emitted,     \* how many events were emitted
  outbox,      \* emits in progress: how many events of each provider
  log,         \* external: the notifications of the channel in commit order, each by
               \* its provider
  up,          \* machines that serve
  listening,   \* machines whose LISTEN connection is subscribed
  cursor,      \* how much of the log each machine has received or missed
  missed,      \* history: notifications sent while a machine was not listening
  listeners,   \* PgNotifyEventBus.listeners of each machine
  sock,        \* the sockets
  got,         \* history: what was sent over each socket, as positions of the log
  faults

busVars == <<listening, cursor, missed>>
wsVars == <<listeners, sock, got>>
vars == <<emitted, outbox, log, up, busVars, wsVars, faults>>

NoSocket == [state |-> "none", machine |-> "", pp |-> "", since |-> 0]

Init ==
  /\ emitted = 0 /\ log = <<>>
  /\ outbox = [m \in Machines |-> [p \in Pps |-> 0]]
  /\ up = {} /\ listening = {}
  /\ cursor = [m \in Machines |-> 0] /\ missed = [m \in Machines |-> {}]
  /\ listeners = [m \in Machines |-> {}]
  /\ sock = [s \in Sockets |-> NoSocket]
  /\ got = [s \in Sockets |-> <<>>]
  /\ faults = 0

-----------------------------------------------------------------------------
(* emitForPp (one provider) and emitForBundles (the owners of a batch).    *)
(* Each event is on its way with the scope of its provider; a provider     *)
(* that is not on this instance has none and its event is dropped.         *)
Emit(m, owners) ==
  /\ m \in up
  /\ emitted' = emitted + Cardinality(owners) /\ emitted' <= MaxEvents
  /\ outbox' = [outbox EXCEPT ![m] = [p \in Pps |-> @[p] + IF p \in owners THEN 1 ELSE 0]]
  /\ UNCHANGED <<log, up, busVars, wsVars, faults>>

Leaves(m, p) ==
  /\ outbox[m][p] > 0
  /\ outbox' = [outbox EXCEPT ![m][p] = @ - 1]

(* The notifier runs on a pool of connections: two emits may commit in     *)
(* either order.                                                           *)
Notify(m, p) ==
  /\ Leaves(m, p)
  /\ log' = Append(log, p)
  /\ UNCHANGED <<emitted, up, busVars, wsVars, faults>>

(* A provider without a scope, a failing look-up or NOTIFY, or a payload   *)
(* over the cap: the event is logged and dropped.                          *)
DropEvent(m, p) ==
  /\ Leaves(m, p)
  /\ UNCHANGED <<emitted, log, up, busVars, wsVars, faults>>

(* External: somebody else notifies the channel.                           *)
ForeignNotify ==
  /\ emitted < MaxEvents
  /\ emitted' = emitted + 1
  /\ log' = Append(log, "malformed")
  /\ UNCHANGED <<outbox, up, busVars, wsVars, faults>>

-----------------------------------------------------------------------------
(* The pgListener of a machine.                                            *)
Open(s) == sock[s].state = "open"
Accepts(s, e) == e = sock[s].pp /\ Open(s)

(* Mutant: the listener does not look at the scope. *)
publishLocalToAll(m, i) ==
  got' = [s \in Sockets |-> IF s \in listeners[m] /\ Open(s) THEN Append(got[s], i) ELSE got[s]]

publishLocal(m, i) ==
  got' = [s \in Sockets |->
            IF s \in listeners[m] /\ Accepts(s, log[i]) THEN Append(got[s], i) ELSE got[s]]

(* Mutant: a payload that is no event ends the subscription. *)
onNotifyStops(m) ==
  LET i == cursor[m] + 1 IN
  /\ m \in listening /\ i <= Len(log) /\ log[i] # "malformed"
  /\ cursor' = [cursor EXCEPT ![m] = i]
  /\ publishLocal(m, i)
  /\ UNCHANGED <<emitted, outbox, log, up, listening, missed, listeners, sock, faults>>

(* onNotify: a payload that is no event is dropped.                        *)
onNotify(m) ==
  LET i == cursor[m] + 1 IN
  /\ m \in listening /\ i <= Len(log)
  /\ cursor' = [cursor EXCEPT ![m] = i]
  /\ IF log[i] = "malformed" THEN UNCHANGED got ELSE publishLocal(m, i)
  /\ UNCHANGED <<emitted, outbox, log, up, listening, missed, listeners, sock, faults>>

(* startPgListener, and the driver's subscription after a reconnect: both  *)
(* start from now.                                                         *)
StartListening(m) ==
  /\ m \notin listening
  /\ listening' = listening \cup {m}
  /\ cursor' = [cursor EXCEPT ![m] = Len(log)]
  /\ missed' = [missed EXCEPT ![m] = @ \cup (cursor[m] + 1)..Len(log)]
  /\ UNCHANGED <<emitted, outbox, log, up, wsVars, faults>>

(* bootstrap: the listener, the notifier, then the server.                 *)
Serve(m) ==
  /\ m \in listening \ up
  /\ up' = up \cup {m}
  /\ UNCHANGED <<emitted, outbox, log, busVars, wsVars, faults>>

ConnectionLost(m) ==
  /\ m \in listening /\ faults < MaxFaults
  /\ faults' = faults + 1
  /\ listening' = listening \ {m}
  /\ UNCHANGED <<emitted, outbox, log, up, cursor, missed, wsVars>>

(* The machine stops, is replaced or crashes.                              *)
Exit(m) ==
  /\ m \in up /\ faults < MaxFaults
  /\ faults' = faults + 1
  /\ up' = up \ {m} /\ listening' = listening \ {m}
  /\ outbox' = [outbox EXCEPT ![m] = [p \in Pps |-> 0]]
  /\ listeners' = [listeners EXCEPT ![m] = {}]
  /\ sock' = [s \in Sockets |-> IF sock[s].machine = m THEN [sock[s] EXCEPT !.state = "closed"]
                                ELSE sock[s]]
  /\ UNCHANGED <<emitted, log, cursor, missed, got>>

-----------------------------------------------------------------------------
(* handleEventsWs.  Without a valid token or the provider of the token's   *)
(* operator there is no upgrade.                                           *)
Connect(s, m, p) ==
  /\ sock[s].state \in {"none", "closed"} /\ m \in up
  /\ OwnerOf[p] = OperatorOf[s]
  /\ sock' = [sock EXCEPT ![s] = [state |-> "connecting", machine |-> m, pp |-> p, since |-> 0]]
  /\ got' = [got EXCEPT ![s] = <<>>]
  /\ UNCHANGED <<emitted, outbox, log, up, busVars, listeners, faults>>

onopen(s) ==
  LET m == sock[s].machine IN
  /\ sock[s].state = "connecting"
  /\ sock' = [sock EXCEPT ![s].state = "open", ![s].since = cursor[m]]
  /\ listeners' = [listeners EXCEPT ![m] = @ \cup {s}]
  /\ UNCHANGED <<emitted, outbox, log, up, busVars, got, faults>>

(* The client leaves or stays silent for the idle timeout: the socket is   *)
(* no longer OPEN, its handlers run later.                                 *)
Closes(s) ==
  /\ sock[s].state \in {"connecting", "open"}
  /\ \E next \in {"closing", "failing"} : sock' = [sock EXCEPT ![s].state = next]
  /\ UNCHANGED <<emitted, outbox, log, up, busVars, listeners, got, faults>>

(* Mutant: cleanup returns without having unsubscribed. *)
cleanupForgets(s) == UNCHANGED listeners

cleanup(s) == listeners' = [listeners EXCEPT ![sock[s].machine] = @ \ {s}]

(* onerror, which an onclose follows.                                      *)
onerror(s) ==
  /\ sock[s].state = "failing"
  /\ cleanup(s)
  /\ sock' = [sock EXCEPT ![s].state = "closing"]
  /\ UNCHANGED <<emitted, outbox, log, up, busVars, got, faults>>

onclose(s) ==
  /\ sock[s].state = "closing"
  /\ cleanup(s)
  /\ sock' = [sock EXCEPT ![s].state = "closed"]
  /\ UNCHANGED <<emitted, outbox, log, up, busVars, got, faults>>

-----------------------------------------------------------------------------
(* The owners of a batch are any set of providers.                         *)
Next ==
  \/ \E m \in Machines, owners \in SUBSET Pps \ {{}} : Emit(m, owners)
  \/ \E m \in Machines, p \in Pps : Notify(m, p) \/ DropEvent(m, p)
  \/ ForeignNotify
  \/ \E m \in Machines :
       onNotify(m) \/ StartListening(m) \/ Serve(m) \/ ConnectionLost(m) \/ Exit(m)
  \/ \E s \in Sockets, m \in Machines, p \in Pps : Connect(s, m, p)
  \/ \E s \in Sockets : onopen(s) \/ Closes(s) \/ onerror(s) \/ onclose(s)

Spec == Init /\ [][Next]_vars

(* The driver reads its connection and subscribes again after a drop, and  *)
(* a machine that exits is started again.  Nothing is assumed of clients.  *)
FairSpec == Spec /\ \A m \in Machines : WF_vars(onNotify(m)) /\ WF_vars(StartListening(m))

-----------------------------------------------------------------------------
(* What socket s is owed: the events of its provider that were notified    *)
(* after it opened, except those sent while its machine was not listening. *)
Owed(s) ==
  LET m == sock[s].machine IN
  {i \in (sock[s].since + 1)..cursor[m] : log[i] = sock[s].pp /\ i \notin missed[m]}

(* An open socket was sent exactly what it is owed, once and in the order  *)
(* of the notifications, so that any two dashboards of a provider agree;   *)
(* one that has closed was sent nothing else; and never an event of a      *)
(* provider of somebody else.                                              *)
DeliveredExactly ==
  \A s \in Sockets : sock[s] # NoSocket =>
    /\ \A i, j \in DOMAIN got[s] : i < j => got[s][i] < got[s][j]
    /\ IF Open(s) THEN ToSet(got[s]) = Owed(s) ELSE ToSet(got[s]) \subseteq Owed(s)
    /\ \A i \in DOMAIN got[s] : OwnerOf[log[got[s][i]]] = OperatorOf[s]

(* No listener is left behind: whoever is subscribed to the bus of a       *)
(* machine is a socket of that machine whose close is still to be handled. *)
NoListenerLeft ==
  \A m \in Machines : \A s \in listeners[m] :
    sock[s].machine = m /\ sock[s].state \in {"open", "closing", "failing"} /\ m \in up

(* A notification for a provider reaches every open socket of it, unless   *)
(* the listener of the machine was down when it was sent.                  *)
EventsReach ==
  \A s \in Sockets, i \in 1..MaxEvents :
    (Open(s) /\ sock[s].since < i /\ i \in DOMAIN log /\ log[i] = sock[s].pp)
      ~> (i \in ToSet(got[s]) \/ ~Open(s) \/ i \in missed[sock[s].machine])
=============================================================================
