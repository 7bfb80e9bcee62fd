---------------------------- MODULE EventsProofs ----------------------------
(* Proofs about the event bus, for any number of machines, sockets, providers
   and operators, any number of notifications, lost connections and exits. *)
EXTENDS Events, TLAPS

Live == {"connecting", "open", "closing", "failing"}

SocketType ==
  [state : Live \cup {"none", "closed"}, machine : Machines \cup {""},
   pp : Pps \cup {""}, since : Nat]

EventsType ==
  /\ log \in Seq(Pps \cup {"malformed"})
  /\ up \subseteq Machines /\ listening \subseteq Machines
  /\ cursor \in [Machines -> Nat]
  /\ missed \in [Machines -> SUBSET Nat]
  /\ listeners \in [Machines -> SUBSET Sockets]
  /\ sock \in [Sockets -> SocketType]
  /\ got \in [Sockets -> Seq(Nat)]

(* A listener is at a position of the log, and what it missed is behind it. *)
CursorsSound ==
  \A m \in Machines : cursor[m] <= Len(log) /\ missed[m] \subseteq 1..cursor[m]

(* A socket that was upgraded belongs to a machine that serves and to the
   operator of its provider; it is sent nothing before it is open; an open one
   is subscribed. *)
SocketSound(s) ==
  /\ sock[s].state = "none" => sock[s] = NoSocket /\ got[s] = <<>>
  /\ sock[s] # NoSocket => sock[s].machine \in Machines
  /\ sock[s].state \in Live \/ got[s] # <<>> =>
       sock[s].pp \in Pps /\ OwnerOf[sock[s].pp] = OperatorOf[s]
  /\ sock[s].state \in Live => sock[s].machine \in up
  /\ sock[s].state = "connecting" => got[s] = <<>>
  /\ Open(s) => /\ s \in listeners[sock[s].machine]
                /\ sock[s].since <= cursor[sock[s].machine]

(* What DeliveredExactly says of the positions of the log. *)
Delivered(s) ==
  sock[s] # NoSocket =>
    /\ \A i, j \in DOMAIN got[s] : i < j => got[s][i] < got[s][j]
    /\ ToSet(got[s]) \subseteq Owed(s)
    /\ Open(s) => Owed(s) \subseteq ToSet(got[s])

EventsInv ==
  /\ EventsType
  /\ CursorsSound
  /\ NoListenerLeft
  /\ \A s \in Sockets : SocketSound(s) /\ Delivered(s)

-----------------------------------------------------------------------------
LEMMA NoSocketType == NoSocket \in SocketType /\ NoSocket.state = "none"
BY DEF NoSocket, SocketType

(* Ranges of the log. *)
LEMMA NextPosition ==
  ASSUME NEW u \in Nat, NEW c \in Nat
  PROVE  /\ \A i \in (u + 1)..c : i \in Nat /\ i < c + 1 /\ i \in (u + 1)..(c + 1)
         /\ \A i \in (u + 1)..(c + 1) : i \in (u + 1)..c \/ i = c + 1
         /\ u <= c => c + 1 \in (u + 1)..(c + 1) /\ u <= c + 1
OBVIOUS

(* A socket that is somewhere. *)
LEMMA LiveSocket ==
  ASSUME NEW s, sock[s].state # "none"
  PROVE  sock[s] # NoSocket
BY NoSocketType

(* What a socket of machine m is owed. *)
LEMMA OwedIs ==
  ASSUME NEW s, NEW m, sock[s].machine = m
  PROVE  \A i : i \in Owed(s) <=> /\ i \in (sock[s].since + 1)..cursor[m]
                                  /\ log[i] = sock[s].pp /\ i \notin missed[m]
BY DEF Owed

LEMMA SentIs ==
  ASSUME NEW q
  PROVE  \A i : i \in ToSet(q) <=> \E j \in DOMAIN q : i = q[j]
BY DEF ToSet

(* A socket for which nothing happens: neither to it nor to its listener. *)
LEMMA SocketAlone ==
  ASSUME EventsInv, NEW s \in Sockets,
         sock'[s] = sock[s], got'[s] = got[s],
         sock[s] # NoSocket => /\ cursor'[sock[s].machine] = cursor[sock[s].machine]
                               /\ missed'[sock[s].machine] = missed[sock[s].machine],
         \A i \in 1..Len(log) : log'[i] = log[i],
         sock[s].machine \in up => sock[s].machine \in up',
         Open(s) => s \in listeners'[sock[s].machine]
  PROVE  SocketSound(s)' /\ Delivered(s)'
<1>1. SocketSound(s) /\ Delivered(s)
  BY DEF EventsInv
<1>2. SocketSound(s)'
  <2>1. Open(s) => sock[s] # NoSocket
    BY LiveSocket DEF Open
  <2> QED BY <1>1, <2>1 DEF SocketSound, Open
<1>3. ASSUME sock[s] # NoSocket PROVE Owed(s)' = Owed(s)
  <2> DEFINE m == sock[s].machine
  <2>1. m \in Machines
    BY <1>1, <1>3 DEF SocketSound
  <2>2. /\ cursor[m] \in Nat /\ cursor[m] <= Len(log) /\ Len(log) \in Nat
        /\ sock[s].since \in Nat
    <3>1. sock[s] \in SocketType
      BY DEF EventsInv, EventsType
    <3>2. sock[s].since \in Nat
      BY <3>1 DEF SocketType
    <3> QED BY <2>1, <3>2 DEF EventsInv, EventsType, CursorsSound
  <2>3. \A i \in (sock[s].since + 1)..cursor[m] : i \in 1..Len(log)
    BY <2>2
  <2>4. \A i : i \in Owed(s) <=> /\ i \in (sock[s].since + 1)..cursor[m]
                                 /\ log[i] = sock[s].pp /\ i \notin missed[m]
    BY OwedIs
  <2>5. \A i : i \in Owed(s)' <=> /\ i \in (sock[s].since + 1)..cursor[m]
                                  /\ log'[i] = sock[s].pp /\ i \notin missed[m]
    <3>1. Owed(s)' = {i \in (sock'[s].since + 1)..cursor'[sock'[s].machine] :
                        log'[i] = sock'[s].pp /\ i \notin missed'[sock'[s].machine]}
      BY DEF Owed
    <3> QED BY <1>3, <3>1
  <2> QED BY <2>3, <2>4, <2>5
<1>4. Delivered(s)'
  BY <1>1, <1>3 DEF Delivered, Open
<1> QED BY <1>2, <1>4

(* Steps that leave every socket and listener alone. *)
LEMMA BusAlone ==
  ASSUME EventsInv, UNCHANGED <<busVars, wsVars>>, up \subseteq up', up' \subseteq Machines,
         log' = log \/ \E e \in Pps \cup {"malformed"} : log' = Append(log, e)
  PROVE  EventsInv'
<1>0. EventsType /\ CursorsSound /\ NoListenerLeft
  BY DEF EventsInv
<1>1. UNCHANGED <<listening, cursor, missed, listeners, sock, got>>
  BY DEF busVars, wsVars
<1>2. /\ log' \in Seq(Pps \cup {"malformed"}) /\ Len(log') >= Len(log)
      /\ Len(log) \in Nat /\ Len(log') \in Nat
      /\ \A i \in 1..Len(log) : log'[i] = log[i]
  <2>0. log \in Seq(Pps \cup {"malformed"}) /\ Len(log) \in Nat
    BY <1>0 DEF EventsType
  <2>1. CASE log' = log
    BY <2>0, <2>1
  <2>2. ASSUME NEW e \in Pps \cup {"malformed"}, log' = Append(log, e)
        PROVE  /\ log' \in Seq(Pps \cup {"malformed"}) /\ Len(log') = Len(log) + 1
               /\ \A i \in 1..Len(log) : log'[i] = log[i]
    BY <2>0, <2>2
  <2> QED BY <2>0, <2>1, <2>2
<1>3. EventsType'
  BY <1>0, <1>1, <1>2 DEF EventsType
<1>4. CursorsSound'
  BY <1>0, <1>1, <1>2 DEF CursorsSound, EventsType
<1>5. NoListenerLeft'
  BY <1>0, <1>1 DEF NoListenerLeft
<1>6. \A s \in Sockets : SocketSound(s)' /\ Delivered(s)'
  <2> SUFFICES ASSUME NEW s \in Sockets PROVE SocketSound(s)' /\ Delivered(s)'
    OBVIOUS
  <2>1. Open(s) => s \in listeners'[sock[s].machine]
    BY <1>1 DEF EventsInv, SocketSound
  <2> QED BY <1>1, <1>2, <2>1, SocketAlone
<1> QED BY <1>3, <1>4, <1>5, <1>6 DEF EventsInv

LEMMA EmitKeeps ==
  ASSUME EventsInv,
         \/ \E m \in Machines, owners \in SUBSET Pps \ {{}} : Emit(m, owners)
         \/ \E m \in Machines, p \in Pps : Notify(m, p) \/ DropEvent(m, p)
         \/ ForeignNotify
         \/ \E m \in Machines : Serve(m)
  PROVE  EventsInv'
<1>1. UNCHANGED <<busVars, wsVars>>
  BY DEF Emit, Notify, DropEvent, ForeignNotify, Serve
<1>2. up \subseteq up' /\ up' \subseteq Machines
  BY DEF Emit, Notify, DropEvent, ForeignNotify, Serve, EventsInv, EventsType
<1>3. log' = log \/ \E e \in Pps \cup {"malformed"} : log' = Append(log, e)
  BY DEF Emit, Notify, DropEvent, ForeignNotify, Serve
<1> QED BY <1>1, <1>2, <1>3, BusAlone

-----------------------------------------------------------------------------
(* The listener of a machine *)

LEMMA ConnectionLostKeeps ==
  ASSUME EventsInv, NEW m \in Machines, ConnectionLost(m)
  PROVE  EventsInv'
<1>0. EventsType /\ CursorsSound /\ NoListenerLeft
  BY DEF EventsInv
<1>1. UNCHANGED <<log, up, cursor, missed, listeners, sock, got>> /\ listening' \subseteq Machines
  BY <1>0 DEF ConnectionLost, wsVars, EventsType
<1>2. EventsType' /\ CursorsSound' /\ NoListenerLeft'
  BY <1>0, <1>1 DEF EventsType, CursorsSound, NoListenerLeft
<1>3. ASSUME NEW s \in Sockets PROVE SocketSound(s)' /\ Delivered(s)'
  <2>1. Open(s) => s \in listeners'[sock[s].machine]
    BY <1>1 DEF EventsInv, SocketSound
  <2> QED BY <1>1, <2>1, SocketAlone
<1> QED BY <1>2, <1>3 DEF EventsInv

LEMMA StartListeningKeeps ==
  ASSUME EventsInv, NEW m \in Machines, StartListening(m)
  PROVE  EventsInv'
<1>0. EventsType /\ CursorsSound /\ NoListenerLeft
  BY DEF EventsInv
<1>1. /\ UNCHANGED <<log, up, listeners, sock, got>> /\ listening' \subseteq Machines
      /\ cursor' = [cursor EXCEPT ![m] = Len(log)]
      /\ missed' = [missed EXCEPT ![m] = @ \cup (cursor[m] + 1)..Len(log)]
  BY <1>0 DEF StartListening, wsVars, EventsType
<1>2. /\ Len(log) \in Nat /\ cursor[m] \in Nat /\ cursor[m] <= Len(log)
      /\ missed[m] \subseteq 1..cursor[m]
  BY <1>0 DEF EventsType, CursorsSound
<1>3. /\ cursor'[m] = Len(log) /\ missed'[m] = missed[m] \cup (cursor[m] + 1)..Len(log)
      /\ \A k \in Machines : k # m => cursor'[k] = cursor[k] /\ missed'[k] = missed[k]
  BY <1>0, <1>1 DEF EventsType
<1>4. EventsType'
  <2>1. cursor' \in [Machines -> Nat]
    BY <1>0, <1>1, <1>2 DEF EventsType
  <2>2. (cursor[m] + 1)..Len(log) \subseteq Nat
    BY <1>2
  <2>3. missed' \in [Machines -> SUBSET Nat]
    BY <1>0, <1>1, <2>2 DEF EventsType
  <2> QED BY <1>0, <1>1, <2>1, <2>3 DEF EventsType
<1>5. CursorsSound'
  <2>1. missed'[m] \subseteq 1..cursor'[m]
    BY <1>2, <1>3
  <2> QED BY <1>0, <1>1, <1>2, <1>3, <2>1 DEF CursorsSound
<1>6. NoListenerLeft'
  BY <1>0, <1>1 DEF NoListenerLeft
<1>7. ASSUME NEW s \in Sockets PROVE SocketSound(s)' /\ Delivered(s)'
  <2>0. SocketSound(s) /\ Delivered(s)
    BY DEF EventsInv
  <2>1. CASE sock[s] # NoSocket => sock[s].machine # m
    BY <1>1, <1>3, <2>0, <2>1, SocketAlone DEF SocketSound
  <2>2. CASE sock[s] # NoSocket /\ sock[s].machine = m
    <3>1. sock[s].since \in Nat
      BY <1>0 DEF EventsType, SocketType
    <3>2. \A i : i \in Owed(s) <=> /\ i \in (sock[s].since + 1)..cursor[m]
                                   /\ log[i] = sock[s].pp /\ i \notin missed[m]
      BY <2>2, OwedIs
    <3>3. \A i : i \in Owed(s)' <=> /\ i \in (sock[s].since + 1)..Len(log)
                                    /\ log[i] = sock[s].pp /\ i \notin missed'[m]
      <4>1. Owed(s)' = {i \in (sock'[s].since + 1)..cursor'[sock'[s].machine] :
                          log'[i] = sock'[s].pp /\ i \notin missed'[sock'[s].machine]}
        BY DEF Owed
      <4> QED BY <1>1, <1>3, <2>2, <4>1
    <3>4. Owed(s)' = Owed(s)
      <4>1. ASSUME NEW i PROVE i \in Owed(s)' <=> i \in Owed(s)
        <5>1. CASE i \in (sock[s].since + 1)..cursor[m]
          <6>1. i \in (sock[s].since + 1)..Len(log) /\ i \notin (cursor[m] + 1)..Len(log)
            BY <1>2, <3>1, <5>1
          <6> QED BY <1>3, <3>2, <3>3, <5>1, <6>1
        <5>2. CASE i \notin (sock[s].since + 1)..cursor[m]
          <6>1. i \in (sock[s].since + 1)..Len(log) => i \in (cursor[m] + 1)..Len(log)
            BY <1>2, <3>1, <5>2
          <6> QED BY <1>3, <3>2, <3>3, <5>2, <6>1
        <5> QED BY <5>1, <5>2
      <4> QED BY <4>1
    <3>5. SocketSound(s)'
      <4>1. sock[s].since <= cursor[m] => sock[s].since <= cursor'[m]
        BY <1>2, <1>3, <3>1
      <4> QED BY <1>1, <2>0, <2>2, <4>1 DEF SocketSound, Open
    <3>6. Delivered(s)'
      BY <1>1, <2>0, <3>4 DEF Delivered, Open
    <3> QED BY <3>5, <3>6
  <2> QED BY <2>1, <2>2
<1> QED BY <1>4, <1>5, <1>6, <1>7 DEF EventsInv

(* onNotify: the next notification goes to the open sockets of its provider. *)
LEMMA onNotifyKeeps ==
  ASSUME EventsInv, NEW m \in Machines, onNotify(m)
  PROVE  EventsInv'
<1> DEFINE n == cursor[m] + 1
<1>0. EventsType /\ CursorsSound /\ NoListenerLeft
  BY DEF EventsInv
<1>1. /\ UNCHANGED <<log, up, listening, missed, listeners, sock>>
      /\ n <= Len(log) /\ cursor' = [cursor EXCEPT ![m] = n]
  BY DEF onNotify
<1>2. /\ Len(log) \in Nat /\ cursor[m] \in Nat /\ missed[m] \subseteq 1..cursor[m] /\ n \in Nat
      /\ n \notin missed[m]
  <2>1. Len(log) \in Nat /\ cursor[m] \in Nat /\ missed[m] \subseteq 1..cursor[m]
    BY <1>0 DEF EventsType, CursorsSound
  <2> QED BY <2>1
<1>3. cursor'[m] = n /\ \A k \in Machines : k # m => cursor'[k] = cursor[k]
  BY <1>0, <1>1 DEF EventsType
<1>4. \A s \in Sockets :
        got'[s] = IF log[n] # "malformed" /\ s \in listeners[m] /\ log[n] = sock[s].pp /\ Open(s)
                  THEN Append(got[s], n) ELSE got[s]
  <2>1. CASE log[n] = "malformed"
    BY <2>1 DEF onNotify
  <2>2. CASE log[n] # "malformed"
    BY <2>2 DEF onNotify, publishLocal, Accepts
  <2> QED BY <2>1, <2>2
<1>5. got' \in [Sockets -> Seq(Nat)]
  <2>1. \A s \in Sockets : got[s] \in Seq(Nat) /\ Append(got[s], n) \in Seq(Nat)
    BY <1>0, <1>2 DEF EventsType
  <2>2. \A s \in Sockets : got'[s] \in Seq(Nat)
    BY <1>4, <2>1
  <2>3. got' = [s \in Sockets |-> got'[s]]
    <3>1. CASE log[n] = "malformed"
      BY <1>0, <3>1 DEF onNotify, EventsType
    <3>2. CASE log[n] # "malformed"
      BY <3>2 DEF onNotify, publishLocal
    <3> QED BY <3>1, <3>2
  <2> QED BY <2>2, <2>3
<1>6. EventsType'
  BY <1>0, <1>1, <1>2, <1>5 DEF EventsType
<1>7. CursorsSound'
  <2>1. missed[m] \subseteq 1..n
    BY <1>2
  <2> QED BY <1>0, <1>1, <1>3, <2>1 DEF CursorsSound
<1>8. NoListenerLeft'
  BY <1>0, <1>1 DEF NoListenerLeft
<1>9. ASSUME NEW s \in Sockets PROVE SocketSound(s)' /\ Delivered(s)'
  <2>0. SocketSound(s) /\ Delivered(s)
    BY DEF EventsInv
  <2>1. s \in listeners[m] => sock[s].machine = m
    BY <1>0 DEF NoListenerLeft
  <2>2. CASE sock[s] # NoSocket => sock[s].machine # m
    <3>1. got'[s] = got[s]
      <4>1. Open(s) => sock[s] # NoSocket
        BY LiveSocket DEF Open
      <4> QED BY <1>4, <2>1, <2>2, <4>1
    <3> QED BY <1>1, <1>3, <2>0, <2>2, <3>1, SocketAlone DEF SocketSound
  <2>3. CASE sock[s] # NoSocket /\ sock[s].machine = m
    <3>1. sock[s].since \in Nat /\ got[s] \in Seq(Nat) /\ sock[s].pp \in Pps \cup {""}
      <4>1. sock[s] \in SocketType
        BY <1>0 DEF EventsType
      <4> QED BY <1>0, <4>1 DEF EventsType, SocketType
    <3>2. \A i : i \in Owed(s) <=> /\ i \in (sock[s].since + 1)..cursor[m]
                                   /\ log[i] = sock[s].pp /\ i \notin missed[m]
      BY <2>3, OwedIs
    <3>3. \A i : i \in Owed(s)' <=> /\ i \in (sock[s].since + 1)..n
                                    /\ log[i] = sock[s].pp /\ i \notin missed[m]
      <4>1. Owed(s)' = {i \in (sock'[s].since + 1)..cursor'[sock'[s].machine] :
                          log'[i] = sock'[s].pp /\ i \notin missed'[sock'[s].machine]}
        BY DEF Owed
      <4> QED BY <1>1, <1>3, <2>3, <4>1
    <3>4. \A i \in Owed(s) : i \in Nat /\ i < n /\ i \in Owed(s)'
      <4>1. \A i \in (sock[s].since + 1)..cursor[m] : i \in Nat /\ i < n /\ i \in (sock[s].since + 1)..n
        BY <1>2, <3>1, NextPosition
      <4> QED BY <3>2, <3>3, <4>1
    <3>5. \A i \in Owed(s)' : i \in Owed(s) \/ (i = n /\ log[n] = sock[s].pp)
      <4>1. \A i \in (sock[s].since + 1)..n : i \in (sock[s].since + 1)..cursor[m] \/ i = n
        BY <1>2, <3>1, NextPosition
      <4> QED BY <3>2, <3>3, <4>1
    <3>6. CASE Open(s) /\ log[n] = sock[s].pp
      <4>1. s \in listeners[m] /\ sock[s].since <= cursor[m] /\ sock[s].pp \in Pps
        BY <2>0, <2>3, <3>6 DEF SocketSound, Open, Live
      <4>2. got'[s] = Append(got[s], n)
        BY <1>4, <3>6, <4>1, EventsAssumption
      <4>3. n \in Owed(s)'
        <5>1. n \in (sock[s].since + 1)..n
          BY <1>2, <3>1, <4>1, NextPosition
        <5> QED BY <1>2, <3>3, <3>6, <5>1
      <4>4. /\ DOMAIN got'[s] = 1..(Len(got[s]) + 1) /\ DOMAIN got[s] = 1..Len(got[s])
            /\ \A i \in 1..Len(got[s]) : got'[s][i] = got[s][i]
            /\ got'[s][Len(got[s]) + 1] = n /\ Len(got[s]) \in Nat
        <5> DEFINE q == got[s]
                   q2 == got'[s]
        <5>1. q \in Seq(Nat) /\ q2 = Append(q, n) /\ n \in Nat
          BY <1>2, <3>1, <4>2
        <5> HIDE DEF q, q2, n
        <5>2. /\ DOMAIN q2 = 1..(Len(q) + 1) /\ DOMAIN q = 1..Len(q)
              /\ \A i \in 1..Len(q) : q2[i] = q[i]
              /\ q2[Len(q) + 1] = n /\ Len(q) \in Nat
          BY <5>1
        <5> QED BY <5>2 DEF q, q2
      <4>5. \A i \in DOMAIN got[s] : got[s][i] \in Owed(s)
        BY <2>0, <2>3 DEF Delivered, ToSet
      <4>6. \A i, j \in DOMAIN got'[s] : i < j => got'[s][i] < got'[s][j]
        <5> SUFFICES ASSUME NEW i \in DOMAIN got'[s], NEW j \in DOMAIN got'[s], i < j
                     PROVE  got'[s][i] < got'[s][j]
          OBVIOUS
        <5>1. CASE j = Len(got[s]) + 1
          <6>1. i \in DOMAIN got[s]
            BY <4>4, <5>1
          <6> QED BY <3>4, <4>4, <4>5, <5>1, <6>1
        <5>2. CASE j # Len(got[s]) + 1
          <6>1. i \in DOMAIN got[s] /\ j \in DOMAIN got[s]
            BY <4>4, <5>2
          <6> QED BY <2>0, <2>3, <4>4, <6>1 DEF Delivered
        <5> QED BY <5>1, <5>2
      <4>7. \A i : i \in ToSet(got[s])' <=> i \in ToSet(got[s]) \/ i = n
        <5>1. \A i : i \in ToSet(got[s])' <=> \E j \in DOMAIN got'[s] : i = got'[s][j]
          BY DEF ToSet
        <5>2. \A i : i \in ToSet(got[s]) <=> \E j \in DOMAIN got[s] : i = got[s][j]
          BY SentIs
        <5>3. \A j \in DOMAIN got'[s] : j \in DOMAIN got[s] \/ j = Len(got[s]) + 1
          BY <4>4
        <5>4. DOMAIN got[s] \subseteq DOMAIN got'[s] /\ Len(got[s]) + 1 \in DOMAIN got'[s]
          BY <4>4
        <5> QED BY <4>4, <5>1, <5>2, <5>3, <5>4
      <4>8. Delivered(s)'
        <5>1. /\ ToSet(got[s])' \subseteq Owed(s)'
              /\ Owed(s)' \subseteq ToSet(got[s])'
          BY <2>0, <2>3, <3>4, <3>5, <3>6, <4>3, <4>7 DEF Delivered
        <5> QED BY <4>6, <5>1 DEF Delivered
      <4>9. SocketSound(s)'
        <5>1. sock[s].since <= n
          BY <1>2, <3>1, <4>1, NextPosition
        <5> QED BY <1>1, <1>3, <2>0, <2>3, <3>6, <4>1, <5>1 DEF SocketSound, Open, Live
      <4> QED BY <4>8, <4>9
    <3>7. CASE ~(Open(s) /\ log[n] = sock[s].pp)
      <4>1. got'[s] = got[s]
        BY <1>4, <3>7
      <4>2. Delivered(s)'
        BY <1>1, <2>0, <2>3, <3>4, <3>5, <3>7, <4>1 DEF Delivered, Open
      <4>3. SocketSound(s)'
        <5>1. sock[s].since <= cursor[m] => sock[s].since <= n
          BY <1>2, <3>1, NextPosition
        <5> QED BY <1>1, <1>3, <2>0, <2>3, <4>1, <5>1 DEF SocketSound, Open
      <4> QED BY <4>2, <4>3
    <3> QED BY <3>6, <3>7
  <2> QED BY <2>2, <2>3
<1> QED BY <1>6, <1>7, <1>8, <1>9 DEF EventsInv

-----------------------------------------------------------------------------
(* The sockets *)

(* A step of socket s leaves the others alone. *)
LEMMA OneSocket ==
  ASSUME EventsInv, NEW s \in Sockets, UNCHANGED <<log, up, busVars>>,
         EventsType', NoListenerLeft',
         \A x \in Sockets : x # s =>
           /\ sock'[x] = sock[x] /\ got'[x] = got[x]
           /\ Open(x) => x \in listeners'[sock[x].machine],
         SocketSound(s)' /\ Delivered(s)'
  PROVE  EventsInv'
<1>1. UNCHANGED <<cursor, missed>>
  BY DEF busVars
<1>2. CursorsSound'
  BY <1>1 DEF EventsInv, CursorsSound
<1>3. ASSUME NEW x \in Sockets PROVE SocketSound(x)' /\ Delivered(x)'
  BY <1>1, SocketAlone
<1> QED BY <1>2, <1>3 DEF EventsInv

LEMMA ConnectKeeps ==
  ASSUME EventsInv, NEW s \in Sockets, NEW m \in Machines, NEW p \in Pps, Connect(s, m, p)
  PROVE  EventsInv'
<1>0. EventsType /\ NoListenerLeft /\ \A x \in Sockets : SocketSound(x)
  BY DEF EventsInv
<1> DEFINE new == [state |-> "connecting", machine |-> m, pp |-> p, since |-> 0]
<1>1. /\ UNCHANGED <<log, up, busVars, listeners>> /\ sock' = [sock EXCEPT ![s] = new]
      /\ got' = [got EXCEPT ![s] = <<>>]
      /\ sock[s].state \in {"none", "closed"} /\ m \in up /\ OwnerOf[p] = OperatorOf[s]
  BY DEF Connect
<1>2. new \in SocketType /\ new.state = "connecting" /\ new.machine = m /\ new.pp = p
  BY DEF SocketType, Live
<1> HIDE DEF new
<1>3. /\ sock'[s] = new /\ got'[s] = <<>>
      /\ \A x \in Sockets : x # s => sock'[x] = sock[x] /\ got'[x] = got[x]
  BY <1>0, <1>1 DEF EventsType
<1>4. EventsType'
  BY <1>0, <1>1, <1>2 DEF EventsType, busVars
<1>5. NoListenerLeft'
  BY <1>0, <1>1, <1>3 DEF NoListenerLeft, EventsType
<1>6. sock'[s] # NoSocket /\ ~Open(s)' /\ sock'[s].state = "connecting"
  BY <1>2, <1>3, NoSocketType DEF Open
<1>7. SocketSound(s)'
  BY <1>1, <1>2, <1>3, <1>6 DEF SocketSound
<1>8. Delivered(s)'
  BY <1>3, <1>6 DEF Delivered, ToSet
<1> QED BY <1>0, <1>1, <1>3, <1>4, <1>5, <1>7, <1>8, OneSocket DEF SocketSound

LEMMA onopenKeeps ==
  ASSUME EventsInv, NEW s \in Sockets, onopen(s)
  PROVE  EventsInv'
<1> DEFINE m == sock[s].machine
           new == [sock[s] EXCEPT !.state = "open", !.since = cursor[m]]
<1>0. EventsType /\ NoListenerLeft /\ \A x \in Sockets : SocketSound(x)
  BY DEF EventsInv
<1>1. /\ UNCHANGED <<log, up, busVars, got>>
      /\ sock' = [sock EXCEPT ![s].state = "open", ![s].since = cursor[m]]
      /\ listeners' = [listeners EXCEPT ![m] = @ \cup {s}]
      /\ sock[s].state = "connecting"
  BY DEF onopen
<1>2. UNCHANGED <<cursor, missed>>
  BY <1>1 DEF busVars
<1>3. /\ sock[s] \in SocketType /\ m \in up /\ m \in Machines /\ got[s] = <<>>
      /\ sock[s].pp \in Pps /\ OwnerOf[sock[s].pp] = OperatorOf[s]
  BY <1>0, <1>1 DEF EventsType, SocketSound, Live
<1>4. cursor[m] \in Nat
  BY <1>0, <1>3 DEF EventsType
<1>5. /\ sock'[s] = new
      /\ \A x \in Sockets : x # s => sock'[x] = sock[x]
  BY <1>0, <1>1 DEF EventsType
<1>6. /\ new \in SocketType /\ new.state = "open" /\ new.machine = m /\ new.pp = sock[s].pp
      /\ new.since = cursor[m]
  BY <1>3, <1>4 DEF SocketType, Live
<1> HIDE DEF new
<1>7. /\ listeners'[m] = listeners[m] \cup {s}
      /\ \A k \in Machines : k # m => listeners'[k] = listeners[k]
  BY <1>0, <1>1, <1>3 DEF EventsType
<1>8. EventsType'
  <2>1. sock' \in [Sockets -> SocketType]
    <3>1. sock' = [sock EXCEPT ![s] = new]
      BY <1>0, <1>1 DEF EventsType, new
    <3> QED BY <1>0, <1>6, <3>1 DEF EventsType
  <2>2. listeners' \in [Machines -> SUBSET Sockets]
    BY <1>0, <1>1 DEF EventsType
  <2> QED BY <1>0, <1>1, <2>1, <2>2 DEF EventsType, busVars
<1>9. NoListenerLeft'
  <2> SUFFICES ASSUME NEW k \in Machines, NEW x \in listeners'[k]
               PROVE  sock'[x].machine = k /\ sock'[x].state \in {"open", "closing", "failing"} /\ k \in up'
    BY DEF NoListenerLeft
  <2>1. x \in Sockets
    BY <1>8 DEF EventsType
  <2>2. CASE x = s
    <3>1. k = m
      BY <1>0, <1>1, <1>7, <2>2 DEF NoListenerLeft
    <3> QED BY <1>1, <1>3, <1>5, <1>6, <2>2, <3>1
  <2>3. CASE x # s
    <3>1. x \in listeners[k]
      BY <1>7, <2>3
    <3>2. /\ sock[x].machine = k /\ k \in up
          /\ sock[x].state \in {"open", "closing", "failing"}
      BY <1>0, <3>1 DEF NoListenerLeft
    <3> QED BY <1>1, <1>5, <2>1, <2>3, <3>2
  <2> QED BY <2>2, <2>3
<1>10. sock'[s] # NoSocket
  BY <1>5, <1>6, NoSocketType
<1>11. SocketSound(s)'
  <2>1. cursor[m] <= cursor[m]
    BY <1>4
  <2> QED BY <1>1, <1>2, <1>3, <1>5, <1>6, <1>7, <1>10, <2>1 DEF SocketSound, Open
<1>12. Delivered(s)'
  <2>1. Owed(s)' = {i \in (sock'[s].since + 1)..cursor'[sock'[s].machine] :
                      log'[i] = sock'[s].pp /\ i \notin missed'[sock'[s].machine]}
    BY DEF Owed
  <2>2. (cursor[m] + 1)..cursor[m] = {}
    BY <1>4
  <2>3. Owed(s)' = {}
    BY <1>2, <1>5, <1>6, <2>1, <2>2
  <2>4. got'[s] = <<>>
    BY <1>1, <1>3
  <2> QED BY <2>3, <2>4 DEF Delivered, ToSet
<1>13. \A x \in Sockets : x # s =>
         /\ sock'[x] = sock[x] /\ got'[x] = got[x]
         /\ Open(x) => x \in listeners'[sock[x].machine]
  <2> SUFFICES ASSUME NEW x \in Sockets, x # s, Open(x) PROVE x \in listeners'[sock[x].machine]
    BY <1>1, <1>5
  <2>1. x \in listeners[sock[x].machine] /\ sock[x].machine \in Machines
    BY <1>0, LiveSocket DEF SocketSound, Open
  <2> QED BY <1>7, <2>1
<1> QED BY <1>1, <1>8, <1>9, <1>11, <1>12, <1>13, OneSocket

(* The socket is no longer open and is sent nothing more. *)
LEMMA SocketCloses ==
  ASSUME EventsInv, NEW s \in Sockets, UNCHANGED <<log, up, busVars, got>>,
         NEW next \in {"closing", "failing", "closed"},
         sock' = [sock EXCEPT ![s].state = next],
         sock[s].state \in Live,
         \/ UNCHANGED listeners /\ next # "closed" /\ sock[s].state \in {"connecting", "open"}
         \/ listeners' = [listeners EXCEPT ![sock[s].machine] = @ \ {s}]
  PROVE  EventsInv'
<1> DEFINE m == sock[s].machine
           new == [sock[s] EXCEPT !.state = next]
<1>0. EventsType /\ NoListenerLeft /\ \A x \in Sockets : SocketSound(x) /\ Delivered(x)
  BY DEF EventsInv
<1>1. UNCHANGED <<cursor, missed>>
  BY DEF busVars
<1>2. /\ sock[s] \in SocketType /\ m \in up /\ m \in Machines
      /\ sock[s].pp \in Pps /\ OwnerOf[sock[s].pp] = OperatorOf[s] /\ sock[s] # NoSocket
  <2>1. sock[s].state # "none"
    BY DEF Live
  <2> QED BY <1>0, <2>1, LiveSocket DEF EventsType, SocketSound
<1>3. /\ sock'[s] = new
      /\ \A x \in Sockets : x # s => sock'[x] = sock[x]
  BY <1>0 DEF EventsType
<1>4. /\ new \in SocketType /\ new.state = next /\ new.machine = m /\ new.pp = sock[s].pp
      /\ new.since = sock[s].since
  BY <1>2 DEF SocketType, Live
<1> HIDE DEF new
<1>5. /\ \A k \in Machines : \A x \in Sockets : x # s => (x \in listeners'[k] <=> x \in listeners[k])
      /\ \A k \in Machines : listeners'[k] \subseteq listeners[k]
      /\ s \in listeners'[m] => next # "closed"
  BY <1>0, <1>2 DEF EventsType
<1>6. EventsType'
  <2>1. sock' \in [Sockets -> SocketType]
    <3>1. sock' = [sock EXCEPT ![s] = new]
      BY <1>0 DEF EventsType, new
    <3> QED BY <1>0, <1>4, <3>1 DEF EventsType
  <2>2. listeners' \in [Machines -> SUBSET Sockets]
    BY <1>0 DEF EventsType
  <2> QED BY <1>0, <2>1, <2>2 DEF EventsType, busVars
<1>7. NoListenerLeft'
  <2> SUFFICES ASSUME NEW k \in Machines, NEW x \in listeners'[k]
               PROVE  sock'[x].machine = k /\ sock'[x].state \in {"open", "closing", "failing"} /\ k \in up'
    BY DEF NoListenerLeft
  <2>1. x \in Sockets /\ x \in listeners[k]
    BY <1>5, <1>6 DEF EventsType
  <2>2. /\ sock[x].machine = k /\ k \in up
        /\ sock[x].state \in {"open", "closing", "failing"}
    BY <1>0, <2>1 DEF NoListenerLeft
  <2>3. CASE x = s
    <3>1. next \in {"closing", "failing"}
      BY <1>5, <2>2, <2>3
    <3> QED BY <1>3, <1>4, <2>2, <2>3, <3>1
  <2>4. CASE x # s
    BY <1>3, <2>1, <2>2, <2>4
  <2> QED BY <2>3, <2>4
<1>8. sock'[s] # NoSocket /\ ~Open(s)'
  BY <1>3, <1>4, NoSocketType DEF Open
<1>9. SocketSound(s)'
  BY <1>2, <1>3, <1>4, <1>8 DEF SocketSound
<1>10. Delivered(s)'
  <2>1. Owed(s)' = Owed(s)
    <3>1. Owed(s)' = {i \in (sock'[s].since + 1)..cursor'[sock'[s].machine] :
                        log'[i] = sock'[s].pp /\ i \notin missed'[sock'[s].machine]}
      BY DEF Owed
    <3> QED BY <1>1, <1>3, <1>4, <3>1 DEF Owed
  <2> QED BY <1>0, <1>2, <1>8, <2>1 DEF Delivered
<1>11. \A x \in Sockets : x # s =>
         /\ sock'[x] = sock[x] /\ got'[x] = got[x]
         /\ Open(x) => x \in listeners'[sock[x].machine]
  <2> SUFFICES ASSUME NEW x \in Sockets, x # s, Open(x) PROVE x \in listeners'[sock[x].machine]
    BY <1>3
  <2>1. x \in listeners[sock[x].machine] /\ sock[x].machine \in Machines
    BY <1>0, LiveSocket DEF SocketSound, Open
  <2> QED BY <1>5, <2>1
<1> QED BY <1>6, <1>7, <1>9, <1>10, <1>11, OneSocket

(* The machine stops: its sockets are closed and its bus is gone. *)
LEMMA ExitKeeps ==
  ASSUME EventsInv, NEW m \in Machines, Exit(m)
  PROVE  EventsInv'
<1>0. /\ EventsType /\ CursorsSound /\ NoListenerLeft
      /\ \A x \in Sockets : SocketSound(x) /\ Delivered(x)
  BY DEF EventsInv
<1>1. /\ UNCHANGED <<log, cursor, missed, got>>
      /\ up' = up \ {m} /\ listening' = listening \ {m}
      /\ listeners' = [listeners EXCEPT ![m] = {}]
      /\ sock' = [s \in Sockets |-> IF sock[s].machine = m THEN [sock[s] EXCEPT !.state = "closed"]
                                    ELSE sock[s]]
  BY DEF Exit
<1>2. listeners'[m] = {} /\ \A k \in Machines : k # m => listeners'[k] = listeners[k]
  BY <1>0, <1>1 DEF EventsType
<1>3. ASSUME NEW s \in Sockets
      PROVE  /\ sock[s] \in SocketType /\ sock'[s] \in SocketType
             /\ sock'[s].machine = sock[s].machine /\ sock'[s].pp = sock[s].pp
             /\ sock'[s].since = sock[s].since
             /\ sock[s].machine = m => sock'[s].state = "closed"
             /\ sock[s].machine # m => sock'[s] = sock[s]
  BY <1>0, <1>1 DEF EventsType, SocketType
<1>4. EventsType'
  <2>1. sock' \in [Sockets -> SocketType]
    BY <1>1, <1>3
  <2>2. listeners' \in [Machines -> SUBSET Sockets]
    BY <1>0, <1>1 DEF EventsType
  <2> QED BY <1>0, <1>1, <2>1, <2>2 DEF EventsType
<1>5. CursorsSound'
  BY <1>0, <1>1 DEF CursorsSound
<1>6. NoListenerLeft'
  <2> SUFFICES ASSUME NEW k \in Machines, NEW x \in listeners'[k]
               PROVE  sock'[x].machine = k /\ sock'[x].state \in {"open", "closing", "failing"} /\ k \in up'
    BY DEF NoListenerLeft
  <2>1. k # m /\ x \in listeners[k] /\ x \in Sockets
    BY <1>0, <1>2 DEF EventsType
  <2> QED BY <1>0, <1>1, <1>3, <2>1 DEF NoListenerLeft
<1>7. ASSUME NEW s \in Sockets PROVE SocketSound(s)' /\ Delivered(s)'
  <2>1. CASE sock[s].machine # m
    <3>1. Open(s) => s \in listeners'[sock[s].machine]
      <4>1. Open(s) => s \in listeners[sock[s].machine] /\ sock[s].machine \in Machines
        BY <1>0, LiveSocket DEF SocketSound, Open
      <4> QED BY <1>2, <2>1, <4>1
    <3> QED BY <1>1, <1>3, <2>1, <3>1, SocketAlone
  <2>2. CASE sock[s].machine = m
    <3>1. sock'[s].state = "closed" /\ sock'[s].machine = m /\ ~Open(s)'
      BY <1>3, <2>2 DEF Open
    <3>2. SocketSound(s)'
      BY <1>0, <1>1, <1>3, <3>1 DEF SocketSound, Live
    <3>3. Owed(s)' = Owed(s)
      <4>1. Owed(s)' = {i \in (sock'[s].since + 1)..cursor'[sock'[s].machine] :
                          log'[i] = sock'[s].pp /\ i \notin missed'[sock'[s].machine]}
        BY DEF Owed
      <4> QED BY <1>1, <1>3, <4>1 DEF Owed
    <3>4. CASE sock[s] # NoSocket
      BY <1>0, <1>1, <3>1, <3>2, <3>3, <3>4 DEF Delivered
    <3>5. CASE sock[s] = NoSocket
      <4>1. got[s] = <<>>
        BY <1>0, <3>5, NoSocketType DEF SocketSound
      <4> QED BY <1>1, <3>1, <3>2, <4>1 DEF Delivered, ToSet
    <3> QED BY <3>2, <3>4, <3>5
  <2> QED BY <2>1, <2>2
<1> QED BY <1>4, <1>5, <1>6, <1>7 DEF EventsInv

-----------------------------------------------------------------------------
(* What a step keeps, and the theorems. *)
LEMMA EventsInit ==
  ASSUME Init
  PROVE  EventsInv
<1>1. /\ log = <<>> /\ up = {} /\ listening = {}
      /\ cursor = [m \in Machines |-> 0] /\ missed = [m \in Machines |-> {}]
      /\ listeners = [m \in Machines |-> {}]
      /\ sock = [s \in Sockets |-> NoSocket] /\ got = [s \in Sockets |-> <<>>]
  BY DEF Init
<1>2. EventsType
  BY <1>1, NoSocketType DEF EventsType
<1>3. CursorsSound
  BY <1>1 DEF CursorsSound
<1>4. NoListenerLeft
  BY <1>1 DEF NoListenerLeft
<1>5. ASSUME NEW s \in Sockets PROVE SocketSound(s) /\ Delivered(s)
  <2>1. sock[s] = NoSocket /\ got[s] = <<>> /\ sock[s].state = "none"
    BY <1>1, NoSocketType
  <2> QED BY <2>1 DEF SocketSound, Delivered, Open, Live
<1> QED BY <1>2, <1>3, <1>4, <1>5 DEF EventsInv

LEMMA ClosesKeeps ==
  ASSUME EventsInv, NEW s \in Sockets, Closes(s) \/ onerror(s) \/ onclose(s)
  PROVE  EventsInv'
<1>1. CASE Closes(s)
  <2>1. PICK next \in {"closing", "failing"} : sock' = [sock EXCEPT ![s].state = next]
    BY <1>1 DEF Closes
  <2>2. /\ UNCHANGED <<log, up, busVars, got, listeners>>
        /\ sock[s].state \in {"connecting", "open"}
    BY <1>1 DEF Closes
  <2>3. next \in {"closing", "failing", "closed"} /\ next # "closed" /\ sock[s].state \in Live
    BY <2>2 DEF Live
  <2> QED BY <2>1, <2>2, <2>3, SocketCloses
<1>2. CASE onerror(s)
  <2>1. /\ UNCHANGED <<log, up, busVars, got>> /\ sock[s].state \in Live
        /\ sock' = [sock EXCEPT ![s].state = "closing"]
        /\ listeners' = [listeners EXCEPT ![sock[s].machine] = @ \ {s}]
    BY <1>2 DEF onerror, cleanup, Live
  <2> QED BY <2>1, SocketCloses
<1>3. CASE onclose(s)
  <2>1. /\ UNCHANGED <<log, up, busVars, got>> /\ sock[s].state \in Live
        /\ sock' = [sock EXCEPT ![s].state = "closed"]
        /\ listeners' = [listeners EXCEPT ![sock[s].machine] = @ \ {s}]
    BY <1>3 DEF onclose, cleanup, Live
  <2> QED BY <2>1, SocketCloses
<1> QED BY <1>1, <1>2, <1>3

LEMMA EventsStutter ==
  ASSUME EventsInv, UNCHANGED vars
  PROVE  EventsInv'
<1>1. UNCHANGED <<emitted, outbox, log, up, listening, cursor, missed, listeners, sock, got, faults>>
  BY DEF vars, busVars, wsVars
<1> QED BY <1>1 DEF EventsInv, EventsType, CursorsSound, NoListenerLeft, SocketSound, Delivered,
                    Open, Owed, ToSet

LEMMA EventsStep ==
  ASSUME EventsInv, [Next]_vars
  PROVE  EventsInv'
<1>1. CASE \E m \in Machines, owners \in SUBSET Pps \ {{}} : Emit(m, owners)
  BY <1>1, EmitKeeps
<1>2. CASE \E m \in Machines, p \in Pps : Notify(m, p) \/ DropEvent(m, p)
  BY <1>2, EmitKeeps
<1>3. CASE ForeignNotify
  BY <1>3, EmitKeeps
<1>4. ASSUME NEW m \in Machines,
             onNotify(m) \/ StartListening(m) \/ Serve(m) \/ ConnectionLost(m) \/ Exit(m)
      PROVE  EventsInv'
  BY <1>4, onNotifyKeeps, StartListeningKeeps, EmitKeeps, ConnectionLostKeeps, ExitKeeps
<1>5. CASE \E s \in Sockets, m \in Machines, p \in Pps : Connect(s, m, p)
  BY <1>5, ConnectKeeps
<1>6. CASE \E s \in Sockets : onopen(s) \/ Closes(s) \/ onerror(s) \/ onclose(s)
  BY <1>6, onopenKeeps, ClosesKeeps
<1>7. CASE UNCHANGED vars
  BY <1>7, EventsStutter
<1> QED BY <1>1, <1>2, <1>3, <1>4, <1>5, <1>6, <1>7 DEF Next

LEMMA EventsInvariant == Spec => []EventsInv
<1> QED BY EventsInit, EventsStep, PTL DEF Spec

(* Whoever is subscribed to the bus of a machine is a socket of that machine,
   which serves, whose close is still to be handled: cleanup() of the handler
   that runs at the close always finds and removes the listener. *)
THEOREM ListenersAreReleased == Spec => []NoListenerLeft
<1>1. EventsInv => NoListenerLeft
  BY DEF EventsInv
<1> QED BY <1>1, EventsInvariant, PTL

(* An open socket was sent, once each and in the order of the notifications,
   exactly the events of its provider that its machine received since onopen
   subscribed it, and never one of another operator's provider, whatever the
   machines lose, restart or miss. *)
THEOREM EventsDeliveredExactly == Spec => []DeliveredExactly
<1>1. ASSUME EventsInv PROVE DeliveredExactly
  <2> SUFFICES ASSUME NEW s \in Sockets, sock[s] # NoSocket
               PROVE  /\ \A i, j \in DOMAIN got[s] : i < j => got[s][i] < got[s][j]
                      /\ IF Open(s) THEN ToSet(got[s]) = Owed(s)
                                    ELSE ToSet(got[s]) \subseteq Owed(s)
                      /\ \A i \in DOMAIN got[s] : OwnerOf[log[got[s][i]]] = OperatorOf[s]
    BY DEF DeliveredExactly
  <2>1. EventsType /\ SocketSound(s) /\ Delivered(s)
    BY <1>1 DEF EventsInv
  <2>2. /\ \A i, j \in DOMAIN got[s] : i < j => got[s][i] < got[s][j]
        /\ ToSet(got[s]) \subseteq Owed(s)
        /\ Open(s) => Owed(s) \subseteq ToSet(got[s])
    BY <2>1 DEF Delivered
  <2>3. ASSUME NEW i \in DOMAIN got[s] PROVE OwnerOf[log[got[s][i]]] = OperatorOf[s]
    <3>1. got[s][i] \in Owed(s)
      BY <2>2, SentIs
    <3>2. log[got[s][i]] = sock[s].pp
      BY <3>1, OwedIs
    <3>3. got[s] # <<>>
      OBVIOUS
    <3> QED BY <2>1, <3>2, <3>3 DEF SocketSound
  <2>4. IF Open(s) THEN ToSet(got[s]) = Owed(s) ELSE ToSet(got[s]) \subseteq Owed(s)
    <3> DEFINE A == ToSet(got[s])
               B == Owed(s)
    <3>1. A \subseteq B /\ (Open(s) => B \subseteq A)
      BY <2>2
    <3> HIDE DEF A, B
    <3>2. IF Open(s) THEN A = B ELSE A \subseteq B
      BY <3>1
    <3> QED BY <3>2 DEF A, B
  <2> QED BY <2>2, <2>3, <2>4
<1> QED BY <1>1, EventsInvariant, PTL
=============================================================================
