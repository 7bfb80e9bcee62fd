---------------------------- MODULE CouncilProofs ----------------------------
(* Proofs about the event watcher and about the council memberships and the
   channel registry it feeds, for any number of contracts, providers, requests
   in progress, ledgers and restarts, any slices and batches of the reads. *)
EXTENDS Council, FiniteSums

(* An event that must have been handed over once a cursor has passed it. *)
Due(l) == l >= oldest /\ chain[l].contract \in steady /\ chain[l].type \in KNOWN_TOPICS

(* Backfill walks from start up to the ceiling, the live cursor from there on. *)
CursorsOrdered ==
  /\ live # 0 => ceiling \in 1..live /\ start \in 1..ceiling
  /\ backfill # 0 => backfill \in start..(ceiling - 1) /\ StartPin <= backfill
  /\ poll.pc # "idle" => live # 0
  /\ poll.pc = "backfill" => backfill # 0

(* What a read will have passed when it is done is dispatched or in hand. *)
ReadInFlight ==
  /\ poll.pc = "live" =>
       /\ live <= poll.upto + 1
       /\ \A l \in live..poll.upto : Due(l) => l \in seen \cup poll.inbox
  /\ poll.pc = "backfill" =>
       /\ backfill <= poll.upto + 1
       /\ \A l \in backfill..poll.upto : l < ceiling /\ Due(l) => l \in walked \cup poll.inbox

(* The ceiling separates what the two reads dispatch. *)
SeamSound ==
  /\ \A l \in seen : ceiling <= l
  /\ \A l \in walked : l < ceiling
  /\ poll.pc = "live" => \A l \in poll.inbox : ceiling <= l
  /\ poll.pc = "backfill" => \A l \in poll.inbox : l < ceiling

WatcherInv == WatcherTypeOK /\ CursorsOrdered /\ ReadInFlight /\ SeamSound /\ NothingSkipped

-----------------------------------------------------------------------------
LEMMA Numbers ==
  ASSUME WatcherTypeOK
  PROVE  /\ Tip \in Nat /\ oldest \in Nat /\ oldest >= 1 /\ oldest <= Tip
         /\ live \in Nat /\ live <= Tip + 1
         /\ backfill \in Nat /\ backfill <= Tip
         /\ ceiling \in Nat /\ ceiling <= Tip /\ start \in Nat /\ start <= Tip
         /\ poll.pc \in {"idle", "live", "walk", "backfill"}
         /\ poll.upto \in Nat /\ poll.upto <= Tip
         /\ poll.inbox \subseteq 1..Tip /\ \A l \in poll.inbox : l \in Nat /\ 1 <= l /\ l <= Tip
         /\ \A l \in seen : l \in Nat /\ 1 <= l /\ l <= Tip
         /\ \A l \in walked : l \in Nat /\ 1 <= l /\ l <= Tip
         /\ StartPin \in Nat
<1>1. Tip \in Nat
  BY DEF WatcherTypeOK, Tip
<1>2. /\ oldest \in 1..Tip /\ live \in 0..(Tip + 1) /\ backfill \in 0..Tip /\ ceiling \in 0..Tip
      /\ start \in 0..Tip /\ seen \subseteq 1..Tip /\ walked \subseteq 1..Tip
  BY DEF WatcherTypeOK
<1>3. /\ poll.pc \in {"idle", "live", "walk", "backfill"} /\ poll.upto \in 0..Tip
      /\ poll.inbox \subseteq 1..Tip
  BY DEF WatcherTypeOK
<1> HIDE DEF Tip
<1> QED BY <1>1, <1>2, <1>3, WatcherAssumption

LEMMA NoPollType ==
  /\ NoPoll.pc = "idle" /\ NoPoll.inbox = {} /\ NoPoll.upto = 0
  /\ NoPoll = [NoPoll EXCEPT !.pc = NoPoll.pc]
  /\ \A n \in Nat : NoPoll \in [pc : {"idle", "live", "walk", "backfill"}, inbox : SUBSET (1..n), upto : 0..n]
BY DEF NoPoll

LEMMA WalkType ==
  LET w == [NoPoll EXCEPT !.pc = "walk"]
  IN /\ w.pc = "walk" /\ w.inbox = {} /\ w.upto = 0 /\ w = [NoPoll EXCEPT !.pc = w.pc]
     /\ \A n \in Nat : w \in [pc : {"idle", "live", "walk", "backfill"}, inbox : SUBSET (1..n), upto : 0..n]
BY DEF NoPoll

(* The least of some naturals, as the source's sort and Math.min choose it. *)
LEMMA Least ==
  ASSUME NEW T \in SUBSET Nat, T # {}
  PROVE  LET m == CHOOSE x \in T : \A y \in T : x <= y
         IN m \in T /\ \A y \in T : m <= y
BY LeastNatural

LEMMA NextEventIsLeast ==
  ASSUME WatcherTypeOK, poll.inbox # {}
  PROVE  NextEvent \in poll.inbox /\ \A l \in poll.inbox : NextEvent <= l
<1>1. poll.inbox \in SUBSET Nat
  BY Numbers
<1> QED BY <1>1, Least DEF NextEvent

(* What one fetchChannelAuthEvents brings: every known event of a watched
   contract up to the ledger it reports, and nothing before its cursor. *)
LEMMA FetchedIsComplete ==
  ASSUME WatcherTypeOK, NEW from \in Nat, 1 <= from, from <= Tip + 1, NEW ends \in Reports(from)
  PROVE  LET f == Fetched(from, ends)
         IN /\ f.upto \in 0..Tip /\ from <= f.upto + 1
            /\ f.inbox \subseteq from..Tip
            /\ \A l \in from..f.upto :
                 chain[l].contract \in contracts /\ chain[l].type \in KNOWN_TOPICS => l \in f.inbox
<1> DEFINE f == Fetched(from, ends)
           E == {ends[c] : c \in contracts}
<1>1. Tip \in Nat
  BY Numbers
<1>2. /\ f.inbox = UNION {ParsedEvents({c}, from, ends[c]) : c \in contracts}
      /\ f.upto = IF contracts = {} THEN from - 1
                  ELSE CHOOSE u \in E : \A c \in contracts : u <= ends[c]
  BY DEF Fetched
<1>3. \A c \in contracts : ends[c] \in Nat /\ ends[c] <= Tip /\ from <= ends[c] + 1
  <2>1. ends \in [contracts -> IF from > Tip THEN {Tip} ELSE from..Tip]
    BY DEF Reports
  <2> HIDE DEF Tip
  <2>2. CASE from > Tip
    <3>1. \A c \in contracts : ends[c] = Tip
      BY <2>1, <2>2
    <3> QED BY <1>1, <2>2, <3>1
  <2>3. CASE ~(from > Tip)
    <3>1. \A c \in contracts : ends[c] \in from..Tip
      BY <2>1, <2>3
    <3> QED BY <1>1, <2>3, <3>1
  <2> QED BY <2>2, <2>3
<1>4. f.upto \in 0..Tip /\ from <= f.upto + 1 /\ \A c \in contracts : f.upto <= ends[c]
  <2>1. CASE contracts = {}
    <3>1. f.upto = from - 1
      BY <1>2, <2>1
    <3> HIDE DEF f, Tip
    <3> QED BY <1>1, <2>1, <3>1
  <2>2. CASE contracts # {}
    <3>1. E \in SUBSET Nat /\ E # {}
      BY <1>3, <2>2
    <3>2. \E u \in E : \A y \in E : u <= y
      BY <3>1, LeastNatural
    <3>3. \E u \in E : \A c \in contracts : u <= ends[c]
      BY <3>2
    <3>4. f.upto \in E /\ \A c \in contracts : f.upto <= ends[c]
      BY <1>2, <2>2, <3>3
    <3>5. PICK c \in contracts : f.upto = ends[c]
      BY <3>4
    <3> HIDE DEF f, E, Tip
    <3> QED BY <1>1, <1>3, <3>4, <3>5
  <2> QED BY <2>1, <2>2
<1>5. \A l : l \in f.inbox <=>
        \E c \in contracts : /\ l \in from..ends[c] /\ chain[l].contract = c
                             /\ chain[l].type \in KNOWN_TOPICS
  BY <1>2 DEF ParsedEvents
<1> HIDE DEF f, E, Tip
<1>6. f.inbox \subseteq from..Tip
  BY <1>1, <1>3, <1>5
<1>7. ASSUME NEW l \in from..f.upto, chain[l].contract \in contracts, chain[l].type \in KNOWN_TOPICS
      PROVE  l \in f.inbox
  <2>1. l \in from..ends[chain[l].contract]
    BY <1>1, <1>3, <1>4, <1>7
  <2> QED BY <1>5, <1>7, <2>1
<1> QED BY <1>4, <1>6, <1>7 DEF f

-----------------------------------------------------------------------------
(* What changes around the poller *)

LEMMA WatcherAlone ==
  ASSUME WatcherInv, UNCHANGED watcherVars
  PROVE  WatcherInv'
<1>1. UNCHANGED <<chain, oldest, contracts, live, backfill, ceiling, poll, start, seen, walked, steady>>
  BY DEF watcherVars, rpcVars, cursorVars, watchVars
<1> QED BY <1>1 DEF WatcherInv, WatcherTypeOK, CursorsOrdered, ReadInFlight, SeamSound, NothingSkipped,
                    Due, Passed, BackfillPassed, LivePassed, Tip

(* Contracts come and go.  A new one counts as watched from the beginning only
   if no cursor has moved and no read is in flight. *)
LEMMA WatchChanges ==
  ASSUME WatcherInv, contracts' \subseteq Contracts, steady' \subseteq contracts',
         steady' \subseteq steady \/ (Passed = {} /\ poll.pc = "idle"),
         UNCHANGED <<rpcVars, cursorVars, poll>>
  PROVE  WatcherInv'
<1>1. UNCHANGED <<chain, oldest, live, backfill, ceiling, poll, start, seen, walked>>
  BY DEF rpcVars, cursorVars
<1>2. WatcherTypeOK'
  BY <1>1 DEF WatcherInv, WatcherTypeOK, Tip
<1>3. CursorsOrdered' /\ SeamSound'
  BY <1>1 DEF WatcherInv, CursorsOrdered, SeamSound
<1>4. Passed' = Passed
  BY <1>1 DEF Passed, BackfillPassed, LivePassed
<1>5. CASE steady' \subseteq steady
  <2>1. \A l : Due(l)' => Due(l)
    BY <1>1, <1>5 DEF Due
  <2>2. ReadInFlight'
    BY <1>1, <2>1 DEF WatcherInv, ReadInFlight
  <2>3. NothingSkipped'
    BY <1>1, <1>4, <1>5 DEF WatcherInv, NothingSkipped
  <2> QED BY <1>2, <1>3, <2>2, <2>3 DEF WatcherInv
<1>6. CASE Passed = {} /\ poll.pc = "idle"
  BY <1>1, <1>2, <1>3, <1>4, <1>6 DEF WatcherInv, ReadInFlight, NothingSkipped
<1> QED BY <1>5, <1>6

LEMMA RetentionAdvancesKeeps ==
  ASSUME WatcherInv, RetentionAdvances
  PROVE  WatcherInv'
<1>1. /\ UNCHANGED <<chain, contracts, live, backfill, ceiling, poll, start, seen, walked, steady>>
      /\ oldest' = oldest + 1 /\ oldest < Tip
  BY DEF RetentionAdvances, cursorVars, watchVars
<1>2. oldest \in Nat /\ Tip \in Nat /\ WatcherTypeOK
  BY Numbers DEF WatcherInv
<1>3. WatcherTypeOK'
  BY <1>1, <1>2 DEF WatcherTypeOK, Tip
<1>4. CursorsOrdered' /\ SeamSound'
  BY <1>1 DEF WatcherInv, CursorsOrdered, SeamSound
<1>5. \A l \in Int : Due(l)' => Due(l)
  BY <1>1, <1>2 DEF Due
<1>6. ReadInFlight'
  BY <1>1, <1>5 DEF WatcherInv, ReadInFlight
<1>7. NothingSkipped'
  <2>1. Passed' = Passed /\ Passed \subseteq Int
    BY <1>1 DEF Passed, BackfillPassed, LivePassed
  <2>2. \A l \in Int : l >= oldest' => l >= oldest
    BY <1>1, <1>2
  <2> QED BY <1>1, <2>1, <2>2 DEF WatcherInv, NothingSkipped
<1> QED BY <1>3, <1>4, <1>6, <1>7 DEF WatcherInv

LEMMA CloseLedgerKeeps ==
  ASSUME WatcherInv, NEW e \in Events, CloseLedger(e)
  PROVE  WatcherInv'
<1>1. /\ UNCHANGED <<oldest, contracts, live, backfill, ceiling, poll, start, seen, walked, steady>>
      /\ chain' = Append(chain, e)
  BY DEF CloseLedger, cursorVars, watchVars
<1>2. WatcherTypeOK /\ chain \in Seq(Events)
  BY DEF WatcherInv, WatcherTypeOK
<1>3. /\ chain' \in Seq(Events) /\ chain' # <<>> /\ Tip' = Tip + 1
      /\ \A l \in 1..Tip : chain'[l] = chain[l]
  BY <1>1, <1>2 DEF Tip
<1>4. Tip \in Nat
  BY <1>2 DEF Tip
<1>5. WatcherTypeOK'
  <2>1. \A k \in Nat : 0..k \subseteq 0..(k + 1) /\ 1..k \subseteq 1..(k + 1)
    OBVIOUS
  <2>2. 0..(Tip + 1) \subseteq 0..(Tip' + 1) /\ 0..Tip \subseteq 0..Tip' /\ 1..Tip \subseteq 1..Tip'
    BY <1>3, <1>4, <2>1
  <2>3. poll' \in [pc : {"idle", "live", "walk", "backfill"}, inbox : SUBSET (1..Tip'), upto : 0..Tip']
    BY <1>1, <1>2, <2>2 DEF WatcherTypeOK
  <2> HIDE DEF Tip
  <2> QED BY <1>1, <1>2, <1>3, <2>2, <2>3 DEF WatcherTypeOK
<1>6. CursorsOrdered' /\ SeamSound'
  BY <1>1 DEF WatcherInv, CursorsOrdered, SeamSound
<1>7. \A l \in 1..Tip : Due(l)' <=> Due(l)
  BY <1>1, <1>3 DEF Due
<1>8. ReadInFlight'
  <2>1. /\ poll.pc = "live" => live..poll.upto \subseteq 1..Tip
        /\ poll.pc = "backfill" => backfill..poll.upto \subseteq 1..Tip
    <3> HIDE DEF Tip
    <3> QED BY <1>2, Numbers DEF WatcherInv, CursorsOrdered
  <2> QED BY <1>1, <1>7, <2>1 DEF WatcherInv, ReadInFlight
<1>9. NothingSkipped'
  <2>1. Passed' = Passed
    BY <1>1 DEF Passed, BackfillPassed, LivePassed
  <2>2. Passed \subseteq 1..Tip
    <3> HIDE DEF Tip
    <3> QED BY <1>2, Numbers DEF WatcherInv, CursorsOrdered, Passed, BackfillPassed, LivePassed
  <2> QED BY <1>1, <1>3, <2>1, <2>2 DEF WatcherInv, NothingSkipped
<1> QED BY <1>5, <1>6, <1>8, <1>9 DEF WatcherInv

(* The poller as it is when the process starts. *)
LEMMA FreshWatcher ==
  ASSUME chain \in Seq(Events), chain # <<>>, oldest \in 1..Tip, contracts = {}, steady = {},
         live = 0, backfill = 0, ceiling = 0, start = 0, seen = {}, walked = {}, poll = NoPoll
  PROVE  WatcherInv
<1>1. Tip \in Nat
  BY DEF Tip
<1>2. WatcherTypeOK
  BY <1>1, NoPollType DEF WatcherTypeOK
<1> QED BY <1>1, <1>2, NoPollType
        DEF WatcherInv, CursorsOrdered, ReadInFlight, SeamSound, NothingSkipped, Passed,
            BackfillPassed, LivePassed

-----------------------------------------------------------------------------
(* The steps of a poll *)

LEMMA DispatchKeeps ==
  ASSUME WatcherInv, Dispatch
  PROVE  WatcherInv'
<1>1. /\ UNCHANGED <<chain, oldest, live, backfill, ceiling, start, contracts, steady>>
      /\ poll.inbox # {} /\ poll' = [poll EXCEPT !.inbox = @ \ {NextEvent}]
      /\ seen' = IF poll.pc = "live" THEN seen \cup {NextEvent} ELSE seen
      /\ walked' = IF poll.pc = "live" THEN walked ELSE walked \cup {NextEvent}
  BY DEF Dispatch, rpcVars, watchVars
<1>2. WatcherTypeOK /\ CursorsOrdered /\ ReadInFlight /\ SeamSound /\ NothingSkipped
  BY DEF WatcherInv
<1>3. /\ poll'.pc = poll.pc /\ poll'.upto = poll.upto /\ poll'.inbox = poll.inbox \ {NextEvent}
      /\ poll' \in [pc : {"idle", "live", "walk", "backfill"}, inbox : SUBSET (1..Tip), upto : 0..Tip]
  BY <1>1, <1>2 DEF WatcherTypeOK
<1>4. NextEvent \in poll.inbox
  BY <1>1, <1>2, NextEventIsLeast
<1>5. poll.pc \in {"live", "backfill"}
  <2>1. poll.pc \in {"idle", "walk"} => poll.inbox = {}
    BY <1>2 DEF WatcherTypeOK, NoPoll
  <2> QED BY <1>1, <1>2, <2>1, Numbers
<1>6. WatcherTypeOK'
  <2>1. seen' \subseteq 1..Tip /\ walked' \subseteq 1..Tip
    BY <1>1, <1>2, <1>4, Numbers DEF WatcherTypeOK
  <2>2. Tip' = Tip
    BY <1>1 DEF Tip
  <2> HIDE DEF Tip
  <2> QED BY <1>1, <1>2, <1>3, <1>5, <2>1, <2>2 DEF WatcherTypeOK
<1>7. CursorsOrdered'
  BY <1>1, <1>2, <1>3 DEF CursorsOrdered
<1>8. seen' \cup walked' = seen \cup walked \cup {NextEvent}
  BY <1>1
<1>9. ReadInFlight'
  <2>1. \A l : Due(l)' <=> Due(l)
    BY <1>1 DEF Due
  <2> QED BY <1>1, <1>2, <1>3, <2>1 DEF ReadInFlight
<1>10. SeamSound'
  BY <1>1, <1>2, <1>3, <1>4, <1>5 DEF SeamSound
<1>11. NothingSkipped'
  <2>1. Passed' = Passed
    BY <1>1 DEF Passed, BackfillPassed, LivePassed
  <2> QED BY <1>1, <1>2, <1>8, <2>1 DEF NothingSkipped
<1> QED BY <1>6, <1>7, <1>9, <1>10, <1>11 DEF WatcherInv

LEMMA ResolveCursorsKeeps ==
  ASSUME WatcherInv, ResolveCursors
  PROVE  WatcherInv'
<1>1. /\ UNCHANGED <<chain, oldest, contracts, poll>> /\ poll.pc = "idle"
      /\ live' = Tip /\ ceiling' = Tip
      /\ backfill' = IF BootStartLedger >= Tip THEN 0 ELSE BootStartLedger
      /\ start' = IF BootStartLedger >= Tip THEN Tip ELSE BootStartLedger
      /\ seen' = {} /\ walked' = {} /\ steady' = contracts
  BY DEF ResolveCursors, rpcVars
<1>2. WatcherTypeOK /\ Tip \in Nat /\ oldest \in Nat /\ oldest >= 1 /\ oldest <= Tip /\ StartPin \in Nat
  BY Numbers DEF WatcherInv
<1>3. BootStartLedger \in Nat /\ oldest <= BootStartLedger /\ StartPin <= BootStartLedger
  BY <1>2 DEF BootStartLedger
<1>4. Tip' = Tip
  BY <1>1 DEF Tip
<1> HIDE DEF Tip, BootStartLedger
<1>5. WatcherTypeOK'
  <2>1. /\ live' \in 0..(Tip + 1) /\ ceiling' \in 0..Tip /\ backfill' \in 0..Tip /\ start' \in 0..Tip
        /\ oldest \in 1..Tip
    BY <1>1, <1>2, <1>3
  <2> QED BY <1>1, <1>2, <1>4, <2>1 DEF WatcherTypeOK
<1>6. CursorsOrdered'
  BY <1>1, <1>2, <1>3 DEF CursorsOrdered
<1>7. ReadInFlight' /\ SeamSound'
  BY <1>1 DEF ReadInFlight, SeamSound
<1>8. NothingSkipped'
  <2>1. Passed' = {}
    <3>1. BackfillPassed' = {}
      BY <1>1, <1>2, <1>3 DEF BackfillPassed
    <3>2. LivePassed' = {}
      BY <1>1, <1>2 DEF LivePassed
    <3> QED BY <3>1, <3>2 DEF Passed
  <2> QED BY <2>1 DEF NothingSkipped
<1> QED BY <1>5, <1>6, <1>7, <1>8 DEF WatcherInv

LEMMA LiveOutOfRetentionKeeps ==
  ASSUME WatcherInv, LiveOutOfRetention
  PROVE  WatcherInv'
<1>1. /\ UNCHANGED <<chain, oldest, contracts, backfill, ceiling, poll, start, seen, walked, steady>>
      /\ live' = 0 /\ poll.pc = "idle"
  BY DEF LiveOutOfRetention, rpcVars, watchVars
<1>2. WatcherTypeOK'
  BY <1>1 DEF WatcherInv, WatcherTypeOK, Tip
<1>3. CursorsOrdered' /\ ReadInFlight' /\ SeamSound'
  BY <1>1 DEF WatcherInv, CursorsOrdered, ReadInFlight, SeamSound
<1>4. NothingSkipped'
  BY <1>1 DEF NothingSkipped, Passed, BackfillPassed, LivePassed
<1> QED BY <1>2, <1>3, <1>4 DEF WatcherInv

(* A read starts: nothing but the poll changes. *)
LEMMA ReadStarts ==
  ASSUME WatcherInv, UNCHANGED <<rpcVars, cursorVars, watchVars>>,
         poll' \in [pc : {"live", "backfill"}, inbox : SUBSET (1..Tip), upto : 0..Tip],
         live # 0, poll'.pc = "backfill" => backfill # 0,
         ReadInFlight',
         poll'.pc = "live" => \A l \in poll'.inbox : ceiling <= l,
         poll'.pc = "backfill" => \A l \in poll'.inbox : l < ceiling
  PROVE  WatcherInv'
<1>1. UNCHANGED <<chain, oldest, contracts, live, backfill, ceiling, start, seen, walked, steady>>
  BY DEF rpcVars, cursorVars, watchVars
<1>2. WatcherTypeOK /\ CursorsOrdered /\ SeamSound /\ NothingSkipped
  BY DEF WatcherInv
<1>3. WatcherTypeOK'
  <2>1. Tip' = Tip
    BY <1>1 DEF Tip
  <2>2. poll' \in [pc : {"idle", "live", "walk", "backfill"}, inbox : SUBSET (1..Tip), upto : 0..Tip]
        /\ poll'.pc \notin {"idle", "walk"}
    OBVIOUS
  <2> HIDE DEF Tip
  <2> QED BY <1>1, <1>2, <2>1, <2>2 DEF WatcherTypeOK
<1>4. CursorsOrdered' /\ SeamSound'
  BY <1>1, <1>2 DEF CursorsOrdered, SeamSound
<1>5. NothingSkipped'
  <2>1. Passed' = Passed
    BY <1>1 DEF Passed, BackfillPassed, LivePassed
  <2> QED BY <1>1, <1>2, <2>1 DEF NothingSkipped
<1> QED BY <1>3, <1>4, <1>5 DEF WatcherInv

LEMMA LiveReadKeeps ==
  ASSUME WatcherInv, LiveRead
  PROVE  WatcherInv'
<1>1. PICK ends \in Reports(live) :
        poll' = [pc |-> "live", inbox |-> Fetched(live, ends).inbox, upto |-> Fetched(live, ends).upto]
  BY DEF LiveRead
<1>2. UNCHANGED <<rpcVars, cursorVars, watchVars>> /\ live # 0
  BY DEF LiveRead
<1>3. WatcherTypeOK /\ CursorsOrdered /\ Tip \in Nat /\ live \in Nat /\ live <= Tip + 1 /\ ceiling \in Nat
  BY Numbers DEF WatcherInv
<1>4. 1 <= live /\ ceiling <= live /\ ceiling \in Nat
  BY <1>2, <1>3 DEF CursorsOrdered
<1> DEFINE F == Fetched(live, ends).inbox
           u == Fetched(live, ends).upto
<1>5. /\ u \in 0..Tip /\ live <= u + 1 /\ F \subseteq live..Tip
      /\ \A l \in live..u :
           chain[l].contract \in contracts /\ chain[l].type \in KNOWN_TOPICS => l \in F
  BY <1>3, <1>4, FetchedIsComplete
<1>6. poll' = [pc |-> "live", inbox |-> F, upto |-> u]
  BY <1>1
<1> HIDE DEF F, u, Tip
<1>7. F \subseteq 1..Tip /\ \A l \in F : ceiling <= l
  BY <1>3, <1>4, <1>5
<1>8. poll'.pc = "live" /\ poll'.inbox = F /\ poll'.upto = u
  BY <1>6
<1>9. ReadInFlight'
  <2>1. UNCHANGED <<live, seen, chain, oldest, steady>>
    BY <1>2 DEF rpcVars, cursorVars, watchVars
  <2>2. \A l : Due(l)' => chain[l].contract \in contracts /\ chain[l].type \in KNOWN_TOPICS
    BY <1>3, <2>1 DEF Due, WatcherTypeOK
  <2> QED BY <1>5, <1>8, <2>1, <2>2 DEF ReadInFlight
<1>10. poll' \in [pc : {"live", "backfill"}, inbox : SUBSET (1..Tip), upto : 0..Tip]
  BY <1>5, <1>6, <1>7
<1> QED BY <1>2, <1>7, <1>8, <1>9, <1>10, ReadStarts

LEMMA BackfillReadKeeps ==
  ASSUME WatcherInv, BackfillRead
  PROVE  WatcherInv'
<1>1. PICK ends \in Reports(backfill) :
        poll' = [pc |-> "backfill", inbox |-> BelowCeiling(Fetched(backfill, ends).inbox),
                 upto |-> Fetched(backfill, ends).upto]
  BY DEF BackfillRead
<1>2. /\ UNCHANGED <<rpcVars, cursorVars, watchVars>> /\ backfill # 0 /\ backfill < ceiling
      /\ poll.pc = "walk"
  BY DEF BackfillRead
<1>3. /\ WatcherTypeOK /\ CursorsOrdered /\ Tip \in Nat /\ backfill \in Nat /\ backfill <= Tip
      /\ ceiling \in Nat
  BY Numbers DEF WatcherInv
<1>4. 1 <= backfill /\ backfill <= Tip + 1 /\ live # 0
  BY <1>2, <1>3 DEF CursorsOrdered
<1> DEFINE F == Fetched(backfill, ends).inbox
           G == BelowCeiling(F)
           u == Fetched(backfill, ends).upto
<1>5. /\ u \in 0..Tip /\ backfill <= u + 1 /\ F \subseteq backfill..Tip
      /\ \A l \in backfill..u :
           chain[l].contract \in contracts /\ chain[l].type \in KNOWN_TOPICS => l \in F
  BY <1>3, <1>4, FetchedIsComplete
<1>6. poll' = [pc |-> "backfill", inbox |-> G, upto |-> u]
  BY <1>1
<1>7. \A l : l \in G <=> l \in F /\ l < ceiling
  BY DEF BelowCeiling
<1> HIDE DEF F, G, u, Tip
<1>8. G \subseteq 1..Tip
  <2>1. G \subseteq F
    BY <1>7
  <2>2. F \subseteq 1..Tip
    BY <1>3, <1>4, <1>5
  <2> QED BY <2>1, <2>2
<1>9. poll'.pc = "backfill" /\ poll'.inbox = G /\ poll'.upto = u
  BY <1>6
<1>10. ReadInFlight'
  <2>1. UNCHANGED <<backfill, walked, ceiling, chain, oldest, steady>>
    BY <1>2 DEF rpcVars, cursorVars, watchVars
  <2>2. \A l : Due(l)' => chain[l].contract \in contracts /\ chain[l].type \in KNOWN_TOPICS
    BY <1>3, <2>1 DEF Due, WatcherTypeOK
  <2> QED BY <1>5, <1>7, <1>9, <2>1, <2>2 DEF ReadInFlight
<1>11. poll' \in [pc : {"live", "backfill"}, inbox : SUBSET (1..Tip), upto : 0..Tip]
  BY <1>5, <1>6, <1>8
<1> QED BY <1>2, <1>4, <1>7, <1>9, <1>10, <1>11, ReadStarts

LEMMA LiveReadDoneKeeps ==
  ASSUME WatcherInv, LiveReadDone
  PROVE  WatcherInv'
<1>1. /\ UNCHANGED <<chain, oldest, contracts, backfill, ceiling, start, seen, walked, steady>>
      /\ live' = poll.upto + 1 /\ poll' = [NoPoll EXCEPT !.pc = "walk"]
      /\ poll.pc = "live" /\ poll.inbox = {}
  BY DEF LiveReadDone, rpcVars, watchVars
<1>2. WatcherTypeOK /\ CursorsOrdered /\ ReadInFlight /\ SeamSound /\ NothingSkipped
  BY DEF WatcherInv
<1>3. /\ Tip \in Nat /\ live \in Nat /\ ceiling \in Nat /\ poll.upto \in Nat /\ poll.upto <= Tip
      /\ start \in Nat /\ backfill \in Nat
  BY <1>2, Numbers
<1>4. /\ live # 0 /\ ceiling >= 1 /\ ceiling <= live /\ live <= poll.upto + 1
      /\ start >= 1 /\ start <= ceiling
      /\ \A l \in live..poll.upto : Due(l) => l \in seen
  BY <1>1, <1>2, <1>3 DEF CursorsOrdered, ReadInFlight
<1>5. poll'.pc = "walk" /\ poll'.inbox = {}
  BY <1>1, WalkType
<1>6. live' \in 0..(Tip + 1) /\ live' # 0 /\ ceiling \in 1..live' /\ start \in 1..ceiling
  BY <1>1, <1>3, <1>4
<1>7. WatcherTypeOK'
  <2>1. Tip' = Tip
    BY <1>1 DEF Tip
  <2>2. /\ poll' \in [pc : {"idle", "live", "walk", "backfill"}, inbox : SUBSET (1..Tip), upto : 0..Tip]
        /\ poll' = [NoPoll EXCEPT !.pc = poll'.pc]
    BY <1>1, <1>3, WalkType
  <2> HIDE DEF Tip
  <2> QED BY <1>1, <1>2, <1>6, <2>1, <2>2 DEF WatcherTypeOK
<1>8. CursorsOrdered'
  BY <1>1, <1>2, <1>5, <1>6 DEF CursorsOrdered
<1>9. ReadInFlight' /\ SeamSound'
  BY <1>1, <1>2, <1>5 DEF ReadInFlight, SeamSound
<1>10. NothingSkipped'
  <2>1. \A l : l \in Passed' => l \in Passed \/ l \in live..poll.upto
    <3> SUFFICES ASSUME NEW l \in Passed' PROVE l \in Passed \/ l \in live..poll.upto
      OBVIOUS
    <3>1. CASE l \in BackfillPassed'
      <4>1. BackfillPassed' = BackfillPassed
        BY <1>1, <1>4, <1>6 DEF BackfillPassed
      <4> QED BY <3>1, <4>1 DEF Passed
    <3>2. CASE l \in LivePassed'
      <4>1. l \in ceiling..poll.upto
        BY <1>1, <1>3, <1>6, <3>2 DEF LivePassed
      <4>2. l \in ceiling..(live - 1) \/ l \in live..poll.upto
        BY <1>3, <1>4, <4>1
      <4> QED BY <1>4, <4>2 DEF Passed, LivePassed
    <3> QED BY <3>1, <3>2 DEF Passed
  <2> QED BY <1>1, <1>2, <1>4, <2>1 DEF NothingSkipped, Due
<1> QED BY <1>7, <1>8, <1>9, <1>10 DEF WatcherInv

(* A walk ends: backfill stands at next, or is over. *)
LEMMA WalkEnds ==
  ASSUME WatcherInv, UNCHANGED <<rpcVars, live, ceiling, start, seen, walked, watchVars>>,
         poll.pc # "idle", poll' = NoPoll,
         NEW next \in Nat,
         backfill' = backfill \/ (backfill' = BackfillAt(next) /\ backfill # 0 /\ backfill <= next),
         \A l \in backfill..(next - 1) : l < ceiling /\ Due(l) => l \in walked
  PROVE  WatcherInv'
<1>1. UNCHANGED <<chain, oldest, contracts, live, ceiling, start, seen, walked, steady>>
  BY DEF rpcVars, watchVars
<1>2. WatcherTypeOK /\ CursorsOrdered /\ SeamSound /\ NothingSkipped
  BY DEF WatcherInv
<1>3. /\ Tip \in Nat /\ live \in Nat /\ ceiling \in Nat /\ start \in Nat /\ backfill \in Nat
      /\ StartPin \in Nat /\ ceiling <= Tip /\ backfill <= Tip
  BY <1>2, Numbers
<1>4. live # 0 /\ ceiling >= 1 /\ start >= 1 /\ start <= ceiling
  BY <1>2, <1>3 DEF CursorsOrdered
<1>5. backfill # 0 => start <= backfill /\ backfill < ceiling /\ StartPin <= backfill
  BY <1>2, <1>3 DEF CursorsOrdered
<1>6. poll'.pc = "idle"
  BY NoPollType
<1>7. /\ backfill' \in Nat /\ backfill' <= Tip
      /\ backfill' # 0 => start <= backfill' /\ backfill' < ceiling /\ StartPin <= backfill'
  BY <1>3, <1>5 DEF BackfillAt
<1>8. WatcherTypeOK'
  <2>1. Tip' = Tip /\ backfill' \in 0..Tip
    BY <1>1, <1>3, <1>7 DEF Tip
  <2>2. /\ poll' \in [pc : {"idle", "live", "walk", "backfill"}, inbox : SUBSET (1..Tip), upto : 0..Tip]
        /\ poll' = [NoPoll EXCEPT !.pc = poll'.pc]
    BY <1>3, NoPollType
  <2> HIDE DEF Tip
  <2> QED BY <1>1, <1>2, <2>1, <2>2 DEF WatcherTypeOK
<1>9. CursorsOrdered'
  BY <1>1, <1>2, <1>3, <1>6, <1>7 DEF CursorsOrdered
<1>10. ReadInFlight' /\ SeamSound'
  BY <1>1, <1>2, <1>6 DEF ReadInFlight, SeamSound
<1>11. NothingSkipped'
  <2>1. ASSUME NEW l \in Passed'
        PROVE  l \in Passed \/ (l \in backfill..(next - 1) /\ l < ceiling)
    <3>1. CASE backfill' = backfill
      BY <1>1, <2>1, <3>1 DEF Passed, BackfillPassed, LivePassed
    <3>2. CASE backfill' = BackfillAt(next) /\ backfill # 0 /\ backfill <= next
      <4>1. CASE l \in LivePassed'
        BY <1>1, <4>1 DEF Passed, LivePassed
      <4>2. CASE l \in BackfillPassed'
        <5>1. l \in start..((IF backfill' = 0 THEN ceiling ELSE backfill') - 1)
          BY <1>1, <1>4, <4>2 DEF BackfillPassed
        <5>2. (IF backfill' = 0 THEN ceiling ELSE backfill') = (IF next >= ceiling THEN ceiling ELSE next)
          BY <1>3, <1>4, <3>2 DEF BackfillAt
        <5>3. l \in Int /\ start <= l /\ l < ceiling /\ l <= next - 1
          <6>1. CASE next >= ceiling
            <7>1. l \in start..(ceiling - 1)
              BY <5>1, <5>2, <6>1
            <7> QED BY <1>3, <6>1, <7>1
          <6>2. CASE ~(next >= ceiling)
            <7>1. l \in start..(next - 1)
              BY <5>1, <5>2, <6>2
            <7> QED BY <1>3, <6>2, <7>1
          <6> QED BY <6>1, <6>2
        <5>4. l \in start..(backfill - 1) \/ l \in backfill..(next - 1)
          BY <1>3, <5>3
        <5>5. BackfillPassed = start..(backfill - 1)
          BY <1>4, <3>2 DEF BackfillPassed
        <5> QED BY <5>3, <5>4, <5>5 DEF Passed
      <4> QED BY <2>1, <4>1, <4>2 DEF Passed
    <3> QED BY <3>1, <3>2
  <2> QED BY <1>1, <1>2, <2>1 DEF NothingSkipped, Due
<1> QED BY <1>8, <1>9, <1>10, <1>11 DEF WatcherInv

LEMMA SkipBackfillKeeps ==
  ASSUME WatcherInv, SkipBackfill
  PROVE  WatcherInv'
<1>1. /\ UNCHANGED <<rpcVars, live, ceiling, start, seen, walked, watchVars>>
      /\ poll.pc = "walk" /\ poll' = NoPoll
      /\ backfill' = IF backfill >= ceiling THEN 0 ELSE backfill
  BY DEF SkipBackfill
<1>2. WatcherTypeOK /\ CursorsOrdered /\ backfill \in Nat /\ ceiling \in Nat
  BY Numbers DEF WatcherInv
<1>3. backfill' = backfill
  BY <1>1, <1>2 DEF CursorsOrdered
<1>4. 0 \in Nat /\ backfill..(0 - 1) = {}
  BY <1>2
<1> QED BY <1>1, <1>3, <1>4, WalkEnds

LEMMA BackfillReadDoneKeeps ==
  ASSUME WatcherInv, BackfillReadDone
  PROVE  WatcherInv'
<1>1. /\ UNCHANGED <<rpcVars, live, ceiling, start, seen, walked, watchVars>>
      /\ poll.pc = "backfill" /\ poll' = NoPoll /\ poll.inbox = {}
      /\ backfill' = BackfillAt(poll.upto + 1)
  BY DEF BackfillReadDone
<1>2. WatcherTypeOK /\ CursorsOrdered /\ ReadInFlight /\ poll.upto \in Nat /\ backfill \in Nat
  BY Numbers DEF WatcherInv
<1>3. backfill # 0 /\ backfill <= poll.upto + 1
  BY <1>1, <1>2 DEF CursorsOrdered, ReadInFlight
<1>4. \A l \in backfill..poll.upto : l < ceiling /\ Due(l) => l \in walked
  BY <1>1, <1>2 DEF ReadInFlight
<1>5. poll.upto + 1 \in Nat /\ (poll.upto + 1) - 1 = poll.upto
  BY <1>2
<1> QED BY <1>1, <1>3, <1>4, <1>5, WalkEnds

(* The cursor is clamped over ledgers that are no longer retained. *)
LEMMA BackfillOutOfRetentionKeeps ==
  ASSUME WatcherInv, BackfillOutOfRetention
  PROVE  WatcherInv'
<1>1. /\ UNCHANGED <<rpcVars, live, ceiling, start, seen, walked, watchVars>>
      /\ poll.pc = "walk" /\ poll' = NoPoll /\ backfill # 0 /\ backfill < oldest
      /\ backfill' = BackfillAt(BootStartLedger)
  BY DEF BackfillOutOfRetention, OutOfRetention
<1>2. /\ WatcherTypeOK /\ CursorsOrdered /\ backfill \in Nat /\ oldest \in Nat /\ StartPin \in Nat
      /\ ceiling \in Nat
  BY Numbers DEF WatcherInv
<1>3. StartPin <= backfill
  BY <1>1, <1>2 DEF CursorsOrdered
<1>4. BootStartLedger = oldest
  BY <1>1, <1>2, <1>3 DEF BootStartLedger
<1>5. \A l \in backfill..(oldest - 1) : ~(l >= oldest)
  BY <1>2
<1>6. backfill <= oldest
  BY <1>1, <1>2
<1> QED BY <1>1, <1>2, <1>4, <1>5, <1>6, WalkEnds DEF Due

LEMMA PollStepKeeps ==
  ASSUME WatcherInv, PollStep
  PROVE  WatcherInv'
BY ResolveCursorsKeeps, LiveReadKeeps, LiveOutOfRetentionKeeps, LiveReadDoneKeeps, SkipBackfillKeeps,
   BackfillReadKeeps, BackfillReadDoneKeeps, BackfillOutOfRetentionKeeps DEF PollStep

(* addContract, removeContract. *)
LEMMA WithContractKeeps ==
  ASSUME WatcherInv, NEW c \in Contracts, UNCHANGED <<rpcVars, cursorVars, poll>>,
         WithContract(c) \/ WithoutContract(c)
  PROVE  WatcherInv'
<1>1. contracts \subseteq Contracts /\ steady \subseteq contracts
  BY DEF WatcherInv, WatcherTypeOK
<1>2. CASE WithContract(c)
  <2>1. contracts' \subseteq Contracts /\ steady' \subseteq contracts'
    BY <1>1, <1>2 DEF WithContract
  <2>2. steady' \subseteq steady \/ (Passed = {} /\ poll.pc = "idle")
    BY <1>2 DEF WithContract
  <2> QED BY <2>1, <2>2, WatchChanges
<1>3. CASE WithoutContract(c)
  <2>1. contracts' \subseteq Contracts /\ steady' \subseteq contracts' /\ steady' \subseteq steady
    BY <1>1, <1>3 DEF WithoutContract
  <2> QED BY <2>1, WatchChanges
<1> QED BY <1>2, <1>3

LEMMA WatcherStarts ==
  ASSUME WatcherInit
  PROVE  WatcherInv
<1>1. PICK e \in Events : chain = <<e>>
  BY DEF WatcherInit
<1>2. chain \in Seq(Events) /\ chain # <<>> /\ Tip = 1
  BY <1>1 DEF Tip
<1>3. oldest \in 1..Tip
  BY <1>2 DEF WatcherInit
<1> QED BY <1>2, <1>3, FreshWatcher DEF WatcherInit

LEMMA WatcherStep ==
  ASSUME WatcherInv, [WatcherNext]_watcherVars
  PROVE  WatcherInv'
<1>1. CASE PollStep
  BY <1>1, PollStepKeeps
<1>2. CASE Dispatch
  BY <1>2, DispatchKeeps
<1>3. ASSUME NEW c \in Contracts, AddContract(c) \/ RemoveContract(c) PROVE WatcherInv'
  BY <1>3, WithContractKeeps DEF AddContract, RemoveContract
<1>4. CASE \E e \in Events : CloseLedger(e)
  BY <1>4, CloseLedgerKeeps
<1>5. CASE RetentionAdvances
  BY <1>5, RetentionAdvancesKeeps
<1>6. CASE UNCHANGED watcherVars
  BY <1>6, WatcherAlone
<1> QED BY <1>1, <1>2, <1>3, <1>4, <1>5, <1>6 DEF WatcherNext

LEMMA WatcherInvariant == WatcherSpec => []WatcherInv
<1> QED BY WatcherStarts, WatcherStep, PTL DEF WatcherSpec

LEMMA SeamHolds ==
  ASSUME WatcherInv
  PROVE  SeamDispatchedOnce
<1>1. SeamSound /\ WatcherTypeOK
  BY DEF WatcherInv
<1>2. ceiling \in Nat
  BY <1>1, Numbers
<1> DEFINE A == seen \cup (IF poll.pc = "live" THEN poll.inbox ELSE {})
           B == walked \cup (IF poll.pc = "backfill" THEN poll.inbox ELSE {})
<1>3. \A l \in A : l \in Nat /\ ceiling <= l
  BY <1>1, Numbers DEF SeamSound
<1>4. \A l \in B : l \in Nat /\ l < ceiling
  BY <1>1, Numbers DEF SeamSound
<1>5. A \cap B = {}
  <2> HIDE DEF A, B
  <2> QED BY <1>2, <1>3, <1>4
<1> QED BY <1>5 DEF SeamDispatchedOnce

(* Whatever slices and batches the reads come in, whenever contracts are added
   and removed and however far retention advances: of a contract watched since
   the cursors stood still, the two cursors of the poller never pass a retained
   event that was not handed to the handlers. *)
THEOREM NoEventIsSkipped == WatcherSpec => []NothingSkipped
<1>1. WatcherInv => NothingSkipped
  BY DEF WatcherInv
<1> QED BY <1>1, WatcherInvariant, PTL

(* The reads on both sides of the ceiling never hand over the same event. *)
THEOREM SeamIsClean == WatcherSpec => []SeamDispatchedOnce
<1> QED BY SeamHolds, WatcherInvariant, PTL

-----------------------------------------------------------------------------
(* Memberships and the channel registry.  What the chain has ever said: *)
Added   == {<<chain[l].pp, chain[l].contract>> : l \in {l \in 1..Tip : chain[l].type = "provider_added"}}
Removed == {<<chain[l].pp, chain[l].contract>> : l \in {l \in 1..Tip : chain[l].type = "provider_removed"}}
Closed  == {chain[l].contract : l \in {l \in 1..Tip : chain[l].type = "channel_disabled"}}

Tasks == [op : {"none", "query", "seed", "promote", "recheck", "demote", "scan"},
          pp : Pps \cup {NoPp}, c : Contracts \cup {NoPp}, enabled : BOOLEAN, scan : SUBSET Pps]
HttpRequests == [op : {"none", "delete", "join", "create", "ask", "activate", "reject"},
                 pp : Pps \cup {NoPp}, c : Contracts \cup {NoPp}, status : Statuses,
                 rows : SUBSET Contracts]

DatabaseInv ==
  /\ pps \subseteq Pps /\ gone \subseteq Pps
  /\ member \in [Pps -> [Contracts -> Statuses]]
  /\ older \in [Pps -> SUBSET (Contracts \X Contracts)]
  /\ \A pp \in Pps, c \in Contracts : member[pp][c] = "ACTIVE" => <<pp, c>> \in Added

RegistryInv ==
  /\ registered \subseteq Pps
  /\ record \in [Contracts -> {"none", "active", "pending", "inactive"}]
  /\ gate \in [Contracts -> {"unknown", "active", "disabled"}]
  /\ \A c \in Contracts : gate[c] = "disabled" => c \in Closed

(* What a handler between two awaits is about to write has its ground on the
   chain: t is the task of caller k. *)
SoundTask(k, t) ==
  /\ t.op # "none" => t.pp \in Pps /\ t.c \in Contracts
  /\ t.op = "seed" /\ t.enabled # TRUE => t.c \in Closed
  /\ k = "watcher" /\ t.op \in {"query", "seed", "promote"} => <<t.pp, t.c>> \in Added
  /\ t.op \in {"recheck", "demote"} => <<t.pp, t.c>> \in Removed

TaskInv == task \in [Callers -> Tasks] /\ \A k \in Callers : SoundTask(k, task[k])

(* So has what a sync is about to write, unless it read a row that was not yet
   ACTIVE. *)
SoundRequest(q) ==
  /\ q.op # "none" => q.pp \in Pps
  /\ q.op \notin {"none", "delete"} => q.c \in Contracts
  /\ q.op \in {"ask", "activate", "reject"} /\ q.status = "ACTIVE" => <<q.pp, q.c>> \in Added
  /\ q.op = "activate" => <<q.pp, q.c>> \in Added
  /\ q.op = "reject" /\ q.status = "ACTIVE" => <<q.pp, q.c>> \in Removed

HttpInv == http \in [Requests -> HttpRequests] /\ \A r \in Requests : SoundRequest(http[r])

BootInv == /\ phase \in {"down", "channels", "members", "up"}
           /\ left \subseteq Pps /\ queried \subseteq Contracts

OutsideInv == asked \subseteq Pps \X Contracts /\ crashes \in 0..MaxCrashes

CouncilInv ==
  /\ WatcherInv
  /\ DatabaseInv /\ RegistryInv
  /\ TaskInv /\ HttpInv
  /\ BootInv /\ OutsideInv

-----------------------------------------------------------------------------
(* What the chain says *)

LEMMA LatestIsOne ==
  ASSUME NEW n \in Nat, NEW S \in SUBSET (1..n), S # {}
  PROVE  Latest(S) \in S
<1> DEFINE T == {n - x : x \in S}
<1>1. T \in SUBSET Nat /\ T # {}
  <2>1. \A x \in S : n - x \in Nat
    OBVIOUS
  <2>2. PICK x \in S : TRUE
    OBVIOUS
  <2>3. n - x \in T
    BY <2>2
  <2> QED BY <2>1, <2>3
<1>2. PICK d \in T : \A y \in T : d <= y
  BY <1>1, LeastNatural
<1>3. PICK l \in S : d = n - l
  BY <1>2
<1>4. \A m \in S : n - l <= n - m
  BY <1>2, <1>3
<1>5. \A m \in S : m <= l
  BY <1>4
<1> QED BY <1>3, <1>5 DEF Latest

LEMMA AboutIs ==
  \A pp, c, l : l \in About(pp, c) <=>
    /\ l \in 1..Tip /\ chain[l].pp = pp /\ chain[l].contract = c
    /\ chain[l].type \in {"provider_added", "provider_removed"}
BY DEF About, Decided

LEMMA SwitchesIs ==
  \A c, l : l \in Switches(c) <=>
    /\ l \in 1..Tip /\ chain[l].contract = c
    /\ chain[l].type \in {"channel_enabled", "channel_disabled"}
BY DEF Switches, Decided

LEMMA ProviderWasAdded ==
  ASSUME WatcherTypeOK, NEW pp, NEW c, IsProvider(pp, c)
  PROVE  <<pp, c>> \in Added
<1>1. About(pp, c) # {} /\ chain[Latest(About(pp, c))].type = "provider_added"
  BY DEF IsProvider
<1>2. Tip \in Nat /\ About(pp, c) \in SUBSET (1..Tip)
  BY Numbers, AboutIs
<1>3. Latest(About(pp, c)) \in About(pp, c)
  BY <1>1, <1>2, LatestIsOne
<1> QED BY <1>1, <1>3, AboutIs DEF Added

LEMMA FormerProviderWasRemoved ==
  ASSUME WatcherTypeOK, NEW pp, NEW c, ~IsProvider(pp, c), <<pp, c>> \in Added
  PROVE  <<pp, c>> \in Removed
<1>1. About(pp, c) # {}
  BY AboutIs DEF Added
<1>2. Tip \in Nat /\ About(pp, c) \in SUBSET (1..Tip)
  BY Numbers, AboutIs
<1>3. Latest(About(pp, c)) \in About(pp, c)
  BY <1>1, <1>2, LatestIsOne
<1>4. chain[Latest(About(pp, c))].type # "provider_added"
  BY <1>1 DEF IsProvider
<1> QED BY <1>3, <1>4, AboutIs DEF Removed

LEMMA DisabledWasClosed ==
  ASSUME WatcherTypeOK, NEW c, ~IsEnabled(c)
  PROVE  c \in Closed
<1>1. Switches(c) # {} /\ chain[Latest(Switches(c))].type # "channel_enabled"
  BY DEF IsEnabled
<1>2. Tip \in Nat /\ Switches(c) \in SUBSET (1..Tip)
  BY Numbers, SwitchesIs
<1>3. Latest(Switches(c)) \in Switches(c)
  BY <1>1, <1>2, LatestIsOne
<1> QED BY <1>1, <1>3, SwitchesIs DEF Closed

(* The chain only grows. *)
LEMMA LedgersStay ==
  ASSUME WatcherTypeOK,
         UNCHANGED chain \/ \E e \in Events : chain' = Append(chain, e)
  PROVE  Added \subseteq Added' /\ Removed \subseteq Removed' /\ Closed \subseteq Closed'
<1>1. chain \in Seq(Events) /\ Tip \in Nat
  BY Numbers DEF WatcherTypeOK
<1>2. \A l \in 1..Tip : l \in 1..Tip' /\ chain'[l] = chain[l]
  BY <1>1 DEF Tip
<1> HIDE DEF Tip
<1>3. Added \subseteq Added'
  BY <1>2 DEF Added
<1>4. Removed \subseteq Removed'
  BY <1>2 DEF Removed
<1>5. Closed \subseteq Closed'
  BY <1>2 DEF Closed
<1> QED BY <1>3, <1>4, <1>5

-----------------------------------------------------------------------------
(* Steps that change one part *)

Kept == Added \subseteq Added' /\ Removed \subseteq Removed' /\ Closed \subseteq Closed'

LEMMA NoTaskType == NoTask \in Tasks /\ NoTask.op = "none"
BY DEF NoTask, Tasks

LEMMA NoRequestType == NoRequest \in HttpRequests /\ NoRequest.op = "none"
BY DEF NoRequest, HttpRequests, Statuses

LEMMA PartsAlone ==
  ASSUME Kept
  PROVE  /\ DatabaseInv /\ UNCHANGED dbVars => DatabaseInv'
         /\ RegistryInv /\ UNCHANGED registryVars => RegistryInv'
         /\ TaskInv /\ UNCHANGED task => TaskInv'
         /\ HttpInv /\ UNCHANGED http => HttpInv'
         /\ BootInv /\ UNCHANGED bootVars => BootInv'
         /\ OutsideInv /\ UNCHANGED <<asked, crashes>> => OutsideInv'
<1>1. DatabaseInv /\ UNCHANGED dbVars => DatabaseInv'
  BY DEF DatabaseInv, dbVars, Kept
<1>2. RegistryInv /\ UNCHANGED registryVars => RegistryInv'
  BY DEF RegistryInv, registryVars, Kept
<1>3. TaskInv /\ UNCHANGED task => TaskInv'
  BY DEF TaskInv, SoundTask, Kept
<1>4. HttpInv /\ UNCHANGED http => HttpInv'
  BY DEF HttpInv, SoundRequest, Kept
<1>5. BootInv /\ UNCHANGED bootVars => BootInv'
  BY DEF BootInv, bootVars
<1>6. OutsideInv /\ UNCHANGED <<asked, crashes>> => OutsideInv'
  BY DEF OutsideInv
<1> QED BY <1>1, <1>2, <1>3, <1>4, <1>5, <1>6

LEMMA TaskChanges ==
  ASSUME TaskInv, Kept, NEW k \in Callers, NEW t \in Tasks, SoundTask(k, t),
         task' = [task EXCEPT ![k] = t]
  PROVE  TaskInv'
<1>1. task' \in [Callers -> Tasks] /\ task'[k] = t /\ \A j \in Callers : j # k => task'[j] = task[j]
  BY DEF TaskInv
<1>2. ASSUME NEW j \in Callers PROVE SoundTask(j, task[j])'
  <2>1. CASE j = k
    BY <1>1, <2>1 DEF SoundTask, Kept
  <2>2. CASE j # k
    <3>1. SoundTask(j, task[j]) /\ task'[j] = task[j]
      BY <1>1, <2>2 DEF TaskInv
    <3> QED BY <3>1 DEF SoundTask, Kept
  <2> QED BY <2>1, <2>2
<1> QED BY <1>1, <1>2 DEF TaskInv

LEMMA TaskEnds ==
  ASSUME TaskInv, Kept, NEW k \in Callers, task' = [task EXCEPT ![k] = NoTask]
  PROVE  TaskInv'
<1>1. SoundTask(k, NoTask)
  BY NoTaskType DEF SoundTask
<1> QED BY <1>1, NoTaskType, TaskChanges

LEMMA RequestChanges ==
  ASSUME HttpInv, Kept, NEW r \in Requests, NEW q \in HttpRequests, SoundRequest(q),
         http' = [http EXCEPT ![r] = q]
  PROVE  HttpInv'
<1>1. http' \in [Requests -> HttpRequests] /\ http'[r] = q
      /\ \A j \in Requests : j # r => http'[j] = http[j]
  BY DEF HttpInv
<1>2. ASSUME NEW j \in Requests PROVE SoundRequest(http[j])'
  <2>1. CASE j = r
    BY <1>1, <2>1 DEF SoundRequest, Kept
  <2>2. CASE j # r
    <3>1. SoundRequest(http[j]) /\ http'[j] = http[j]
      BY <1>1, <2>2 DEF HttpInv
    <3> QED BY <3>1 DEF SoundRequest, Kept
  <2> QED BY <2>1, <2>2
<1> QED BY <1>1, <1>2 DEF HttpInv

LEMMA RequestAnswered ==
  ASSUME HttpInv, Kept, NEW r \in Requests, Answer(r)
  PROVE  HttpInv'
<1>1. SoundRequest(NoRequest)
  BY NoRequestType DEF SoundRequest
<1> QED BY <1>1, NoRequestType, RequestChanges DEF Answer

-----------------------------------------------------------------------------
(* The watcher *)

(* A step that leaves the chain and the poller alone. *)
LEMMA WatcherAside ==
  ASSUME CouncilInv, UNCHANGED watcherVars
  PROVE  /\ Kept /\ WatcherInv' /\ DatabaseInv /\ RegistryInv /\ TaskInv /\ HttpInv /\ BootInv
         /\ OutsideInv
<1>1. UNCHANGED chain
  BY DEF watcherVars, rpcVars
<1>2. Kept
  BY <1>1, LedgersStay DEF CouncilInv, WatcherInv, Kept
<1> QED BY <1>2, WatcherAlone DEF CouncilInv

LEMMA PollKeeps ==
  ASSUME CouncilInv, Poll
  PROVE  CouncilInv'
<1>1. WatcherInv'
  BY PollStepKeeps DEF Poll, CouncilInv
<1>2. UNCHANGED chain
  BY DEF Poll, PollStep, ResolveCursors, LiveRead, LiveOutOfRetention, LiveReadDone, SkipBackfill,
         BackfillRead, BackfillReadDone, BackfillOutOfRetention, rpcVars
<1>3. Kept
  BY <1>2, LedgersStay DEF CouncilInv, WatcherInv, Kept
<1> QED BY <1>1, <1>3, PartsAlone DEF Poll, councilVars, CouncilInv

LEMMA RetentionKeeps ==
  ASSUME CouncilInv, Retention
  PROVE  CouncilInv'
<1>1. WatcherInv' /\ UNCHANGED chain
  BY RetentionAdvancesKeeps DEF Retention, CouncilInv, RetentionAdvances
<1>2. Kept
  BY <1>1, LedgersStay DEF CouncilInv, WatcherInv, Kept
<1> QED BY <1>1, <1>2, PartsAlone DEF Retention, councilVars, CouncilInv

(* An entry of the registry. *)
LEMMA GateChanges ==
  ASSUME RegistryInv, Kept, NEW c \in Contracts, NEW enabled \in BOOLEAN,
         enabled # TRUE => c \in Closed,
         gate' = applyChannelState(c, enabled), UNCHANGED <<registered, record>>
  PROVE  RegistryInv'
<1>1. CASE enabled = TRUE
  BY <1>1 DEF RegistryInv, applyChannelState, Kept
<1>2. CASE enabled = FALSE
  BY <1>2 DEF RegistryInv, applyChannelState, Kept
<1> QED BY <1>1, <1>2

LEMMA RecordChanges ==
  ASSUME RegistryInv, Kept, UNCHANGED gate, registered' \subseteq Pps,
         NEW c \in Contracts,
         record' \in {record, onProviderAdded(c), onProviderRemoved(c), addChannel(c)}
  PROVE  RegistryInv'
<1>1. record' \in [Contracts -> {"none", "active", "pending", "inactive"}]
  BY DEF RegistryInv, onProviderAdded, onProviderRemoved, addChannel
<1> QED BY <1>1 DEF RegistryInv, Kept

LEMMA DispatchEventKeeps ==
  ASSUME CouncilInv, DispatchEvent
  PROVE  CouncilInv'
<1>0. /\ WatcherInv /\ WatcherTypeOK /\ DatabaseInv /\ RegistryInv /\ TaskInv /\ HttpInv /\ BootInv
      /\ OutsideInv
  BY DEF CouncilInv, WatcherInv
<1>1. Dispatch /\ Handle(chain[NextEvent])
      /\ UNCHANGED <<dbVars, registered, http, bootVars, asked, crashes>>
  BY DEF DispatchEvent
<1>2. UNCHANGED chain /\ poll.inbox # {}
  BY <1>1 DEF Dispatch, rpcVars
<1>3. WatcherInv' /\ Kept
  BY <1>0, <1>1, <1>2, DispatchKeeps, LedgersStay DEF Kept
<1> DEFINE e == chain[NextEvent]
<1>4. NextEvent \in 1..Tip
  BY <1>0, <1>2, NextEventIsLeast, Numbers
<1>5. e \in Events /\ e.contract \in Contracts
  BY <1>0, <1>4, WatcherAssumption DEF WatcherTypeOK, Tip
<1>6. /\ e.type = "provider_added" => <<e.pp, e.contract>> \in Added
      /\ e.type = "provider_removed" => <<e.pp, e.contract>> \in Removed
      /\ e.type = "channel_disabled" => e.contract \in Closed
  BY <1>4 DEF Added, Removed, Closed
<1> HIDE DEF e
<1>7. Handle(e)
  BY <1>1 DEF e
<1>8. RegistryInv' /\ TaskInv'
  <2>1. CASE /\ e.type \in {"channel_enabled", "channel_disabled"}
             /\ gate' = applyChannelState(e.contract, e.type = "channel_enabled")
             /\ UNCHANGED <<record, task>>
    <3>1. CASE e.type = "channel_enabled"
      <4>1. gate' = applyChannelState(e.contract, TRUE)
        BY <2>1, <3>1
      <4> QED BY <1>0, <1>1, <1>3, <1>5, <2>1, <4>1, GateChanges, PartsAlone
    <3>2. CASE e.type = "channel_disabled"
      <4>1. gate' = applyChannelState(e.contract, FALSE)
        BY <2>1, <3>2 DEF applyChannelState
      <4> QED BY <1>0, <1>1, <1>3, <1>5, <1>6, <2>1, <3>2, <4>1, GateChanges, PartsAlone
    <3> QED BY <2>1, <3>1, <3>2
  <2>2. CASE e.type = "provider_added" /\ e.pp \in registered /\ HandleProviderAdded(e)
    <3>1. e.pp \in Pps /\ registered' \subseteq Pps /\ UNCHANGED gate /\ record' = onProviderAdded(e.contract)
      BY <1>0, <1>1, <2>2 DEF RegistryInv, HandleProviderAdded
    <3>2. RegistryInv'
      BY <1>0, <1>3, <1>5, <3>1, RecordChanges
    <3> DEFINE t == [NoTask EXCEPT !.op = "query", !.pp = e.pp, !.c = e.contract]
    <3>3. t \in Tasks /\ t.op = "query" /\ t.pp = e.pp /\ t.c = e.contract
      BY <1>5, <3>1 DEF NoTask, Tasks
    <3>4. task' \in {[task EXCEPT !["watcher"] = t], [task EXCEPT !["watcher"] = NoTask]}
      BY <2>2 DEF HandleProviderAdded
    <3> HIDE DEF t
    <3>5. SoundTask("watcher", t)
      BY <1>5, <1>6, <2>2, <3>1, <3>3 DEF SoundTask
    <3>6. "watcher" \in Callers
      BY DEF Callers
    <3>7. TaskInv'
      BY <1>0, <1>3, <3>3, <3>4, <3>5, <3>6, TaskChanges, TaskEnds
    <3> QED BY <3>2, <3>7
  <2>3. CASE e.type = "provider_removed" /\ e.pp \in registered /\ HandleProviderRemoved(e)
    <3>1. e.pp \in Pps /\ registered' \subseteq Pps /\ UNCHANGED gate /\ record' = onProviderRemoved(e.contract)
      BY <1>0, <1>1, <2>3 DEF RegistryInv, HandleProviderRemoved
    <3>2. RegistryInv'
      BY <1>0, <1>3, <1>5, <3>1, RecordChanges
    <3> DEFINE t == [NoTask EXCEPT !.op = "demote", !.pp = e.pp, !.c = e.contract]
    <3>3. t \in Tasks /\ t.op = "demote" /\ t.pp = e.pp /\ t.c = e.contract
      BY <1>5, <3>1 DEF NoTask, Tasks
    <3>4. task' \in {[task EXCEPT !["watcher"] = t], [task EXCEPT !["watcher"] = NoTask]}
      BY <2>3 DEF HandleProviderRemoved
    <3> HIDE DEF t
    <3>5. SoundTask("watcher", t)
      BY <1>5, <1>6, <2>3, <3>1, <3>3 DEF SoundTask
    <3>6. "watcher" \in Callers
      BY DEF Callers
    <3>7. TaskInv'
      BY <1>0, <1>3, <3>3, <3>4, <3>5, <3>6, TaskChanges, TaskEnds
    <3> QED BY <3>2, <3>7
  <2>4. CASE UNCHANGED <<record, gate, task>>
    BY <1>0, <1>1, <1>3, <2>4, PartsAlone DEF registryVars
  <2> QED BY <1>7, <2>1, <2>2, <2>3, <2>4 DEF Handle
<1> QED BY <1>0, <1>1, <1>3, <1>8, PartsAlone DEF CouncilInv

-----------------------------------------------------------------------------
(* The handlers of an event, between two awaits *)

LEMMA QueryConfigKeeps ==
  ASSUME CouncilInv, NEW k \in Callers, QueryConfig(k)
  PROVE  CouncilInv'
<1>1. /\ UNCHANGED <<watcherVars, dbVars, registryVars, http, bootVars, asked, crashes>>
      /\ task[k].op = "query"
  BY DEF QueryConfig
<1>2. /\ Kept /\ WatcherInv' /\ DatabaseInv /\ RegistryInv /\ TaskInv /\ HttpInv /\ BootInv /\ OutsideInv
  BY <1>1, WatcherAside
<1>3. SoundTask(k, task[k]) /\ WatcherTypeOK
  BY <1>2 DEF TaskInv, CouncilInv, WatcherInv
<1>4. TaskInv'
  <2>1. CASE task' = [task EXCEPT ![k].op = "seed", ![k].enabled = IsEnabled(task[k].c)]
    <3> DEFINE en == IsEnabled(task[k].c)
               t == [task[k] EXCEPT !.op = "seed", !.enabled = en]
    <3>1. en \in BOOLEAN
      BY DEF IsEnabled
    <3>2. en # TRUE => task[k].c \in Closed
      BY <1>3, <3>1, DisabledWasClosed
    <3>3. task' = [task EXCEPT ![k] = t]
      BY <1>2, <2>1 DEF TaskInv
    <3> HIDE DEF en
    <3>4. t \in Tasks /\ t.op = "seed" /\ t.pp = task[k].pp /\ t.c = task[k].c /\ t.enabled = en
      <4>1. task[k] \in Tasks
        BY <1>2 DEF TaskInv
      <4> QED BY <3>1, <4>1 DEF Tasks
    <3> HIDE DEF t
    <3>5. SoundTask(k, t)
      BY <1>1, <1>3, <3>2, <3>4 DEF SoundTask
    <3> QED BY <1>2, <3>3, <3>4, <3>5, TaskChanges
  <2>2. CASE k = "watcher" /\ task' = [task EXCEPT ![k].op = "promote"]
    <3> DEFINE t == [task[k] EXCEPT !.op = "promote"]
    <3>1. task' = [task EXCEPT ![k] = t]
      BY <1>2, <2>2 DEF TaskInv
    <3>2. t \in Tasks /\ t.op = "promote" /\ t.pp = task[k].pp /\ t.c = task[k].c
      <4>1. task[k] \in Tasks
        BY <1>2 DEF TaskInv
      <4> QED BY <4>1 DEF Tasks
    <3> HIDE DEF t
    <3>3. SoundTask(k, t)
      BY <1>1, <1>3, <2>2, <3>2 DEF SoundTask
    <3> QED BY <1>2, <3>1, <3>2, <3>3, TaskChanges
  <2>3. CASE task' = [task EXCEPT ![k] = NoTask]
    BY <1>2, <2>3, TaskEnds
  <2> QED BY <2>1, <2>2, <2>3 DEF QueryConfig
<1> QED BY <1>1, <1>2, <1>4, PartsAlone DEF CouncilInv

LEMMA SeedRegistryKeeps ==
  ASSUME CouncilInv, NEW k \in Callers, SeedRegistry(k)
  PROVE  CouncilInv'
<1>1. /\ UNCHANGED <<watcherVars, dbVars, registered, record, http, bootVars, asked, crashes>>
      /\ task[k].op = "seed" /\ gate' = applyChannelState(task[k].c, task[k].enabled)
      /\ task' = [task EXCEPT ![k] = IF k = "boot" THEN NoTask ELSE [@ EXCEPT !.op = "promote"]]
  BY DEF SeedRegistry
<1>2. /\ Kept /\ WatcherInv' /\ DatabaseInv /\ RegistryInv /\ TaskInv /\ HttpInv /\ BootInv /\ OutsideInv
  BY <1>1, WatcherAside
<1>3. SoundTask(k, task[k]) /\ task[k] \in Tasks
  BY <1>2 DEF TaskInv
<1>4. task[k].c \in Contracts /\ task[k].enabled \in BOOLEAN
      /\ (task[k].enabled # TRUE => task[k].c \in Closed)
  BY <1>1, <1>3 DEF SoundTask, Tasks
<1>5. RegistryInv'
  BY <1>1, <1>2, <1>4, GateChanges
<1>6. TaskInv'
  <2>1. CASE k = "boot"
    BY <1>1, <1>2, <2>1, TaskEnds
  <2>2. CASE k # "boot"
    <3> DEFINE t == [task[k] EXCEPT !.op = "promote"]
    <3>1. task' = [task EXCEPT ![k] = t] /\ k = "watcher"
      BY <1>1, <1>2, <2>2 DEF TaskInv, Callers
    <3>2. t \in Tasks /\ t.op = "promote" /\ t.pp = task[k].pp /\ t.c = task[k].c
      BY <1>3 DEF Tasks
    <3> HIDE DEF t
    <3>3. SoundTask(k, t)
      BY <1>1, <1>3, <3>1, <3>2 DEF SoundTask
    <3> QED BY <1>2, <3>1, <3>2, <3>3, TaskChanges
  <2> QED BY <2>1, <2>2
<1> QED BY <1>1, <1>2, <1>5, <1>6, PartsAlone DEF CouncilInv

(* An update of a row.  It makes ACTIVE only what the council has admitted. *)
LEMMA RowChanges ==
  ASSUME DatabaseInv, Kept, NEW pp \in Pps, NEW c \in Contracts, NEW status \in Statuses,
         status = "ACTIVE" => <<pp, c>> \in Added,
         Stamped(pp, c, status) \/ UNCHANGED <<member, older>>,
         UNCHANGED <<pps, gone>>
  PROVE  DatabaseInv'
<1>1. CASE UNCHANGED <<member, older>>
  BY <1>1 DEF DatabaseInv, Kept
<1>2. CASE Stamped(pp, c, status)
  <2>1. member' = [member EXCEPT ![pp] = [member[pp] EXCEPT ![c] = status]]
    BY <1>2 DEF Stamped
  <2>2. member[pp] \in [Contracts -> Statuses]
    BY DEF DatabaseInv
  <2>3. member' \in [Pps -> [Contracts -> Statuses]]
    BY <2>1, <2>2 DEF DatabaseInv
  <2>4. older' \in [Pps -> SUBSET (Contracts \X Contracts)]
    <3> DEFINE A == {p \in older[pp] : p[1] # c}
               B == {<<d, c>> : d \in Rows(pp) \ {c}}
    <3>1. older' = [older EXCEPT ![pp] = A \cup B]
      BY <1>2 DEF Stamped, DatabaseInv
    <3>2. A \subseteq Contracts \X Contracts
      BY DEF DatabaseInv
    <3>3. B \subseteq Contracts \X Contracts
      BY DEF Rows
    <3> HIDE DEF A, B
    <3> QED BY <3>1, <3>2, <3>3 DEF DatabaseInv
  <2>5. ASSUME NEW x \in Pps, NEW d \in Contracts, member'[x][d] = "ACTIVE" PROVE <<x, d>> \in Added'
    <3>1. CASE x = pp /\ d = c
      <4>1. status = "ACTIVE"
        BY <2>1, <2>2, <2>5, <3>1 DEF DatabaseInv
      <4> QED BY <3>1, <4>1 DEF Kept
    <3>2. CASE ~(x = pp /\ d = c)
      <4>1. member[x][d] = "ACTIVE"
        BY <2>1, <2>2, <2>5, <3>2 DEF DatabaseInv
      <4> QED BY <4>1 DEF DatabaseInv, Kept
    <3> QED BY <3>1, <3>2
  <2> QED BY <2>3, <2>4, <2>5 DEF DatabaseInv
<1> QED BY <1>1, <1>2

LEMMA UpdateKeeps ==
  ASSUME DatabaseInv, Kept, NEW pp \in Pps, NEW c \in Contracts, NEW status \in Statuses,
         status = "ACTIVE" => <<pp, c>> \in Added, UpdateRow(pp, c, status)
  PROVE  DatabaseInv'
<1>1. Stamped(pp, c, status) \/ UNCHANGED <<member, older>>
  BY DEF UpdateRow
<1>2. UNCHANGED <<pps, gone>>
  BY DEF UpdateRow
<1> QED BY <1>1, <1>2, RowChanges

LEMMA PromoteMembershipKeeps ==
  ASSUME CouncilInv, PromoteMembership
  PROVE  CouncilInv'
<1> DEFINE t == task["watcher"]
<1>1. /\ UNCHANGED <<watcherVars, registryVars, http, bootVars, asked, crashes>>
      /\ t.op = "promote" /\ UpdateRow(t.pp, t.c, "ACTIVE")
      /\ task' = [task EXCEPT !["watcher"] = NoTask] /\ "watcher" \in Callers
  BY DEF PromoteMembership, Callers
<1>2. /\ Kept /\ WatcherInv' /\ DatabaseInv /\ RegistryInv /\ TaskInv /\ HttpInv /\ BootInv /\ OutsideInv
  BY <1>1, WatcherAside
<1>3. SoundTask("watcher", t)
  BY <1>1, <1>2 DEF TaskInv
<1> HIDE DEF t
<1>4. t.pp \in Pps /\ t.c \in Contracts /\ <<t.pp, t.c>> \in Added
  BY <1>1, <1>3 DEF SoundTask
<1>5. DatabaseInv'
  BY <1>1, <1>2, <1>4, UpdateKeeps DEF Statuses
<1>6. TaskInv'
  BY <1>1, <1>2, TaskEnds
<1> QED BY <1>1, <1>2, <1>5, <1>6, PartsAlone DEF CouncilInv

LEMMA DemoteMembershipKeeps ==
  ASSUME CouncilInv, NEW k \in Callers, DemoteMembership(k)
  PROVE  CouncilInv'
<1>1. /\ UNCHANGED <<watcherVars, registryVars, http, bootVars, asked, crashes>>
      /\ task[k].op = "demote" /\ UpdateRow(task[k].pp, task[k].c, "REJECTED")
      /\ task' = [task EXCEPT ![k].op = "scan", ![k].scan = pps]
  BY DEF DemoteMembership
<1>2. /\ Kept /\ WatcherInv' /\ DatabaseInv /\ RegistryInv /\ TaskInv /\ HttpInv /\ BootInv /\ OutsideInv
  BY <1>1, WatcherAside
<1>3. SoundTask(k, task[k]) /\ task[k] \in Tasks
  BY <1>2 DEF TaskInv
<1>4. task[k].pp \in Pps /\ task[k].c \in Contracts
  BY <1>1, <1>3 DEF SoundTask
<1>5. DatabaseInv'
  BY <1>1, <1>2, <1>4, UpdateKeeps DEF Statuses
<1>6. TaskInv'
  <2> DEFINE t == [task[k] EXCEPT !.op = "scan", !.scan = pps]
  <2>1. task' = [task EXCEPT ![k] = t]
    BY <1>1, <1>2 DEF TaskInv
  <2>2. t \in Tasks /\ t.op = "scan" /\ t.pp = task[k].pp /\ t.c = task[k].c
    <3>1. pps \in SUBSET Pps
      BY <1>2 DEF DatabaseInv
    <3> QED BY <1>3, <3>1 DEF Tasks
  <2> HIDE DEF t
  <2>3. SoundTask(k, t)
    BY <1>4, <2>2 DEF SoundTask
  <2> QED BY <1>2, <2>1, <2>2, <2>3, TaskChanges
<1> QED BY <1>1, <1>2, <1>5, <1>6, PartsAlone DEF CouncilInv

(* The scan of unwatchCouncilContractIfUnused. *)
LEMMA ScanKeeps ==
  ASSUME CouncilInv, NEW k \in Callers,
         \/ StillReferenced(k)
         \/ NobodyToReference(k)
         \/ \E pp \in Pps : NotReferencedBy(k, pp)
  PROVE  CouncilInv'
<1>0. /\ WatcherInv /\ DatabaseInv /\ RegistryInv /\ TaskInv /\ HttpInv /\ BootInv /\ OutsideInv
      /\ WatcherTypeOK
  BY DEF CouncilInv, WatcherInv
<1>1. /\ UNCHANGED <<rpcVars, cursorVars, poll, dbVars, registryVars, http, bootVars, asked, crashes>>
      /\ task[k].op = "scan"
  BY DEF StillReferenced, NobodyToReference, NotReferencedBy, watcherVars
<1>2. UNCHANGED watchVars \/ WithoutContract(task[k].c)
  BY DEF StillReferenced, NobodyToReference, NotReferencedBy, watcherVars
<1>3. SoundTask(k, task[k]) /\ task[k] \in Tasks
  BY <1>0 DEF TaskInv
<1>4. task[k].pp \in Pps /\ task[k].c \in Contracts
  BY <1>1, <1>3 DEF SoundTask
<1>5. WatcherInv'
  <2>1. CASE UNCHANGED watchVars
    BY <1>0, <1>1, <2>1, WatcherAlone DEF watcherVars
  <2>2. CASE WithoutContract(task[k].c)
    BY <1>0, <1>1, <1>4, <2>2, WithContractKeeps
  <2> QED BY <1>2, <2>1, <2>2
<1>6. Kept
  BY <1>0, <1>1, LedgersStay DEF Kept, rpcVars
<1>7. TaskInv'
  <2>1. CASE task' = [task EXCEPT ![k] = NoTask]
    BY <1>0, <1>6, <2>1, TaskEnds
  <2>2. ASSUME NEW pp \in Pps, NotReferencedBy(k, pp), task' # [task EXCEPT ![k] = NoTask]
        PROVE  TaskInv'
    <3> DEFINE s == task[k].scan \ {pp}
               t == [task[k] EXCEPT !.scan = s]
    <3>1. task' = [task EXCEPT ![k] = t]
      <4>1. task' = [task EXCEPT ![k].scan = @ \ {pp}]
        BY <2>2 DEF NotReferencedBy
      <4> QED BY <1>0, <4>1 DEF TaskInv
    <3>2. s \in SUBSET Pps
      BY <1>3 DEF Tasks
    <3> HIDE DEF s
    <3>3. t \in Tasks /\ t.op = "scan" /\ t.pp = task[k].pp /\ t.c = task[k].c
      BY <1>1, <1>3, <3>2 DEF Tasks
    <3> HIDE DEF t
    <3>4. SoundTask(k, t)
      BY <1>4, <3>3 DEF SoundTask
    <3> QED BY <1>0, <1>6, <3>1, <3>3, <3>4, TaskChanges
  <2> QED BY <2>1, <2>2 DEF StillReferenced, NobodyToReference
<1> QED BY <1>0, <1>1, <1>5, <1>6, <1>7, PartsAlone DEF CouncilInv

LEMMA MembershipHandlerKeeps ==
  ASSUME CouncilInv, NEW k \in Callers, MembershipHandler(k)
  PROVE  CouncilInv'
BY QueryConfigKeeps, SeedRegistryKeeps, DemoteMembershipKeeps, ScanKeeps DEF MembershipHandler

-----------------------------------------------------------------------------
(* startEventWatcher *)

LEMMA ActiveRows ==
  ASSUME DatabaseInv, NEW pp \in Pps
  PROVE  /\ getActiveForPp(pp) \subseteq Contracts
         /\ \A c \in getActiveForPp(pp) : <<pp, c>> \in Added
         /\ getCurrentForPp(pp) \subseteq Contracts
<1>1. getActiveForPp(pp) \subseteq Contracts
  BY DEF getActiveForPp, Rows
<1>2. \A c \in getActiveForPp(pp) : member[pp][c] = "ACTIVE"
  BY DEF getActiveForPp
<1>3. getCurrentForPp(pp) \subseteq Contracts
  BY <1>1 DEF getCurrentForPp, Rows
<1> QED BY <1>1, <1>2, <1>3 DEF DatabaseInv

LEMMA BootKeeps ==
  ASSUME CouncilInv, Boot
  PROVE  CouncilInv'
<1>0. /\ WatcherInv /\ DatabaseInv /\ RegistryInv /\ TaskInv /\ HttpInv /\ BootInv /\ OutsideInv
      /\ WatcherTypeOK
  BY DEF CouncilInv, WatcherInv
<1> DEFINE cs == UNION {getCurrentForPp(pp) \cap getActiveForPp(pp) : pp \in pps}
<1>1. /\ UNCHANGED <<rpcVars, cursorVars, poll, dbVars, gate, task, http, asked, crashes>>
      /\ contracts' = cs /\ steady' = {}
      /\ record' = [c \in Contracts |-> IF c \in cs THEN "active" ELSE "none"]
      /\ registered' = pps /\ phase' = "channels" /\ left' = pps /\ queried' = {}
  BY DEF Boot
<1>2. pps \subseteq Pps
  BY <1>0 DEF DatabaseInv
<1>3. cs \subseteq Contracts
  <2>1. \A pp \in pps : getCurrentForPp(pp) \subseteq Contracts
    BY <1>0, <1>2, ActiveRows
  <2> QED BY <2>1
<1> HIDE DEF cs
<1>4. WatcherInv'
  BY <1>0, <1>1, <1>3, WatchChanges
<1>5. Kept
  BY <1>0, <1>1, LedgersStay DEF Kept, rpcVars
<1>6. RegistryInv'
  <2>1. record' \in [Contracts -> {"none", "active", "pending", "inactive"}]
    BY <1>1
  <2> QED BY <1>0, <1>1, <1>2, <1>5, <2>1 DEF RegistryInv, Kept
<1>7. BootInv'
  BY <1>1, <1>2 DEF BootInv
<1> QED BY <1>0, <1>1, <1>4, <1>5, <1>6, <1>7, PartsAlone DEF CouncilInv

LEMMA BootPhaseDoneKeeps ==
  ASSUME CouncilInv, BootPhaseDone
  PROVE  CouncilInv'
<1>1. /\ UNCHANGED <<watcherVars, dbVars, registryVars, task, http, asked, crashes>>
      /\ phase' = (IF phase = "channels" THEN "members" ELSE "up")
      /\ left' = (IF phase = "channels" THEN pps ELSE {}) /\ queried' = {}
  BY DEF BootPhaseDone
<1>2. /\ Kept /\ WatcherInv' /\ DatabaseInv /\ RegistryInv /\ TaskInv /\ HttpInv /\ BootInv /\ OutsideInv
  BY <1>1, WatcherAside
<1>3. BootInv'
  BY <1>1, <1>2 DEF BootInv, DatabaseInv
<1> QED BY <1>1, <1>2, <1>3, PartsAlone DEF CouncilInv

LEMMA RecheckMembershipKeeps ==
  ASSUME CouncilInv, RecheckMembership
  PROVE  CouncilInv'
<1> DEFINE u == task["boot"]
           t == [u EXCEPT !.op = "demote"]
<1>1. /\ UNCHANGED <<watcherVars, dbVars, registryVars, http, bootVars, asked, crashes>>
      /\ u.op = "recheck" /\ "boot" \in Callers
  BY DEF RecheckMembership, Callers
<1>2. /\ Kept /\ WatcherInv' /\ DatabaseInv /\ RegistryInv /\ TaskInv /\ HttpInv /\ BootInv /\ OutsideInv
  BY <1>1, WatcherAside
<1>3. task' \in {[task EXCEPT !["boot"] = t], [task EXCEPT !["boot"] = NoTask]}
  BY <1>1, <1>2 DEF RecheckMembership, TaskInv
<1>4. SoundTask("boot", u) /\ u \in Tasks
  BY <1>1, <1>2 DEF TaskInv
<1> HIDE DEF u
<1>5. t \in Tasks /\ t.op = "demote" /\ t.pp = u.pp /\ t.c = u.c
  BY <1>4 DEF Tasks
<1> HIDE DEF t
<1>6. SoundTask("boot", t)
  BY <1>1, <1>4, <1>5 DEF SoundTask
<1>7. TaskInv'
  BY <1>1, <1>2, <1>3, <1>5, <1>6, TaskChanges, TaskEnds
<1> QED BY <1>1, <1>2, <1>7, PartsAlone DEF CouncilInv

LEMMA ConvergeChannelsKeeps ==
  ASSUME CouncilInv, NEW pp \in Pps, ConvergeChannels(pp)
  PROVE  CouncilInv'
<1>1. /\ UNCHANGED <<watcherVars, dbVars, registryVars, http, phase, asked, crashes>>
      /\ left' = left \ {pp} /\ "boot" \in Callers
  BY DEF ConvergeChannels, Callers
<1>2. /\ Kept /\ WatcherInv' /\ DatabaseInv /\ RegistryInv /\ TaskInv /\ HttpInv /\ BootInv /\ OutsideInv
  BY <1>1, WatcherAside
<1>3. BootInv' /\ TaskInv'
  <2>1. CASE UNCHANGED <<task, queried>>
    BY <1>1, <1>2, <2>1, PartsAlone DEF BootInv
  <2>2. ASSUME NEW c \in getActiveForPp(pp),
               task' = [task EXCEPT !["boot"] = [NoTask EXCEPT !.op = "query", !.pp = pp, !.c = c]],
               queried' = queried \cup {c}
        PROVE  BootInv' /\ TaskInv'
    <3> DEFINE t == [NoTask EXCEPT !.op = "query", !.pp = pp, !.c = c]
    <3>1. c \in Contracts
      BY <1>2, ActiveRows
    <3>2. t \in Tasks /\ t.op = "query" /\ t.pp = pp /\ t.c = c
      BY <3>1 DEF NoTask, Tasks
    <3>3. task' = [task EXCEPT !["boot"] = t]
      BY <2>2
    <3> HIDE DEF t
    <3>4. SoundTask("boot", t)
      BY <3>1, <3>2 DEF SoundTask
    <3>5. TaskInv'
      BY <1>1, <1>2, <3>2, <3>3, <3>4, TaskChanges
    <3>6. BootInv'
      BY <1>1, <1>2, <2>2, <3>1 DEF BootInv
    <3> QED BY <3>5, <3>6
  <2> QED BY <2>1, <2>2 DEF ConvergeChannels
<1> QED BY <1>1, <1>2, <1>3, PartsAlone DEF CouncilInv

(* The council answers NOT_FOUND for a member it has admitted only when it has
   removed it since. *)
LEMMA ConvergeMembershipKeeps ==
  ASSUME CouncilInv, NEW pp \in Pps, ConvergeMembership(pp)
  PROVE  CouncilInv'
<1>1. /\ UNCHANGED <<watcherVars, dbVars, registryVars, http, phase, queried, asked, crashes>>
      /\ left' = left \ {pp} /\ "boot" \in Callers
  BY DEF ConvergeMembership, Callers
<1>2. /\ Kept /\ WatcherInv' /\ DatabaseInv /\ RegistryInv /\ TaskInv /\ HttpInv /\ BootInv /\ OutsideInv
  BY <1>1, WatcherAside
<1>3. BootInv'
  BY <1>1, <1>2 DEF BootInv
<1>4. TaskInv'
  <2>1. CASE UNCHANGED task
    BY <1>2, <2>1, PartsAlone
  <2>2. ASSUME NEW c \in getActiveForPp(pp), NEW verdict \in Verdicts(pp, c),
               task' = [task EXCEPT !["boot"] = IF Demotes(verdict)
                          THEN [NoTask EXCEPT !.op = "recheck", !.pp = pp, !.c = c] ELSE NoTask]
        PROVE  TaskInv'
    <3>1. CASE ~Demotes(verdict)
      <4>1. task' = [task EXCEPT !["boot"] = NoTask]
        BY <2>2, <3>1
      <4> QED BY <1>1, <1>2, <4>1, TaskEnds
    <3>2. CASE Demotes(verdict)
      <4> DEFINE t == [NoTask EXCEPT !.op = "recheck", !.pp = pp, !.c = c]
      <4>1. c \in Contracts /\ <<pp, c>> \in Added
        BY <1>2, ActiveRows
      <4>2. ~IsProvider(pp, c)
        BY <2>2, <3>2 DEF Verdicts, Demotes
      <4>3. <<pp, c>> \in Removed
        BY <4>1, <4>2, FormerProviderWasRemoved DEF CouncilInv, WatcherInv
      <4>4. t \in Tasks /\ t.op = "recheck" /\ t.pp = pp /\ t.c = c
        BY <4>1 DEF NoTask, Tasks
      <4>5. task' = [task EXCEPT !["boot"] = t]
        BY <2>2, <3>2
      <4> HIDE DEF t
      <4>6. SoundTask("boot", t)
        BY <4>1, <4>3, <4>4 DEF SoundTask
      <4> QED BY <1>1, <1>2, <4>4, <4>5, <4>6, TaskChanges
    <3> QED BY <3>1, <3>2
  <2> QED BY <2>1, <2>2 DEF ConvergeMembership
<1> QED BY <1>1, <1>2, <1>3, <1>4, PartsAlone DEF CouncilInv

LEMMA CrashKeeps ==
  ASSUME CouncilInv, Crash
  PROVE  CouncilInv'
<1>0. /\ WatcherInv /\ DatabaseInv /\ RegistryInv /\ TaskInv /\ HttpInv /\ BootInv /\ OutsideInv
      /\ WatcherTypeOK
  BY DEF CouncilInv, WatcherInv
<1>1. /\ UNCHANGED <<rpcVars, dbVars, asked>>
      /\ crashes' = crashes + 1 /\ crashes < MaxCrashes
      /\ phase' = "down" /\ left' = {} /\ queried' = {}
      /\ contracts' = {} /\ steady' = {}
      /\ live' = 0 /\ backfill' = 0 /\ ceiling' = 0 /\ start' = 0
      /\ seen' = {} /\ walked' = {} /\ poll' = NoPoll
      /\ registered' = {}
      /\ record' = [c \in Contracts |-> "none"] /\ gate' = [c \in Contracts |-> "unknown"]
      /\ task' = [k \in Callers |-> NoTask] /\ http' = [r \in Requests |-> NoRequest]
  BY DEF Crash
<1>2. UNCHANGED <<chain, oldest>>
  BY <1>1 DEF rpcVars
<1>3. Kept
  BY <1>0, <1>2, LedgersStay DEF Kept
<1>4. WatcherInv'
  <2>1. WatcherTypeOK'
    <3>1. Tip' = Tip /\ Tip \in Nat
      BY <1>0, <1>2, Numbers DEF Tip
    <3> HIDE DEF Tip
    <3>2. oldest \in 1..Tip /\ chain \in Seq(Events) /\ chain # <<>>
      BY <1>0 DEF WatcherTypeOK
    <3> QED BY <1>1, <1>2, <3>1, <3>2, NoPollType DEF WatcherTypeOK
  <2> QED BY <1>1, <2>1, NoPollType
          DEF WatcherInv, CursorsOrdered, ReadInFlight, SeamSound, NothingSkipped, Passed,
              BackfillPassed, LivePassed
<1>5. RegistryInv'
  BY <1>1 DEF RegistryInv
<1>6. TaskInv'
  BY <1>1, NoTaskType DEF TaskInv, SoundTask
<1>7. HttpInv'
  BY <1>1, NoRequestType DEF HttpInv, SoundRequest
<1>8. BootInv' /\ OutsideInv'
  BY <1>0, <1>1, CouncilAssumption DEF BootInv, OutsideInv
<1> QED BY <1>0, <1>1, <1>3, <1>4, <1>5, <1>6, <1>7, <1>8, PartsAlone DEF CouncilInv

-----------------------------------------------------------------------------
(* Dashboard requests *)

LEMMA RegisterPpKeeps ==
  ASSUME CouncilInv, NEW r \in Requests, NEW pp \in Pps, RegisterPp(r, pp)
  PROVE  CouncilInv'
<1>1. /\ UNCHANGED <<watcherVars, gone, member, older, record, gate, task, http, bootVars, asked, crashes>>
      /\ pps' = pps \cup {pp} /\ registered' = registered \cup {pp}
  BY DEF RegisterPp
<1>2. /\ Kept /\ WatcherInv' /\ DatabaseInv /\ RegistryInv /\ TaskInv /\ HttpInv /\ BootInv /\ OutsideInv
  BY <1>1, WatcherAside
<1>3. DatabaseInv'
  BY <1>1, <1>2 DEF DatabaseInv, Kept
<1>4. RegistryInv'
  BY <1>1, <1>2 DEF RegistryInv, Kept
<1> QED BY <1>1, <1>2, <1>3, <1>4, PartsAlone DEF CouncilInv

LEMMA DeletePpKeeps ==
  ASSUME CouncilInv, NEW r \in Requests, NEW pp \in Pps, DeletePp(r, pp)
  PROVE  CouncilInv'
<1> DEFINE q == [NoRequest EXCEPT !.op = "delete", !.pp = pp, !.rows = Rows(pp)]
<1>1. /\ UNCHANGED <<watcherVars, dbVars, record, gate, task, bootVars, asked, crashes>>
      /\ registered' = registered \ {pp} /\ http' = [http EXCEPT ![r] = q]
  BY DEF DeletePp
<1>2. /\ Kept /\ WatcherInv' /\ DatabaseInv /\ RegistryInv /\ TaskInv /\ HttpInv /\ BootInv /\ OutsideInv
  BY <1>1, WatcherAside
<1>3. RegistryInv'
  BY <1>1, <1>2 DEF RegistryInv, Kept
<1>4. q \in HttpRequests /\ q.op = "delete" /\ q.pp = pp
  <2>1. Rows(pp) \in SUBSET Contracts
    BY DEF Rows
  <2> QED BY <2>1 DEF NoRequest, HttpRequests, Statuses
<1> HIDE DEF q
<1>5. SoundRequest(q)
  BY <1>4 DEF SoundRequest
<1>6. HttpInv'
  BY <1>1, <1>2, <1>4, <1>5, RequestChanges
<1> QED BY <1>1, <1>2, <1>3, <1>6, PartsAlone DEF CouncilInv

LEMMA DeleteRowsKeeps ==
  ASSUME CouncilInv, NEW r \in Requests, DeleteRows(r)
  PROVE  CouncilInv'
<1> DEFINE q == http[r]
           left_ == [c \in Contracts |-> IF c \in q.rows THEN "none" ELSE member[q.pp][c]]
           order == {p \in older[q.pp] : p[1] \notin q.rows /\ p[2] \notin q.rows}
<1>1. /\ UNCHANGED <<watcherVars, registryVars, task, bootVars, asked, crashes>>
      /\ q.op = "delete"
      /\ member' = [member EXCEPT ![q.pp] = left_]
      /\ older' = [older EXCEPT ![q.pp] = order]
      /\ pps' = pps \ {q.pp} /\ gone' = gone \cup {q.pp} /\ Answer(r)
  BY DEF DeleteRows
<1>2. /\ Kept /\ WatcherInv' /\ DatabaseInv /\ RegistryInv /\ TaskInv /\ HttpInv /\ BootInv /\ OutsideInv
  BY <1>1, WatcherAside
<1>3. SoundRequest(q)
  BY <1>2 DEF HttpInv
<1>4. q.pp \in Pps
  BY <1>1, <1>3 DEF SoundRequest
<1>5. /\ left_ \in [Contracts -> Statuses]
      /\ \A c \in Contracts : left_[c] = "ACTIVE" => member[q.pp][c] = "ACTIVE"
  <2>1. member[q.pp] \in [Contracts -> Statuses]
    BY <1>2, <1>4 DEF DatabaseInv
  <2> QED BY <2>1 DEF Statuses
<1>6. order \subseteq Contracts \X Contracts
  BY <1>2, <1>4 DEF DatabaseInv
<1>7. HttpInv'
  BY <1>1, <1>2, RequestAnswered
<1> HIDE DEF q, left_, order
<1>8. DatabaseInv'
  <2>1. member' \in [Pps -> [Contracts -> Statuses]] /\ older' \in [Pps -> SUBSET (Contracts \X Contracts)]
    BY <1>1, <1>2, <1>4, <1>5, <1>6 DEF DatabaseInv
  <2>2. \A pp \in Pps, c \in Contracts : member'[pp][c] = "ACTIVE" => member[pp][c] = "ACTIVE"
    BY <1>1, <1>2, <1>4, <1>5 DEF DatabaseInv
  <2>3. pps' \subseteq Pps /\ gone' \subseteq Pps
    BY <1>1, <1>2, <1>4 DEF DatabaseInv
  <2> QED BY <1>2, <2>1, <2>2, <2>3 DEF DatabaseInv, Kept
<1> QED BY <1>1, <1>2, <1>7, <1>8, PartsAlone DEF CouncilInv

LEMMA JoinCouncilKeeps ==
  ASSUME CouncilInv, NEW r \in Requests, NEW pp \in Pps, NEW c \in Contracts, JoinCouncil(r, pp, c)
  PROVE  CouncilInv'
<1> DEFINE q == [NoRequest EXCEPT !.op = "join", !.pp = pp, !.c = c]
<1>1. /\ UNCHANGED <<watcherVars, dbVars, registryVars, task, bootVars, asked, crashes>>
      /\ http' = [http EXCEPT ![r] = q]
  BY DEF JoinCouncil
<1>2. /\ Kept /\ WatcherInv' /\ DatabaseInv /\ RegistryInv /\ TaskInv /\ HttpInv /\ BootInv /\ OutsideInv
  BY <1>1, WatcherAside
<1>3. q \in HttpRequests /\ q.op = "join" /\ q.pp = pp /\ q.c = c
  BY DEF NoRequest, HttpRequests, Statuses
<1> HIDE DEF q
<1>4. SoundRequest(q)
  BY <1>3 DEF SoundRequest
<1>5. HttpInv'
  BY <1>1, <1>2, <1>3, <1>4, RequestChanges
<1> QED BY <1>1, <1>2, <1>5, PartsAlone DEF CouncilInv

LEMMA JoinDecided ==
  ASSUME CouncilInv, NEW r \in Requests, JoinAccepted(r) \/ JoinFails(r)
  PROVE  CouncilInv'
<1>1. /\ UNCHANGED <<watcherVars, dbVars, registryVars, task, bootVars, crashes>>
      /\ http[r].op = "join" /\ asked' \in {asked, asked \cup {<<http[r].pp, http[r].c>>}}
  BY DEF JoinAccepted, JoinFails
<1>2. /\ Kept /\ WatcherInv' /\ DatabaseInv /\ RegistryInv /\ TaskInv /\ HttpInv /\ BootInv /\ OutsideInv
  BY <1>1, WatcherAside
<1>3. SoundRequest(http[r]) /\ http[r] \in HttpRequests
  BY <1>2 DEF HttpInv
<1>4. http[r].pp \in Pps /\ http[r].c \in Contracts
  BY <1>1, <1>3 DEF SoundRequest
<1>5. OutsideInv'
  BY <1>1, <1>2, <1>4 DEF OutsideInv
<1>6. HttpInv'
  <2>1. CASE Answer(r)
    BY <1>2, <2>1, RequestAnswered
  <2>2. CASE http' = [http EXCEPT ![r].op = "create"]
    <3> DEFINE q == [http[r] EXCEPT !.op = "create"]
    <3>1. http' = [http EXCEPT ![r] = q]
      BY <1>2, <2>2 DEF HttpInv
    <3>2. q \in HttpRequests /\ q.op = "create" /\ q.pp = http[r].pp /\ q.c = http[r].c
      BY <1>3 DEF HttpRequests
    <3> HIDE DEF q
    <3>3. SoundRequest(q)
      BY <1>4, <3>2 DEF SoundRequest
    <3> QED BY <1>2, <3>1, <3>2, <3>3, RequestChanges
  <2> QED BY <2>1, <2>2 DEF JoinAccepted, JoinFails
<1> QED BY <1>1, <1>2, <1>5, <1>6, PartsAlone DEF CouncilInv

LEMMA JoinCreatedKeeps ==
  ASSUME CouncilInv, NEW r \in Requests, JoinCreated(r)
  PROVE  CouncilInv'
<1> DEFINE q == http[r]
<1>0. /\ WatcherInv /\ DatabaseInv /\ RegistryInv /\ TaskInv /\ HttpInv /\ BootInv /\ OutsideInv
      /\ WatcherTypeOK
  BY DEF CouncilInv, WatcherInv
<1>1. /\ UNCHANGED <<rpcVars, cursorVars, poll, pps, gone, gate, task, bootVars, asked, crashes>>
      /\ q.op = "create" /\ Stamped(q.pp, q.c, "PENDING") /\ WithContract(q.c)
      /\ record' = addChannel(q.c) /\ registered' = registered \cup {q.pp} /\ Answer(r)
  BY DEF JoinCreated
<1>2. SoundRequest(q)
  BY <1>0 DEF HttpInv
<1>3. Kept
  BY <1>0, <1>1, LedgersStay DEF Kept, rpcVars
<1>4. HttpInv'
  BY <1>0, <1>1, <1>3, RequestAnswered
<1> HIDE DEF q
<1>5. q.pp \in Pps /\ q.c \in Contracts
  BY <1>1, <1>2 DEF SoundRequest
<1>6. WatcherInv'
  BY <1>0, <1>1, <1>5, WithContractKeeps
<1>7. DatabaseInv'
  BY <1>0, <1>1, <1>3, <1>5, RowChanges DEF Statuses
<1>8. RegistryInv'
  <2>1. registered' \subseteq Pps
    BY <1>0, <1>1, <1>5 DEF RegistryInv
  <2> QED BY <1>0, <1>1, <1>3, <1>5, <2>1, RecordChanges
<1> QED BY <1>0, <1>1, <1>3, <1>4, <1>6, <1>7, <1>8, PartsAlone DEF CouncilInv

LEMMA SyncMembershipKeeps ==
  ASSUME CouncilInv, NEW r \in Requests, NEW pp \in Pps, SyncMembership(r, pp)
  PROVE  CouncilInv'
<1>1. UNCHANGED <<watcherVars, dbVars, registryVars, task, bootVars, asked, crashes>>
  BY DEF SyncMembership
<1>2. /\ Kept /\ WatcherInv' /\ DatabaseInv /\ RegistryInv /\ TaskInv /\ HttpInv /\ BootInv /\ OutsideInv
  BY <1>1, WatcherAside
<1>3. PICK c \in getCurrentForPp(pp) :
        http' = [http EXCEPT ![r] =
          [NoRequest EXCEPT !.op = "ask", !.pp = pp, !.c = c, !.status = member[pp][c]]]
  BY DEF SyncMembership
<1> DEFINE st == member[pp][c]
           q == [NoRequest EXCEPT !.op = "ask", !.pp = pp, !.c = c, !.status = st]
<1>4. c \in Contracts
  BY <1>2, ActiveRows
<1>5. st \in Statuses /\ (st = "ACTIVE" => <<pp, c>> \in Added)
  BY <1>2, <1>4 DEF DatabaseInv
<1>6. http' = [http EXCEPT ![r] = q]
  BY <1>3
<1> HIDE DEF st
<1>7. q \in HttpRequests /\ q.op = "ask" /\ q.pp = pp /\ q.c = c /\ q.status = st
  BY <1>4, <1>5 DEF NoRequest, HttpRequests
<1> HIDE DEF q
<1>8. SoundRequest(q)
  BY <1>4, <1>5, <1>7 DEF SoundRequest
<1>9. HttpInv'
  BY <1>2, <1>6, <1>7, <1>8, RequestChanges
<1> QED BY <1>1, <1>2, <1>9, PartsAlone DEF CouncilInv

(* A sync activates only what the council reports active, and rejects a row it
   had read as ACTIVE only when the council reports it gone. *)
LEMMA SyncAnsweredKeeps ==
  ASSUME CouncilInv, NEW r \in Requests, SyncAnswered(r)
  PROVE  CouncilInv'
<1>1. /\ UNCHANGED <<watcherVars, dbVars, registryVars, task, bootVars, asked, crashes>>
      /\ http[r].op = "ask"
  BY DEF SyncAnswered
<1>2. /\ Kept /\ WatcherInv' /\ DatabaseInv /\ RegistryInv /\ TaskInv /\ HttpInv /\ BootInv /\ OutsideInv
  BY <1>1, WatcherAside
<1>3. PICK verdict \in Verdicts(http[r].pp, http[r].c) :
        http' = [http EXCEPT ![r] = IF SyncOutcome(http[r].status, verdict) = "none" THEN NoRequest
                                    ELSE [@ EXCEPT !.op = SyncOutcome(http[r].status, verdict)]]
  BY DEF SyncAnswered
<1> DEFINE o == SyncOutcome(http[r].status, verdict)
           u == http[r]
           q == [u EXCEPT !.op = o]
<1>4. SoundRequest(u) /\ u \in HttpRequests /\ WatcherTypeOK
  BY <1>2 DEF HttpInv, CouncilInv, WatcherInv
<1>5. /\ o \in {"none", "activate", "reject"}
      /\ o = "activate" => verdict = "ACTIVE"
      /\ o = "reject" => verdict \in {"REJECTED", "NOT_FOUND"}
  BY DEF SyncOutcome
<1>6. /\ verdict = "ACTIVE" => IsProvider(u.pp, u.c)
      /\ verdict \in {"REJECTED", "NOT_FOUND"} => ~IsProvider(u.pp, u.c)
  BY <1>3 DEF Verdicts
<1>7. http' \in {[http EXCEPT ![r] = q], [http EXCEPT ![r] = NoRequest]}
  BY <1>2, <1>3 DEF HttpInv
<1>8. CASE http' = [http EXCEPT ![r] = NoRequest]
  <2>1. HttpInv'
    BY <1>2, <1>8, RequestAnswered DEF Answer
  <2> QED BY <1>1, <1>2, <2>1, PartsAlone DEF CouncilInv
<1>9. CASE http' = [http EXCEPT ![r] = q] /\ o # "none"
  <2> HIDE DEF o, u
  <2>1. q \in HttpRequests /\ q.op = o /\ q.pp = u.pp /\ q.c = u.c /\ q.status = u.status
    BY <1>4, <1>5 DEF HttpRequests
  <2> HIDE DEF q
  <2>2. /\ u.pp \in Pps /\ u.c \in Contracts
        /\ u.status = "ACTIVE" => <<u.pp, u.c>> \in Added
    BY <1>1, <1>4 DEF SoundRequest, u
  <2>3. o = "activate" => <<u.pp, u.c>> \in Added
    BY <1>4, <1>5, <1>6, ProviderWasAdded
  <2>4. o = "reject" /\ u.status = "ACTIVE" => <<u.pp, u.c>> \in Removed
    BY <1>4, <1>5, <1>6, <2>2, FormerProviderWasRemoved
  <2>5. SoundRequest(q)
    BY <1>5, <1>9, <2>1, <2>2, <2>3, <2>4 DEF SoundRequest
  <2>6. HttpInv'
    BY <1>2, <1>9, <2>1, <2>5, RequestChanges
  <2> QED BY <1>1, <1>2, <2>6, PartsAlone DEF CouncilInv
<1>10. o = "none" => http' = [http EXCEPT ![r] = NoRequest]
  BY <1>3
<1> QED BY <1>7, <1>8, <1>9, <1>10

LEMMA SyncWritesKeeps ==
  ASSUME CouncilInv, NEW r \in Requests, SyncWrites(r)
  PROVE  CouncilInv'
<1> DEFINE q == http[r]
           status == IF q.op = "activate" THEN "ACTIVE" ELSE "REJECTED"
<1>1. /\ UNCHANGED <<watcherVars, registryVars, task, bootVars, asked, crashes>>
      /\ q.op \in {"activate", "reject"} /\ UpdateRow(q.pp, q.c, status) /\ Answer(r)
  BY DEF SyncWrites
<1>2. /\ Kept /\ WatcherInv' /\ DatabaseInv /\ RegistryInv /\ TaskInv /\ HttpInv /\ BootInv /\ OutsideInv
  BY <1>1, WatcherAside
<1>3. SoundRequest(q) /\ HttpInv'
  BY <1>1, <1>2, RequestAnswered DEF HttpInv
<1>4. status \in Statuses /\ (status = "ACTIVE" => q.op = "activate")
  BY DEF Statuses
<1> HIDE DEF q, status
<1>5. q.pp \in Pps /\ q.c \in Contracts /\ (status = "ACTIVE" => <<q.pp, q.c>> \in Added)
  BY <1>1, <1>3, <1>4 DEF SoundRequest
<1>6. DatabaseInv'
  BY <1>1, <1>2, <1>4, <1>5, UpdateKeeps
<1> QED BY <1>1, <1>2, <1>3, <1>6, PartsAlone DEF CouncilInv

LEMMA RequestStepKeeps ==
  ASSUME CouncilInv, NEW r \in Requests, RequestStep(r)
  PROVE  CouncilInv'
BY DeleteRowsKeeps, JoinDecided, JoinCreatedKeeps, SyncAnsweredKeeps, SyncWritesKeeps DEF RequestStep

-----------------------------------------------------------------------------
(* The council, and all steps together *)

LEMMA CouncilDecidesKeeps ==
  ASSUME CouncilInv, NEW e \in Events, CouncilDecides(e)
  PROVE  CouncilInv'
<1>0. /\ WatcherInv /\ DatabaseInv /\ RegistryInv /\ TaskInv /\ HttpInv /\ BootInv /\ OutsideInv
      /\ WatcherTypeOK
  BY DEF CouncilInv, WatcherInv
<1>1. /\ UNCHANGED <<dbVars, registryVars, task, http, bootVars, crashes>> /\ CloseLedger(e)
      /\ asked' \subseteq asked
  BY DEF CouncilDecides
<1>2. WatcherInv'
  BY <1>0, <1>1, CloseLedgerKeeps
<1>3. Kept
  BY <1>0, <1>1, LedgersStay DEF Kept, CloseLedger
<1>4. OutsideInv'
  BY <1>0, <1>1 DEF OutsideInv
<1> QED BY <1>0, <1>1, <1>2, <1>3, <1>4, PartsAlone DEF CouncilInv

LEMMA CouncilTurnsDownKeeps ==
  ASSUME CouncilInv, NEW pp \in Pps, NEW c \in Contracts, CouncilTurnsDown(pp, c)
  PROVE  CouncilInv'
<1>1. /\ UNCHANGED <<watcherVars, dbVars, registryVars, task, http, bootVars, crashes>>
      /\ asked' \subseteq asked
  BY DEF CouncilTurnsDown
<1>2. /\ Kept /\ WatcherInv' /\ DatabaseInv /\ RegistryInv /\ TaskInv /\ HttpInv /\ BootInv /\ OutsideInv
  BY <1>1, WatcherAside
<1>3. OutsideInv'
  BY <1>1, <1>2 DEF OutsideInv
<1> QED BY <1>1, <1>2, <1>3, PartsAlone DEF CouncilInv

LEMMA CouncilStarts ==
  ASSUME CouncilInit
  PROVE  CouncilInv
<1>1. WatcherInv
  BY WatcherStarts DEF CouncilInit
<1>2. DatabaseInv
  BY DEF CouncilInit, DatabaseInv, Statuses
<1>3. RegistryInv
  BY DEF CouncilInit, RegistryInv
<1>4. TaskInv
  BY NoTaskType DEF CouncilInit, TaskInv, SoundTask
<1>5. HttpInv
  BY NoRequestType DEF CouncilInit, HttpInv, SoundRequest
<1>6. BootInv /\ OutsideInv
  BY CouncilAssumption DEF CouncilInit, BootInv, OutsideInv
<1> QED BY <1>1, <1>2, <1>3, <1>4, <1>5, <1>6 DEF CouncilInv

LEMMA CouncilStep ==
  ASSUME CouncilInv, [Next]_vars
  PROVE  CouncilInv'
<1>1. CASE Poll \/ DispatchEvent
  BY <1>1, PollKeeps, DispatchEventKeeps
<1>2. CASE \E k \in Callers : MembershipHandler(k)
  BY <1>2, MembershipHandlerKeeps
<1>3. CASE PromoteMembership
  BY <1>3, PromoteMembershipKeeps
<1>4. CASE Boot \/ BootPhaseDone \/ RecheckMembership \/ Crash
  BY <1>4, BootKeeps, BootPhaseDoneKeeps, RecheckMembershipKeeps, CrashKeeps
<1>5. CASE \E pp \in Pps : ConvergeChannels(pp) \/ ConvergeMembership(pp)
  BY <1>5, ConvergeChannelsKeeps, ConvergeMembershipKeeps
<1>6. CASE \E r \in Requests : RequestStep(r)
  BY <1>6, RequestStepKeeps
<1>7. CASE \E r \in Requests, pp \in Pps : RegisterPp(r, pp) \/ DeletePp(r, pp) \/ SyncMembership(r, pp)
  BY <1>7, RegisterPpKeeps, DeletePpKeeps, SyncMembershipKeeps
<1>8. CASE \E r \in Requests, pp \in Pps, c \in Contracts : JoinCouncil(r, pp, c)
  BY <1>8, JoinCouncilKeeps
<1>9. CASE \E e \in Events : CouncilDecides(e)
  BY <1>9, CouncilDecidesKeeps
<1>10. CASE \E pp \in Pps, c \in Contracts : CouncilTurnsDown(pp, c)
  BY <1>10, CouncilTurnsDownKeeps
<1>11. CASE Retention
  BY <1>11, RetentionKeeps
<1>12. CASE UNCHANGED vars
  <2>1. UNCHANGED <<watcherVars, councilVars>>
    BY <1>12 DEF vars
  <2>2. /\ Kept /\ WatcherInv' /\ DatabaseInv /\ RegistryInv /\ TaskInv /\ HttpInv /\ BootInv /\ OutsideInv
    BY <2>1, WatcherAside
  <2> QED BY <2>1, <2>2, PartsAlone DEF CouncilInv, councilVars
<1> QED BY <1>1, <1>2, <1>3, <1>4, <1>5, <1>6, <1>7, <1>8, <1>9, <1>10, <1>11, <1>12 DEF Next

LEMMA CouncilInvariant == Spec => []CouncilInv
<1> QED BY CouncilStarts, CouncilStep, PTL DEF Spec

-----------------------------------------------------------------------------
(* Poller, registry, memberships and requests keep their types. *)
THEOREM CouncilTypeCorrect == Spec => []CouncilTypeOK
<1>1. CouncilInv => CouncilTypeOK
  BY DEF CouncilInv, WatcherInv, DatabaseInv, RegistryInv, TaskInv, HttpInv, BootInv, OutsideInv,
         CouncilTypeOK, Tasks, HttpRequests
<1> QED BY <1>1, CouncilInvariant, PTL

(* The withdraw-only gate of admission closes for a channel only if the council
   has disabled it on chain, whether the event, the query that follows an
   admission or the query of the boot closed it, and whichever came last. *)
THEOREM GateClosesOnCouncilsWord == Spec => []DisabledByCouncil
<1>1. ASSUME CouncilInv, NEW c \in Contracts, gate[c] = "disabled"
      PROVE  \E l \in Switches(c) : chain[l].type = "channel_disabled"
  <2>1. c \in Closed
    BY <1>1 DEF CouncilInv, RegistryInv
  <2> QED BY <2>1, SwitchesIs DEF Closed
<1>2. CouncilInv => DisabledByCouncil
  BY <1>1 DEF DisabledByCouncil
<1> QED BY <1>2, CouncilInvariant, PTL

LEMMA RuledOnChain ==
  ASSUME NEW pp, NEW c
  PROVE  /\ <<pp, c>> \in Added => \E l \in About(pp, c) : chain[l].type = "provider_added"
         /\ <<pp, c>> \in Removed => \E l \in About(pp, c) : chain[l].type = "provider_removed"
<1>1. <<pp, c>> \in Added => \E l \in About(pp, c) : chain[l].type = "provider_added"
  BY AboutIs DEF Added
<1>2. <<pp, c>> \in Removed => \E l \in About(pp, c) : chain[l].type = "provider_removed"
  BY AboutIs DEF Removed
<1> QED BY <1>1, <1>2

(* No membership is ACTIVE that its council never admitted, whichever of the
   event handler, the sync request and the boot wrote the row. *)
THEOREM MembersWereAdmitted == Spec => []ActiveWasAdmitted
<1>1. ASSUME CouncilInv PROVE ActiveWasAdmitted
  BY <1>1, RuledOnChain DEF CouncilInv, DatabaseInv, ActiveWasAdmitted
<1> QED BY <1>1, CouncilInvariant, PTL

(* Who writes memberships. *)
LEMMA RowsWrittenBy ==
  ASSUME Next
  PROVE  \/ UNCHANGED member
         \/ PromoteMembership
         \/ \E k \in Callers : DemoteMembership(k)
         \/ \E r \in Requests : DeleteRows(r) \/ JoinCreated(r) \/ SyncWrites(r)
<1>1. CASE Poll \/ DispatchEvent
  BY <1>1 DEF Poll, DispatchEvent, councilVars, dbVars
<1>2. CASE \E k \in Callers : MembershipHandler(k)
  BY <1>2 DEF MembershipHandler, QueryConfig, SeedRegistry, StillReferenced, NobodyToReference,
              NotReferencedBy, dbVars
<1>3. CASE Boot \/ BootPhaseDone \/ RecheckMembership \/ Crash
  BY <1>3 DEF Boot, BootPhaseDone, RecheckMembership, Crash, dbVars
<1>4. CASE \E pp \in Pps : ConvergeChannels(pp) \/ ConvergeMembership(pp)
  BY <1>4 DEF ConvergeChannels, ConvergeMembership, dbVars
<1>5. CASE \E r \in Requests : RequestStep(r)
  BY <1>5 DEF RequestStep, JoinAccepted, JoinFails, SyncAnswered, dbVars
<1>6. CASE \E r \in Requests, pp \in Pps : RegisterPp(r, pp) \/ DeletePp(r, pp) \/ SyncMembership(r, pp)
  BY <1>6 DEF RegisterPp, DeletePp, SyncMembership, dbVars
<1>7. CASE \E r \in Requests, pp \in Pps, c \in Contracts : JoinCouncil(r, pp, c)
  BY <1>7 DEF JoinCouncil, dbVars
<1>8. CASE \/ \E e \in Events : CouncilDecides(e)
           \/ \E pp \in Pps, c \in Contracts : CouncilTurnsDown(pp, c)
           \/ Retention
  BY <1>8 DEF CouncilDecides, CouncilTurnsDown, Retention, councilVars, dbVars
<1> QED BY <1>1, <1>2, <1>3, <1>4, <1>5, <1>6, <1>7, <1>8 DEF Next

(* What an update of the row of pp and c does to the other rows. *)
LEMMA OtherRows ==
  ASSUME DatabaseInv, NEW pp \in Pps, NEW c \in Contracts, NEW status,
         UpdateRow(pp, c, status) \/ Stamped(pp, c, status)
  PROVE  \A x \in Pps, d \in Contracts :
           member'[x][d] # member[x][d] => x = pp /\ d = c /\ member'[x][d] = status
<1>1. UNCHANGED member \/ member' = [member EXCEPT ![pp] = [member[pp] EXCEPT ![c] = status]]
  BY DEF UpdateRow, Stamped
<1>2. member[pp] \in [Contracts -> Statuses] /\ member \in [Pps -> [Contracts -> Statuses]]
  BY DEF DatabaseInv
<1> QED BY <1>1, <1>2

(* A valid membership is not knocked offline: an ACTIVE row becomes REJECTED
   only if the council has removed the provider, or by a sync that had read the
   row before it was ACTIVE. *)
THEOREM MembersStayOnline == Spec => NotKnockedOffline
<1>1. ASSUME CouncilInv, [Next]_vars, NEW pp \in Pps, NEW c \in Contracts,
             member[pp][c] = "ACTIVE", member'[pp][c] = "REJECTED"
      PROVE  \/ \E l \in About(pp, c) : chain[l].type = "provider_removed"
             \/ \E r \in Requests : http[r].op = "reject" /\ http[r].status # "ACTIVE"
  <2>0. DatabaseInv /\ TaskInv /\ HttpInv
    BY <1>1 DEF CouncilInv
  <2>1. member'[pp][c] # member[pp][c]
    BY <1>1
  <2>2. Next
    BY <1>1, <2>1 DEF vars, councilVars, dbVars
  <2>3. CASE PromoteMembership
    <3> DEFINE t == task["watcher"]
    <3>1. t.op = "promote" /\ UpdateRow(t.pp, t.c, "ACTIVE") /\ SoundTask("watcher", t)
      BY <2>0, <2>3 DEF PromoteMembership, TaskInv, Callers
    <3> HIDE DEF t
    <3>2. t.pp \in Pps /\ t.c \in Contracts
      BY <3>1 DEF SoundTask
    <3>3. member'[pp][c] = "ACTIVE"
      BY <2>0, <2>1, <3>1, <3>2, OtherRows
    <3> QED BY <1>1, <3>3
  <2>4. ASSUME NEW k \in Callers, DemoteMembership(k)
        PROVE  \E l \in About(pp, c) : chain[l].type = "provider_removed"
    <3> DEFINE t == task[k]
    <3>1. t.op = "demote" /\ UpdateRow(t.pp, t.c, "REJECTED") /\ SoundTask(k, t)
      BY <2>0, <2>4 DEF DemoteMembership, TaskInv
    <3> HIDE DEF t
    <3>2. t.pp \in Pps /\ t.c \in Contracts /\ <<t.pp, t.c>> \in Removed
      BY <3>1 DEF SoundTask
    <3>3. pp = t.pp /\ c = t.c
      BY <2>0, <2>1, <3>1, <3>2, OtherRows
    <3> QED BY <3>2, <3>3, RuledOnChain
  <2>5. ASSUME NEW r \in Requests, DeleteRows(r)
        PROVE  FALSE
    <3> DEFINE q == http[r]
               rest == [d \in Contracts |-> IF d \in q.rows THEN "none" ELSE member[q.pp][d]]
    <3>1. q.op = "delete" /\ member' = [member EXCEPT ![q.pp] = rest] /\ SoundRequest(q)
      BY <2>0, <2>5 DEF DeleteRows, HttpInv
    <3>2. q.pp \in Pps
      BY <3>1 DEF SoundRequest
    <3>3. member'[pp][c] \in {member[pp][c], "none"}
      BY <2>0, <3>1, <3>2 DEF DatabaseInv
    <3> QED BY <1>1, <3>3
  <2>6. ASSUME NEW r \in Requests, JoinCreated(r)
        PROVE  FALSE
    <3> DEFINE q == http[r]
    <3>1. q.op = "create" /\ Stamped(q.pp, q.c, "PENDING") /\ SoundRequest(q)
      BY <2>0, <2>6 DEF JoinCreated, HttpInv
    <3> HIDE DEF q
    <3>2. q.pp \in Pps /\ q.c \in Contracts
      BY <3>1 DEF SoundRequest
    <3>3. member'[pp][c] = "PENDING"
      BY <2>0, <2>1, <3>1, <3>2, OtherRows
    <3> QED BY <1>1, <3>3
  <2>7. ASSUME NEW r \in Requests, SyncWrites(r)
        PROVE  \/ \E l \in About(pp, c) : chain[l].type = "provider_removed"
               \/ http[r].op = "reject" /\ http[r].status # "ACTIVE"
    <3> DEFINE q == http[r]
               status == IF q.op = "activate" THEN "ACTIVE" ELSE "REJECTED"
    <3>1. q.op \in {"activate", "reject"} /\ UpdateRow(q.pp, q.c, status) /\ SoundRequest(q)
      BY <2>0, <2>7 DEF SyncWrites, HttpInv
    <3>2. status = "REJECTED" => q.op = "reject"
      BY <3>1
    <3> HIDE DEF q, status
    <3>3. q.pp \in Pps /\ q.c \in Contracts
      BY <3>1 DEF SoundRequest
    <3>4. pp = q.pp /\ c = q.c /\ status = "REJECTED"
      BY <1>1, <2>0, <2>1, <3>1, <3>3, OtherRows
    <3>5. q.op = "reject" /\ q.status = "ACTIVE" => <<pp, c>> \in Removed
      BY <3>1, <3>4 DEF SoundRequest
    <3>6. q.status = "ACTIVE" => \E l \in About(pp, c) : chain[l].type = "provider_removed"
      BY <3>2, <3>4, <3>5, RuledOnChain
    <3> QED BY <3>2, <3>4, <3>6 DEF q
  <2> QED BY <2>1, <2>2, <2>3, <2>4, <2>5, <2>6, <2>7, RowsWrittenBy
<1>2. CouncilInv /\ [Next]_vars =>
        [\A pp \in Pps, c \in Contracts :
           member[pp][c] = "ACTIVE" /\ member'[pp][c] = "REJECTED"
           => \/ \E l \in About(pp, c) : chain[l].type = "provider_removed"
              \/ \E r \in Requests : http[r].op = "reject" /\ http[r].status # "ACTIVE"]_vars
  BY <1>1
<1> QED BY <1>2, CouncilInvariant, PTL DEF Spec, NotKnockedOffline

(* The poller keeps its promise inside the system: also when contracts come and
   go by joins, removals and boots, and when the process crashes. *)
THEOREM CouncilSkipsNoEvent == Spec => [](NothingSkipped /\ SeamDispatchedOnce)
<1>1. CouncilInv => WatcherInv
  BY DEF CouncilInv
<1>2. WatcherInv => NothingSkipped
  BY DEF WatcherInv
<1> QED BY <1>1, <1>2, SeamHolds, CouncilInvariant, PTL
=============================================================================
