--------------------------- MODULE EventWatcher ---------------------------
(***************************************************************************)
(* The poller of event-watcher.process.ts: one process-wide watcher that   *)
(* reads the events of a changing set of channel-auth contracts from the   *)
(* Stellar RPC server with two cursors.  The live cursor follows the tip;  *)
(* the backfill cursor walks history up to the ceiling, the tip at the     *)
(* moment the cursors were resolved.                                       *)
(*                                                                         *)
(* A ledger holds one event, so an event is named by its ledger.  The      *)
(* handler of an event belongs to the module that extends this one.        *)
(***************************************************************************)
EXTENDS Integers, Sequences, FiniteSets

CONSTANTS Contracts,      \* channel-auth contracts
          Events,         \* what a ledger may hold: records with type, contract
          StartPin,       \* BOOT_SYNC_START_LEDGER_BLOCK, 0 when unset
          CallSize,       \* MAX_CONTRACT_IDS_PER_CALL
          MaxLedger       \* bound on the length of the chain

KNOWN_TOPICS == {"contract_initialized", "provider_added", "provider_removed",
                 "channel_enabled", "channel_disabled"}

ASSUME WatcherAssumption ==
  /\ StartPin \in Nat
  /\ CallSize \in Nat \ {0}
  /\ MaxLedger \in Nat
  /\ IsFiniteSet(Contracts)
  /\ \A e \in Events : e.contract \in Contracts

VARIABLES
  chain,       \* external: the event of each closed ledger
  oldest,      \* external: the oldest ledger the RPC server retains
  contracts,   \* contractIds
  live,        \* liveLedger, 0 for null
  backfill,    \* backfillLedger, 0 for null
  ceiling,     \* backfillCeiling, 0 for null
  poll,        \* the poll in progress: where it is, events in hand, new cursor
  start,       \* history: where backfill started
  seen,        \* history: ledgers dispatched by live reads since then
  walked,      \* history: ledgers dispatched by backfill since then
  steady       \* history: contracts watched since before a cursor moved

rpcVars    == <<chain, oldest>>
cursorVars == <<live, backfill, ceiling, start, seen, walked>>
watchVars  == <<contracts, steady>>
watcherVars == <<rpcVars, cursorVars, watchVars, poll>>

Tip == Len(chain)
NoPoll == [pc |-> "idle", inbox |-> {}, upto |-> 0]

-----------------------------------------------------------------------------
(* The ledgers a cursor has passed since the cursors were resolved.        *)
BackfillPassed == IF live = 0 THEN {}
                  ELSE start..((IF backfill = 0 THEN ceiling ELSE backfill) - 1)
LivePassed     == IF live = 0 THEN {} ELSE ceiling..(live - 1)
Passed         == BackfillPassed \cup LivePassed

(* The event with the lowest ledger is dispatched first (parsed.sort).     *)
NextEvent == CHOOSE l \in poll.inbox : \A m \in poll.inbox : l <= m

ParsedEvents(cs, from, to) ==
  {l \in from..to : chain[l].contract \in cs /\ chain[l].type \in KNOWN_TOPICS}

(* resolveBootStartLedger. *)
BootStartLedger == IF StartPin > oldest THEN StartPin ELSE oldest

(* The RPC server refuses a cursor older than what it retains.             *)
OutOfRetention(from) == contracts # {} /\ from < oldest

(* How far the calls of one fetchChannelAuthEvents get.  Each call covers  *)
(* at most CallSize contracts and reports a slice of its own; a cursor one *)
(* past the tip gets an empty slice.                                       *)
Calls == (Cardinality(contracts) + CallSize - 1) \div CallSize
Reports(from) ==
  {ends \in [contracts -> (IF from > Tip THEN {Tip} ELSE from..Tip)] :
     Cardinality({ends[c] : c \in contracts}) <= Calls}

(* Mutant: the ledger of the cursor itself is left out.                    *)
FetchedAfterCursor(from, ends) ==
  [inbox |-> UNION {ParsedEvents({c}, from + 1, ends[c]) : c \in contracts},
   upto  |-> IF contracts = {} THEN from - 1
             ELSE CHOOSE u \in {ends[c] : c \in contracts} :
                    \A c \in contracts : u <= ends[c]]

(* What fetchChannelAuthEvents returns: all parsed events, and the ledger  *)
(* the least advanced call reports.  Without contracts the cursor holds.   *)
Fetched(from, ends) ==
  [inbox |-> UNION {ParsedEvents({c}, from, ends[c]) : c \in contracts},
   upto  |-> IF contracts = {} THEN from - 1
             ELSE CHOOSE u \in {ends[c] : c \in contracts} :
                    \A c \in contracts : u <= ends[c]]

(* Mutant: the ledger at the ceiling belongs to both reads.                *)
UpToCeiling(inbox) == {l \in inbox : l <= ceiling}

(* Strictly below the ceiling, so that nothing is dispatched twice.        *)
BelowCeiling(inbox) == {l \in inbox : l < ceiling}

-----------------------------------------------------------------------------
WatcherInit ==
  /\ chain \in {<<e>> : e \in {e \in Events : e.type \in {"contract_initialized", "other"}}}
  /\ oldest = 1
  /\ contracts = {} /\ steady = {}
  /\ live = 0 /\ backfill = 0 /\ ceiling = 0 /\ start = 0
  /\ seen = {} /\ walked = {}
  /\ poll = NoPoll

(* The first poll, and the one after a reset, resolves both cursors.       *)
ResolveCursors ==
  /\ poll.pc = "idle" /\ live = 0
  /\ live' = Tip /\ ceiling' = Tip
  /\ backfill' = IF BootStartLedger >= Tip THEN 0 ELSE BootStartLedger
  /\ start' = IF BootStartLedger >= Tip THEN Tip ELSE BootStartLedger
  /\ seen' = {} /\ walked' = {} /\ steady' = contracts
  /\ UNCHANGED <<rpcVars, contracts, poll>>

LiveRead ==
  /\ poll.pc = "idle" /\ live # 0 /\ ~OutOfRetention(live)
  /\ \E ends \in Reports(live) :
       LET f == Fetched(live, ends)
       IN poll' = [pc |-> "live", inbox |-> f.inbox, upto |-> f.upto]
  /\ UNCHANGED <<rpcVars, cursorVars, watchVars>>

(* The live cursor fell out of retention: resume at the tip next time.     *)
LiveOutOfRetention ==
  /\ poll.pc = "idle" /\ live # 0 /\ OutOfRetention(live)
  /\ live' = 0
  /\ UNCHANGED <<rpcVars, backfill, ceiling, start, seen, walked, watchVars, poll>>

(* One event is handed to the handlers; an error of theirs is swallowed.   *)
Dispatch ==
  /\ poll.inbox # {}
  /\ poll' = [poll EXCEPT !.inbox = @ \ {NextEvent}]
  /\ seen'   = IF poll.pc = "live" THEN seen \cup {NextEvent} ELSE seen
  /\ walked' = IF poll.pc = "live" THEN walked ELSE walked \cup {NextEvent}
  /\ UNCHANGED <<rpcVars, live, backfill, ceiling, start, watchVars>>

(* Mutant: the cursor stays on the last ledger read. *)
LiveReadDoneOnLast ==
  /\ poll.pc = "live" /\ poll.inbox = {}
  /\ live' = IF contracts = {} THEN live ELSE poll.upto
  /\ poll' = [NoPoll EXCEPT !.pc = "walk"]
  /\ UNCHANGED <<rpcVars, backfill, ceiling, start, seen, walked, watchVars>>

(* The live cursor advances once everything is dispatched.                 *)
LiveReadDone ==
  /\ poll.pc = "live" /\ poll.inbox = {}
  /\ live' = poll.upto + 1
  /\ poll' = [NoPoll EXCEPT !.pc = "walk"]
  /\ UNCHANGED <<rpcVars, backfill, ceiling, start, seen, walked, watchVars>>

(* pollBackfill with nothing left to walk, or with a failing read.         *)
SkipBackfill ==
  /\ poll.pc = "walk"
  /\ poll' = NoPoll
  /\ backfill' = IF backfill >= ceiling THEN 0 ELSE backfill
  /\ UNCHANGED <<rpcVars, live, ceiling, start, seen, walked, watchVars>>

BackfillRead ==
  /\ poll.pc = "walk" /\ backfill # 0 /\ backfill < ceiling
  /\ ~OutOfRetention(backfill)
  /\ \E ends \in Reports(backfill) :
       LET f == Fetched(backfill, ends)
       IN poll' = [pc |-> "backfill", inbox |-> BelowCeiling(f.inbox), upto |-> f.upto]
  /\ UNCHANGED <<rpcVars, cursorVars, watchVars>>

(* Mutant: the walk does not end at the ceiling. *)
BackfillPastCeiling(l) == l

(* Backfill cursor after a slice, or after clamping to the oldest ledger.  *)
BackfillAt(l) == IF l >= ceiling THEN 0 ELSE l

BackfillReadDone ==
  /\ poll.pc = "backfill" /\ poll.inbox = {}
  /\ backfill' = BackfillAt(poll.upto + 1)
  /\ poll' = NoPoll
  /\ UNCHANGED <<rpcVars, live, ceiling, start, seen, walked, watchVars>>

BackfillOutOfRetention ==
  /\ poll.pc = "walk" /\ backfill # 0 /\ backfill < ceiling
  /\ OutOfRetention(backfill)
  /\ backfill' = BackfillAt(BootStartLedger)
  /\ poll' = NoPoll
  /\ UNCHANGED <<rpcVars, live, ceiling, start, seen, walked, watchVars>>

(* addContract and removeContract.  A contract that comes in before a      *)
(* cursor moved is covered as if it had been there from the beginning.     *)
WithContract(c) ==
  /\ contracts' = contracts \cup {c}
  /\ steady' = IF Passed = {} /\ poll.pc = "idle" THEN steady \cup {c} ELSE steady

WithoutContract(c) ==
  /\ contracts' = contracts \ {c}
  /\ steady' = steady \ {c}

AddContract(c) ==
  /\ c \notin contracts
  /\ WithContract(c)
  /\ UNCHANGED <<rpcVars, cursorVars, poll>>

RemoveContract(c) ==
  /\ c \in contracts
  /\ WithoutContract(c)
  /\ UNCHANGED <<rpcVars, cursorVars, poll>>

(* External: a ledger closes, or falls out of the retention window.        *)
CloseLedger(e) ==
  /\ Tip < MaxLedger
  /\ chain' = Append(chain, e)
  /\ UNCHANGED <<oldest, cursorVars, watchVars, poll>>

RetentionAdvances ==
  /\ oldest < Tip
  /\ oldest' = oldest + 1
  /\ UNCHANGED <<chain, cursorVars, watchVars, poll>>

-----------------------------------------------------------------------------
PollStep ==
  \/ ResolveCursors \/ LiveRead \/ LiveOutOfRetention
  \/ LiveReadDone \/ SkipBackfill
  \/ BackfillRead \/ BackfillReadDone \/ BackfillOutOfRetention

WatcherNext ==
  \/ PollStep
  \/ Dispatch
  \/ \E c \in Contracts : AddContract(c) \/ RemoveContract(c)
  \/ \E e \in Events : CloseLedger(e)
  \/ RetentionAdvances

WatcherSpec == WatcherInit /\ [][WatcherNext]_watcherVars

(* The timer fires again after every poll and the RPC server answers some  *)
(* of the reads; nothing is assumed of the network or of the contracts.    *)
WatcherFairSpec ==
  /\ WatcherSpec
  /\ WF_watcherVars(ResolveCursors \/ LiveRead \/ LiveOutOfRetention)
  /\ WF_watcherVars(Dispatch)
  /\ WF_watcherVars(LiveReadDone)
  /\ WF_watcherVars(SkipBackfill \/ BackfillRead \/ BackfillOutOfRetention)
  /\ SF_watcherVars(BackfillRead \/ BackfillOutOfRetention)
  /\ WF_watcherVars(BackfillReadDone)

-----------------------------------------------------------------------------
(* The cursors and the poll in progress have their types.                  *)
WatcherTypeOK ==
  /\ chain \in Seq(Events) /\ chain # <<>>
  /\ oldest \in 1..Tip
  /\ contracts \subseteq Contracts /\ steady \subseteq contracts
  /\ live \in 0..(Tip + 1)
  /\ backfill \in 0..Tip /\ ceiling \in 0..Tip /\ start \in 0..Tip
  /\ seen \subseteq 1..Tip /\ walked \subseteq 1..Tip
  /\ poll \in [pc : {"idle", "live", "walk", "backfill"},
               inbox : SUBSET (1..Tip), upto : 0..Tip]
  /\ poll.pc \in {"idle", "walk"} => poll = [NoPoll EXCEPT !.pc = poll.pc]

(* No event that is still retained is skipped: of a contract watched since *)
(* the cursors stood still, every event a cursor has passed was handed to  *)
(* the handlers, whatever slices and batches the reads came in.            *)
NothingSkipped ==
  \A l \in Passed :
    /\ l >= oldest
    /\ chain[l].contract \in steady
    /\ chain[l].type \in KNOWN_TOPICS
    => l \in seen \cup walked

(* The live read and backfill share no event: what backfill is about to    *)
(* dispatch was not dispatched by a live read since the cursors were set.  *)
SeamDispatchedOnce == (seen \cup (IF poll.pc = "live" THEN poll.inbox ELSE {}))
                        \cap (walked \cup (IF poll.pc = "backfill" THEN poll.inbox ELSE {})) = {}

(* Between two polls: an event the live cursor has not reached, of a       *)
(* watched contract, will be dispatched, unless it is first lost to        *)
(* retention or its contract is no longer watched.  It says nothing of a   *)
(* contract added while a read is in flight: that read passes it by.       *)
EventDispatched(l) ==
  (/\ poll.pc = "idle" /\ live # 0 /\ l \in live..Tip
   /\ chain[l].contract \in contracts /\ chain[l].type \in KNOWN_TOPICS)
  ~> (\/ l \in seen \cup walked
      \/ l < oldest
      \/ l <= Tip /\ chain[l].contract \notin contracts)
EventsAreDispatched == \A l \in 1..MaxLedger : EventDispatched(l)
=============================================================================
