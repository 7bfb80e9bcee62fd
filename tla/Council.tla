------------------------------ MODULE Council ------------------------------
(***************************************************************************)
(* Council memberships and the channel registry of provider-platform: what *)
(* the event watcher's handlers, the dashboard's requests and the queries  *)
(* of the boot do to them.  A council is its channel-auth contract and has *)
(* one asset channel.                                                      *)
(*                                                                         *)
(* A step runs from one await to the next.  The HTTP server listens only   *)
(* once startEventWatcher has returned, while the watcher polls from the   *)
(* moment it was started.                                                  *)
(***************************************************************************)
EXTENDS EventWatcher

CONSTANTS Pps,          \* public keys of payment providers
          NoPp,         \* the provider of an event that is about none
          Requests,     \* HTTP requests that may be in progress together
          MaxCrashes    \* bound on restarts

ASSUME CouncilAssumption ==
  /\ NoPp \notin Pps
  /\ MaxCrashes \in Nat
  /\ \A e \in Events : e.pp \in Pps \cup {NoPp}

VARIABLES
  pps,          \* payment_providers
  gone,         \* providers that were deleted; they are not registered again
  member,       \* council_memberships: status by provider and council
  older,        \* its rows by updatedAt: pairs of councils, the second updated later
  registered,   \* registeredProviders
  record,       \* registry entries of channel-auth contracts
  gate,         \* registry entries of asset channels
  task,         \* membership handler in progress, of the watcher and of the boot
  http,         \* dashboard requests in progress
  phase,        \* where startEventWatcher is
  left,         \* providers its current loop has not visited
  queried,      \* councils convergeChannelStatusesOnBoot has queried (seen)
  asked,        \* external: join requests the council has not decided
  crashes

dbVars       == <<pps, gone, member, older>>
registryVars == <<registered, record, gate>>
bootVars     == <<phase, left, queried>>
councilVars  == <<dbVars, registryVars, task, http, bootVars, asked, crashes>>
vars         == <<watcherVars, councilVars>>

Callers == {"watcher", "boot"}
NoTask == [op |-> "none", pp |-> NoPp, c |-> NoPp, enabled |-> TRUE, scan |-> {}]
NoRequest == [op |-> "none", pp |-> NoPp, c |-> NoPp, status |-> "none", rows |-> {}]

-----------------------------------------------------------------------------
(* What the chain says: the council's decisions, the latest one counting.  *)
Decided(T(_)) == {l \in 1..Tip : T(chain[l])}
Latest(S) == CHOOSE l \in S : \A m \in S : m <= l

About(pp, c) == LET Here(e) == e.pp = pp /\ e.contract = c
                               /\ e.type \in {"provider_added", "provider_removed"}
                IN Decided(Here)
IsProvider(pp, c) == About(pp, c) # {} /\ chain[Latest(About(pp, c))].type = "provider_added"

Switches(c) == LET Here(e) == e.contract = c
                              /\ e.type \in {"channel_enabled", "channel_disabled"}
               IN Decided(Here)
IsEnabled(c) == Switches(c) # {} => chain[Latest(Switches(c))].type = "channel_enabled"

(* The council's membership-status endpoint, or no answer.  A request that *)
(* was turned down is reported absent or rejected.                         *)
Verdicts(pp, c) ==
  {"UNKNOWN"} \cup
  (IF IsProvider(pp, c) THEN {"ACTIVE"}
   ELSE IF <<pp, c>> \in asked THEN {"PENDING"} ELSE {"NOT_FOUND", "REJECTED"})

-----------------------------------------------------------------------------
(* CouncilMembershipRepository. *)
Rows(pp) == {c \in Contracts : member[pp][c] # "none"}

getActiveForPp(pp) == {c \in Rows(pp) : member[pp][c] = "ACTIVE"}

(* The ACTIVE row, or else the one updated last; empty without a row.      *)
getCurrentForPp(pp) ==
  IF getActiveForPp(pp) # {} THEN getActiveForPp(pp)
  ELSE {c \in Rows(pp) : \A d \in Rows(pp) \ {c} : <<d, c>> \in older[pp]}

(* update and create stamp updatedAt.  An update of a row deleted in the   *)
(* meantime changes nothing that is read again.                            *)
Stamped(pp, c, status) ==
  /\ member' = [member EXCEPT ![pp][c] = status]
  /\ older' = [older EXCEPT ![pp] =
       {p \in @ : p[1] # c} \cup {<<d, c>> : d \in Rows(pp) \ {c}}]

UpdateRow(pp, c, status) ==
  /\ IF member[pp][c] = "none" THEN UNCHANGED <<member, older>>
                               ELSE Stamped(pp, c, status)
  /\ UNCHANGED <<pps, gone>>

-----------------------------------------------------------------------------
(* ChannelRegistry. *)
addChannel(c) == IF record[c] = "none" THEN [record EXCEPT ![c] = "active"] ELSE record
(* Mutant: the flag is read the other way round. *)
applyChannelStateInverted(c, enabled) ==
  [gate EXCEPT ![c] = IF enabled THEN "disabled" ELSE "active"]

applyChannelState(c, enabled) == [gate EXCEPT ![c] = IF enabled THEN "active" ELSE "disabled"]

onProviderAdded(c) == [record EXCEPT ![c] = IF @ = "none" THEN "pending" ELSE "active"]
onProviderRemoved(c) == [record EXCEPT ![c] = "inactive"]

-----------------------------------------------------------------------------
CouncilInit ==
  /\ WatcherInit
  /\ pps = {} /\ gone = {}
  /\ member = [pp \in Pps |-> [c \in Contracts |-> "none"]]
  /\ older = [pp \in Pps |-> {}]
  /\ registered = {}
  /\ record = [c \in Contracts |-> "none"]
  /\ gate = [c \in Contracts |-> "unknown"]
  /\ task = [k \in Callers |-> NoTask]
  /\ http = [r \in Requests |-> NoRequest]
  /\ phase = "down" /\ left = {} /\ queried = {}
  /\ asked = {}
  /\ crashes = 0

(* The handler registered by createWatcher, up to its first await.  The    *)
(* read of the membership is part of it: nothing before it is read by      *)
(* anyone else.                                                            *)
HandleProviderAdded(e) ==
  /\ record' = onProviderAdded(e.contract)
  /\ task' = [task EXCEPT !["watcher"] =
       IF getCurrentForPp(e.pp) = {e.contract} /\ member[e.pp][e.contract] # "ACTIVE"
       THEN [NoTask EXCEPT !.op = "query", !.pp = e.pp, !.c = e.contract]
       ELSE NoTask]
  /\ UNCHANGED gate

HandleProviderRemoved(e) ==
  /\ record' = onProviderRemoved(e.contract)
  /\ task' = [task EXCEPT !["watcher"] =
       IF e.contract \in getCurrentForPp(e.pp) /\ member[e.pp][e.contract] = "ACTIVE"
       THEN [NoTask EXCEPT !.op = "demote", !.pp = e.pp, !.c = e.contract]
       ELSE NoTask]
  /\ UNCHANGED gate

Handle(e) ==
  \/ /\ e.type \in {"channel_enabled", "channel_disabled"}
     /\ gate' = applyChannelState(e.contract, e.type = "channel_enabled")
     /\ UNCHANGED <<record, task>>
  \/ e.type = "provider_added" /\ e.pp \in registered /\ HandleProviderAdded(e)
  \/ e.type = "provider_removed" /\ e.pp \in registered /\ HandleProviderRemoved(e)
  \/ /\ \/ e.type = "contract_initialized"
        \/ e.type \in {"provider_added", "provider_removed"} /\ e.pp \notin registered
     /\ UNCHANGED <<record, gate, task>>

DispatchEvent ==
  /\ phase # "down" /\ task["watcher"] = NoTask
  /\ Dispatch
  /\ Handle(chain[NextEvent])
  /\ UNCHANGED <<dbVars, registered, http, bootVars, asked, crashes>>

(* The rest of a poll waits for the handler of the event it dispatched.    *)
Poll ==
  /\ phase # "down" /\ task["watcher"] = NoTask
  /\ PollStep
  /\ UNCHANGED councilVars

-----------------------------------------------------------------------------
(* Mutant: without the council's configuration the event is given up.      *)
QueryConfigGivesUp(k) ==
  /\ task[k].op = "query"
  /\ \/ task' = [task EXCEPT ![k].op = "seed", ![k].enabled = IsEnabled(task[k].c)]
     \/ task' = [task EXCEPT ![k] = NoTask]
  /\ UNCHANGED <<watcherVars, dbVars, registryVars, http, bootVars, asked, crashes>>

(* activateMembership: query the council, seed the registry, then write.   *)
(* Without an answer the membership is activated all the same.             *)
QueryConfig(k) ==
  /\ task[k].op = "query"
  /\ \/ task' = [task EXCEPT ![k].op = "seed", ![k].enabled = IsEnabled(task[k].c)]
     \/ k = "watcher" /\ task' = [task EXCEPT ![k].op = "promote"]
     \/ k = "boot" /\ task' = [task EXCEPT ![k] = NoTask]
  /\ UNCHANGED <<watcherVars, dbVars, registryVars, http, bootVars, asked, crashes>>

SeedRegistry(k) ==
  /\ task[k].op = "seed"
  /\ gate' = applyChannelState(task[k].c, task[k].enabled)
  /\ task' = [task EXCEPT ![k] = IF k = "boot" THEN NoTask ELSE [@ EXCEPT !.op = "promote"]]
  /\ UNCHANGED <<watcherVars, dbVars, registered, record, http, bootVars, asked, crashes>>

PromoteMembership ==
  /\ task["watcher"].op = "promote"
  /\ UpdateRow(task["watcher"].pp, task["watcher"].c, "ACTIVE")
  /\ task' = [task EXCEPT !["watcher"] = NoTask]
  /\ UNCHANGED <<watcherVars, registryVars, http, bootVars, asked, crashes>>

(* deactivateMembership, and the scan of unwatchCouncilContractIfUnused    *)
(* over the providers it has listed.                                       *)
DemoteMembership(k) ==
  /\ task[k].op = "demote"
  /\ UpdateRow(task[k].pp, task[k].c, "REJECTED")
  /\ task' = [task EXCEPT ![k].op = "scan", ![k].scan = pps]
  /\ UNCHANGED <<watcherVars, registryVars, http, bootVars, asked, crashes>>

StillReferenced(k) ==
  /\ task[k].op = "scan"
  /\ \E pp \in task[k].scan : task[k].c \in getActiveForPp(pp)
  /\ task' = [task EXCEPT ![k] = NoTask]
  /\ UNCHANGED <<watcherVars, dbVars, registryVars, http, bootVars, asked, crashes>>

NotReferencedBy(k, pp) ==
  /\ task[k].op = "scan" /\ pp \in task[k].scan
  /\ task[k].c \notin getActiveForPp(pp)
  /\ IF task[k].scan = {pp}
     THEN task' = [task EXCEPT ![k] = NoTask] /\ WithoutContract(task[k].c)
     ELSE task' = [task EXCEPT ![k].scan = @ \ {pp}] /\ UNCHANGED watchVars
  /\ UNCHANGED <<rpcVars, cursorVars, poll, dbVars, registryVars, http, bootVars, asked, crashes>>

NobodyToReference(k) ==
  /\ task[k].op = "scan" /\ task[k].scan = {}
  /\ task' = [task EXCEPT ![k] = NoTask]
  /\ WithoutContract(task[k].c)
  /\ UNCHANGED <<rpcVars, cursorVars, poll, dbVars, registryVars, http, bootVars, asked, crashes>>

MembershipHandler(k) ==
  \/ QueryConfig(k) \/ SeedRegistry(k) \/ DemoteMembership(k)
  \/ StillReferenced(k) \/ NobodyToReference(k) \/ \E pp \in Pps : NotReferencedBy(k, pp)

-----------------------------------------------------------------------------
(* startEventWatcher.  initFromDb watches the councils of current ACTIVE   *)
(* memberships; then the poll loop runs next to the two convergences.      *)
Boot ==
  /\ phase = "down"
  /\ LET cs == UNION {getCurrentForPp(pp) \cap getActiveForPp(pp) : pp \in pps}
     IN /\ contracts' = cs /\ steady' = {}
        /\ record' = [c \in Contracts |-> IF c \in cs THEN "active" ELSE "none"]
  /\ registered' = pps
  /\ phase' = "channels" /\ left' = pps /\ queried' = {}
  /\ UNCHANGED <<rpcVars, cursorVars, poll, dbVars, gate, task, http, asked, crashes>>

(* convergeChannelStatusesOnBoot: a provider's ACTIVE council is queried.  *)
ConvergeChannels(pp) ==
  /\ phase = "channels" /\ task["boot"] = NoTask /\ pp \in left
  /\ left' = left \ {pp}
  /\ \/ getActiveForPp(pp) \subseteq queried /\ UNCHANGED <<task, queried>>
     \/ \E c \in getActiveForPp(pp) \ queried :
          /\ task' = [task EXCEPT !["boot"] = [NoTask EXCEPT !.op = "query", !.pp = pp, !.c = c]]
          /\ queried' = queried \cup {c}
  /\ UNCHANGED <<watcherVars, dbVars, registryVars, http, phase, asked, crashes>>

(* Mutant: every answer but ACTIVE demotes. *)
DemotesUnlessActive(verdict) == verdict # "ACTIVE"

(* convergeMembershipStatusesOnBoot: only NOT_FOUND demotes, and only      *)
(* what is still current and ACTIVE when deactivateMembership reads it.    *)
Demotes(verdict) == verdict = "NOT_FOUND"

ConvergeMembership(pp) ==
  /\ phase = "members" /\ task["boot"] = NoTask /\ pp \in left
  /\ left' = left \ {pp}
  /\ \/ getActiveForPp(pp) = {} /\ UNCHANGED task
     \/ \E c \in getActiveForPp(pp) : \E verdict \in Verdicts(pp, c) :
          task' = [task EXCEPT !["boot"] = IF Demotes(verdict)
                     THEN [NoTask EXCEPT !.op = "recheck", !.pp = pp, !.c = c] ELSE NoTask]
  /\ UNCHANGED <<watcherVars, dbVars, registryVars, http, phase, queried, asked, crashes>>

RecheckMembership ==
  LET t == task["boot"]
  IN /\ t.op = "recheck"
     /\ task' = [task EXCEPT !["boot"] =
          IF t.c \in getCurrentForPp(t.pp) /\ member[t.pp][t.c] = "ACTIVE"
          THEN [@ EXCEPT !.op = "demote"] ELSE NoTask]
     /\ UNCHANGED <<watcherVars, dbVars, registryVars, http, bootVars, asked, crashes>>

BootPhaseDone ==
  /\ phase \in {"channels", "members"} /\ left = {} /\ task["boot"] = NoTask
  /\ phase' = IF phase = "channels" THEN "members" ELSE "up"
  /\ left' = IF phase = "channels" THEN pps ELSE {}
  /\ queried' = {}
  /\ UNCHANGED <<watcherVars, dbVars, registryVars, task, http, asked, crashes>>

(* The process ends: all it keeps in memory is lost.                       *)
Crash ==
  /\ phase # "down" /\ crashes < MaxCrashes
  /\ crashes' = crashes + 1
  /\ phase' = "down" /\ left' = {} /\ queried' = {}
  /\ contracts' = {} /\ steady' = {}
  /\ live' = 0 /\ backfill' = 0 /\ ceiling' = 0 /\ start' = 0
  /\ seen' = {} /\ walked' = {} /\ poll' = NoPoll
  /\ registered' = {}
  /\ record' = [c \in Contracts |-> "none"]
  /\ gate' = [c \in Contracts |-> "unknown"]
  /\ task' = [k \in Callers |-> NoTask]
  /\ http' = [r \in Requests |-> NoRequest]
  /\ UNCHANGED <<rpcVars, dbVars, asked>>

-----------------------------------------------------------------------------
(* Dashboard requests. *)
Serving(r) == phase = "up" /\ http[r] = NoRequest
Answer(r) == http' = [http EXCEPT ![r] = NoRequest]

(* handleRegisterPp. *)
RegisterPp(r, pp) ==
  /\ Serving(r) /\ pp \notin pps \cup gone
  /\ pps' = pps \cup {pp} /\ registered' = registered \cup {pp}
  /\ UNCHANGED <<watcherVars, gone, member, older, record, gate, task, http, bootVars,
                 asked, crashes>>

(* handleDeletePp forgets the address and lists the memberships, then      *)
(* deletes those and the provider.                                         *)
DeletePp(r, pp) ==
  /\ Serving(r) /\ pp \in pps
  /\ registered' = registered \ {pp}
  /\ http' = [http EXCEPT ![r] = [NoRequest EXCEPT !.op = "delete", !.pp = pp, !.rows = Rows(pp)]]
  /\ UNCHANGED <<watcherVars, dbVars, record, gate, task, bootVars, asked, crashes>>

DeleteRows(r) ==
  LET q == http[r]
  IN /\ q.op = "delete"
     /\ member' = [member EXCEPT ![q.pp] =
          [c \in Contracts |-> IF c \in q.rows THEN "none" ELSE @[c]]]
     /\ older' = [older EXCEPT ![q.pp] = {p \in @ : p[1] \notin q.rows /\ p[2] \notin q.rows}]
     /\ pps' = pps \ {q.pp} /\ gone' = gone \cup {q.pp}
     /\ Answer(r)
     /\ UNCHANGED <<watcherVars, registryVars, task, bootVars, asked, crashes>>

(* handleJoinCouncil: a provider without a row for this council posts a    *)
(* signed request; the row is created when the council has accepted it.    *)
JoinCouncil(r, pp, c) ==
  /\ Serving(r) /\ pp \in pps /\ member[pp][c] = "none"
  /\ http' = [http EXCEPT ![r] = [NoRequest EXCEPT !.op = "join", !.pp = pp, !.c = c]]
  /\ UNCHANGED <<watcherVars, dbVars, registryVars, task, bootVars, asked, crashes>>

CouncilAccepts(pp, c) == <<pp, c>> \notin asked /\ ~IsProvider(pp, c)

JoinAccepted(r) ==
  /\ http[r].op = "join" /\ CouncilAccepts(http[r].pp, http[r].c)
  /\ asked' = asked \cup {<<http[r].pp, http[r].c>>}
  /\ http' = [http EXCEPT ![r].op = "create"]
  /\ UNCHANGED <<watcherVars, dbVars, registryVars, task, bootVars, crashes>>

(* Refused, timed out, or accepted with the answer lost.                   *)
JoinFails(r) ==
  /\ http[r].op = "join"
  /\ \/ UNCHANGED asked
     \/ /\ CouncilAccepts(http[r].pp, http[r].c)
        /\ asked' = asked \cup {<<http[r].pp, http[r].c>>}
  /\ Answer(r)
  /\ UNCHANGED <<watcherVars, dbVars, registryVars, task, bootVars, crashes>>

JoinCreated(r) ==
  LET q == http[r]
  IN /\ q.op = "create"
     /\ Stamped(q.pp, q.c, "PENDING")
     /\ WithContract(q.c)
     /\ record' = addChannel(q.c)
     /\ registered' = registered \cup {q.pp}
     /\ Answer(r)
     /\ UNCHANGED <<rpcVars, cursorVars, poll, pps, gone, gate, task, bootVars, asked, crashes>>

(* handleSyncMembership: read the current row, ask the council, fetch the  *)
(* configuration, write the row that was read.                             *)
SyncMembership(r, pp) ==
  /\ Serving(r) /\ pp \in pps
  /\ \E c \in getCurrentForPp(pp) :
       http' = [http EXCEPT ![r] =
         [NoRequest EXCEPT !.op = "ask", !.pp = pp, !.c = c, !.status = member[pp][c]]]
  /\ UNCHANGED <<watcherVars, dbVars, registryVars, task, bootVars, asked, crashes>>

(* Mutant: 202 is taken for 200. *)
SyncOutcomeAccepts202(status, verdict) ==
  IF verdict \in {"ACTIVE", "PENDING"} /\ status # "ACTIVE" THEN "activate"
  ELSE IF \/ verdict = "REJECTED" /\ status # "REJECTED"
          \/ verdict = "NOT_FOUND" /\ status = "PENDING" THEN "reject"
  ELSE "none"

SyncOutcome(status, verdict) ==
  IF verdict = "ACTIVE" /\ status # "ACTIVE" THEN "activate"
  ELSE IF \/ verdict = "REJECTED" /\ status # "REJECTED"
          \/ verdict = "NOT_FOUND" /\ status = "PENDING" THEN "reject"
  ELSE "none"

SyncAnswered(r) ==
  /\ http[r].op = "ask"
  /\ \E verdict \in Verdicts(http[r].pp, http[r].c) :
       LET outcome == SyncOutcome(http[r].status, verdict)
       IN http' = [http EXCEPT ![r] = IF outcome = "none" THEN NoRequest
                                      ELSE [@ EXCEPT !.op = outcome]]
  /\ UNCHANGED <<watcherVars, dbVars, registryVars, task, bootVars, asked, crashes>>

SyncWrites(r) ==
  /\ http[r].op \in {"activate", "reject"}
  /\ UpdateRow(http[r].pp, http[r].c, IF http[r].op = "activate" THEN "ACTIVE" ELSE "REJECTED")
  /\ Answer(r)
  /\ UNCHANGED <<watcherVars, registryVars, task, bootVars, asked, crashes>>

RequestStep(r) ==
  \/ DeleteRows(r) \/ JoinAccepted(r) \/ JoinFails(r) \/ JoinCreated(r)
  \/ SyncAnswered(r) \/ SyncWrites(r)

-----------------------------------------------------------------------------
(* External: the council decides, and its decisions are closed in ledgers. *)
Decidable(e) ==
  CASE e.type = "provider_added"   -> ~IsProvider(e.pp, e.contract)
    [] e.type = "provider_removed" -> IsProvider(e.pp, e.contract)
    [] e.type = "channel_enabled"  -> ~IsEnabled(e.contract)
    [] e.type = "channel_disabled" -> IsEnabled(e.contract)
    [] OTHER -> e.type = "other"

CouncilDecides(e) ==
  /\ Decidable(e)
  /\ CloseLedger(e)
  /\ asked' = IF e.type = "provider_added" THEN asked \ {<<e.pp, e.contract>>} ELSE asked
  /\ UNCHANGED <<dbVars, registryVars, task, http, bootVars, crashes>>

CouncilTurnsDown(pp, c) ==
  /\ <<pp, c>> \in asked
  /\ asked' = asked \ {<<pp, c>>}
  /\ UNCHANGED <<watcherVars, dbVars, registryVars, task, http, bootVars, crashes>>

Retention == RetentionAdvances /\ UNCHANGED councilVars

Next ==
  \/ Poll \/ DispatchEvent
  \/ \E k \in Callers : MembershipHandler(k)
  \/ PromoteMembership
  \/ Boot \/ BootPhaseDone \/ RecheckMembership \/ Crash
  \/ \E pp \in Pps : ConvergeChannels(pp) \/ ConvergeMembership(pp)
  \/ \E r \in Requests : RequestStep(r)
  \/ \E r \in Requests, pp \in Pps : RegisterPp(r, pp) \/ DeletePp(r, pp) \/ SyncMembership(r, pp)
  \/ \E r \in Requests, pp \in Pps, c \in Contracts : JoinCouncil(r, pp, c)
  \/ \E e \in Events : CouncilDecides(e)
  \/ \E pp \in Pps, c \in Contracts : CouncilTurnsDown(pp, c)
  \/ Retention

Spec == CouncilInit /\ [][Next]_vars

(* Handlers that have started run on, the poll timer fires again, the RPC  *)
(* server does not fail every read, the process is restarted.  Nothing is  *)
(* assumed of operators, council and chain.                                *)
Backfills == Poll /\ (BackfillRead \/ BackfillOutOfRetention)

Fairness ==
  /\ WF_vars(Poll)
  /\ SF_vars(Backfills)
  /\ WF_vars(DispatchEvent)
  /\ WF_vars(PromoteMembership)
  /\ \A k \in Callers : WF_vars(MembershipHandler(k))
  /\ WF_vars(Boot) /\ WF_vars(BootPhaseDone) /\ WF_vars(RecheckMembership)
  /\ WF_vars(\E pp \in Pps : ConvergeChannels(pp) \/ ConvergeMembership(pp))
  /\ \A r \in Requests : WF_vars(RequestStep(r))

FairSpec == Spec /\ Fairness

-----------------------------------------------------------------------------
Statuses == {"none", "PENDING", "ACTIVE", "REJECTED"}

(* All variables have their types. *)
CouncilTypeOK ==
  /\ WatcherTypeOK
  /\ pps \subseteq Pps /\ gone \subseteq Pps /\ registered \subseteq Pps
  /\ member \in [Pps -> [Contracts -> Statuses]]
  /\ older \in [Pps -> SUBSET (Contracts \X Contracts)]
  /\ record \in [Contracts -> {"none", "active", "pending", "inactive"}]
  /\ gate \in [Contracts -> {"unknown", "active", "disabled"}]
  /\ task \in [Callers -> [op : {"none", "query", "seed", "promote", "recheck", "demote", "scan"},
                           pp : Pps \cup {NoPp}, c : Contracts \cup {NoPp},
                           enabled : BOOLEAN, scan : SUBSET Pps]]
  /\ http \in [Requests -> [op : {"none", "delete", "join", "create", "ask", "activate", "reject"},
                            pp : Pps \cup {NoPp}, c : Contracts \cup {NoPp},
                            status : Statuses, rows : SUBSET Contracts]]
  /\ phase \in {"down", "channels", "members", "up"}
  /\ left \subseteq Pps /\ queried \subseteq Contracts
  /\ asked \subseteq Pps \X Contracts
  /\ crashes \in 0..MaxCrashes

(* The withdraw-only gate closes only on the council's word: a channel is  *)
(* disabled in the registry only if the council has disabled it on chain.  *)
DisabledByCouncil ==
  \A c \in Contracts : gate[c] = "disabled" =>
    \E l \in Switches(c) : chain[l].type = "channel_disabled"

(* No membership is ACTIVE that the council never admitted, whichever of   *)
(* event, request and boot query activated it.                             *)
ActiveWasAdmitted ==
  \A pp \in Pps, c \in Contracts : member[pp][c] = "ACTIVE" =>
    \E l \in About(pp, c) : chain[l].type = "provider_added"

(* A valid membership is never knocked offline by a council that does not  *)
(* answer, nor by events and boot queries that cross: an ACTIVE membership *)
(* becomes REJECTED only if the council has removed the provider.  The one *)
(* exception is a sync that read the row before it was ACTIVE.             *)
NotKnockedOffline ==
  [][\A pp \in Pps, c \in Contracts :
       member[pp][c] = "ACTIVE" /\ member'[pp][c] = "REJECTED"
       => \/ \E l \in About(pp, c) : chain[l].type = "provider_removed"
          \/ \E r \in Requests : http[r].op = "reject" /\ http[r].status # "ACTIVE"]_vars

(* A join that the council admits goes through: between two polls, a       *)
(* watched admission of the current PENDING membership leads to a decision *)
(* on it, unless something else intervenes: the process ends, the provider *)
(* is deleted or joins elsewhere, or the event falls out of retention.     *)
Admission(pp, c, l) ==
  /\ l \in About(pp, c) /\ chain[l].type = "provider_added"
  /\ poll.pc = "idle" /\ live # 0 /\ l >= live
  /\ c \in contracts /\ pp \in registered
  /\ getCurrentForPp(pp) = {c} /\ member[pp][c] = "PENDING"
Resolved(pp, c, l) ==
  \/ member[pp][c] # "PENDING"
  \/ phase = "down" \/ pp \notin registered \/ c \notin contracts
  \/ getCurrentForPp(pp) # {c} \/ l < oldest
AdmittedJoinResolves ==
  \A pp \in Pps, c \in Contracts, l \in 1..MaxLedger : Admission(pp, c, l) ~> Resolved(pp, c, l)

=============================================================================
