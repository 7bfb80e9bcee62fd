-------------------------------- MODULE Auth --------------------------------
(***************************************************************************)
(* How a wallet proves its key to provider-platform, and what it gets:     *)
(*  - SEP-10: a challenge transaction, kept in the database and in memory, *)
(*    is posted back signed and answered with a token and a session row;   *)
(*  - dashboard: a nonce in memory, answered with a token;                 *)
(*  - entity submission (KYC): a nonce in a store of its own; the wallet   *)
(*    becomes APPROVED for one payment provider.                           *)
(*                                                                         *)
(* A step of a request runs from one await to the next.  Signatures are    *)
(* unforgeable: only the wallet asked for can answer a challenge well.     *)
(***************************************************************************)
EXTENDS Naturals, FiniteSets

CONSTANTS Clients,      \* public keys of wallets
          NoClient,
          Pps,          \* payment providers (requirePpExists lets no other through)
          NoPp,
          Hashes,       \* hashes of SEP-10 challenge transactions
          Nonces,       \* nonces of the two stores
          MaxPending,   \* MAX_PENDING_CHALLENGES, MAX_PENDING_ENTITY_CHALLENGES
          Requests      \* requests that may overlap

ASSUME AuthAssumption == NoClient \notin Clients /\ NoPp \notin Pps /\ MaxPending \in Nat

Surfaces == {"dashboard", "entity"}
EntityStatuses == {"none", "UNVERIFIED", "APPROVED", "BLOCKED"}

VARIABLES
  accounts,    \* account rows (each with its entity)
  challenge,   \* challenge rows by transaction hash
  memory,      \* InMemorySessionManager
  answered,    \* challenges that reached their wallet, which signs them
  sessions,    \* session rows by transaction hash: the account
  tokens,      \* history: tokens answered for each challenge
  pending,     \* the nonce stores: for whom, and whether the TTL has passed
  used,        \* nonces that were drawn; they are random and never drawn again
  users,       \* wallet_users
  approval,    \* pp_entity_approvals
  accepted,    \* history: how often a nonce was taken for a proof
  proved,      \* history: who signed an entity nonce of theirs, for which provider
  req          \* requests in progress

sep10Vars == <<challenge, memory, answered, sessions, tokens>>
nonceVars == <<pending, used, accepted, proved>>
vars == <<accounts, sep10Vars, nonceVars, users, approval, req>>

Absent == [client |-> NoClient, status |-> "none", expired |-> FALSE]
Idle == [op |-> "idle", client |-> NoClient, key |-> NoClient, pp |-> NoPp, status |-> "none"]

Answer(r) == req' = [req EXCEPT ![r] = Idle]
GoOn(r, op) == req' = [req EXCEPT ![r].op = op]

-----------------------------------------------------------------------------
Init ==
  /\ accounts = {}
  /\ challenge = [h \in Hashes |-> Absent] /\ memory = [h \in Hashes |-> Absent]
  /\ answered = {}
  /\ sessions = [h \in Hashes |-> NoClient] /\ tokens = [h \in Hashes |-> 0]
  /\ pending = [s \in Surfaces |-> [n \in Nonces |-> Absent]]
  /\ used = [s \in Surfaces |-> {}]
  /\ users = {}
  /\ approval = [pp \in Pps |-> [c \in Clients |-> "none"]]
  /\ accepted = [s \in Surfaces |-> [n \in Nonces |-> 0]]
  /\ proved = {}
  /\ req = [r \in Requests |-> Idle]

(* An await fails: the request is answered with an error.                  *)
RequestFails(r) ==
  /\ req[r] # Idle
  /\ Answer(r)
  /\ UNCHANGED <<accounts, sep10Vars, nonceVars, users, approval>>

-----------------------------------------------------------------------------
(* GET /stellar/auth: P_CreateChallenge and P_CreateChallengeDB up to the  *)
(* lookup of the account, the account if there was none, the challenge row *)
(* and the session in memory.                                              *)
CreateChallenge(r, c, h) ==
  /\ req[r] = Idle
  /\ challenge[h] = Absent /\ \A q \in Requests : req[q].key # h
  /\ req' = [req EXCEPT ![r] = [Idle EXCEPT !.client = c, !.key = h,
               !.op = IF c \in accounts THEN "row" ELSE "account"]]
  /\ UNCHANGED <<accounts, sep10Vars, nonceVars, users, approval>>

(* The INSERT of an account that was created in the meantime fails.        *)
CreateAccount(r) ==
  /\ req[r].op \in {"account", "identity"}
  /\ IF req[r].client \in accounts THEN Answer(r)
     ELSE GoOn(r, IF req[r].op = "account" THEN "row" ELSE "approval")
  /\ accounts' = accounts \cup {req[r].client}
  /\ UNCHANGED <<sep10Vars, nonceVars, users, approval>>

CreateChallengeDB(r) ==
  /\ req[r].op = "row"
  /\ challenge' = [challenge EXCEPT ![req[r].key] =
       [client |-> req[r].client, status |-> "UNVERIFIED", expired |-> FALSE]]
  /\ GoOn(r, "memory")
  /\ UNCHANGED <<accounts, memory, answered, sessions, tokens, nonceVars, users, approval>>

addSession(h, c) ==
  [memory EXCEPT ![h] = [client |-> c, status |-> "PENDING", expired |-> FALSE]]

(* The session is kept in memory, and the wallet gets the challenge.       *)
CreateChallengeMemory(r) ==
  LET h == req[r].key
  IN /\ req[r].op = "memory"
     /\ memory' = addSession(h, req[r].client)
     /\ answered' = answered \cup {h}
     /\ Answer(r)
     /\ UNCHANGED <<accounts, challenge, sessions, tokens, nonceVars, users, approval>>

-----------------------------------------------------------------------------
(* POST /stellar/auth with a signed challenge, for a provider.  The same   *)
(* signed challenge may be posted again, and at the same time.             *)

(* P_VerifyChallenge: the time bounds and both signatures hold.            *)
WellSigned(h) == h \in answered /\ ~challenge[h].expired

(* P_CompareChallenge: there is a row for the hash, and it is the same     *)
(* transaction.  The status of the row is not looked at.                   *)
Stored(h) == challenge[h] # Absent

VerifyChallenge(r, h, pp) ==
  /\ req[r] = Idle
  /\ WellSigned(h) /\ Stored(h)
  /\ req' = [req EXCEPT ![r] =
       [Idle EXCEPT !.op = "session", !.client = challenge[h].client, !.key = h, !.pp = pp]]
  /\ UNCHANGED <<accounts, sep10Vars, nonceVars, users, approval>>

(* The session in memory becomes ACTIVE; one that has expired is dropped.  *)
updateSession(h) ==
  [memory EXCEPT ![h] = IF @ = Absent \/ @.expired THEN Absent ELSE [@ EXCEPT !.status = "ACTIVE"]]

(* Mutant: the session row has an id of its own. *)
UpdateChallengeSessionFreshId(r) ==
  LET h == req[r].key
  IN /\ req[r].op = "session"
     /\ memory' = updateSession(h)
     /\ sessions' = [sessions EXCEPT ![h] = req[r].client]
     /\ GoOn(r, "verified")
     /\ UNCHANGED <<accounts, challenge, answered, tokens, nonceVars, users, approval>>

(* P_UpdateChallengeSession: after the session in memory the session row,  *)
(* whose primary key is the hash, so that its INSERT fails for a challenge *)
(* that was answered before.                                               *)
UpdateChallengeSession(r) ==
  LET h == req[r].key
  IN /\ req[r].op = "session"
     /\ memory' = updateSession(h)
     /\ IF sessions[h] # NoClient
        THEN Answer(r) /\ UNCHANGED sessions
        ELSE GoOn(r, "verified") /\ sessions' = [sessions EXCEPT ![h] = req[r].client]
     /\ UNCHANGED <<accounts, challenge, answered, tokens, nonceVars, users, approval>>

UpdateChallengeDB(r) ==
  /\ req[r].op = "verified"
  /\ challenge' = [challenge EXCEPT ![req[r].key].status = "VERIFIED"]
  /\ GoOn(r, "status")
  /\ UNCHANGED <<accounts, memory, answered, sessions, tokens, nonceVars, users, approval>>

(* P_AttachEntityStatus reads the approval, records the interaction of a   *)
(* wallet that is not approved, and the token is answered.                 *)
AttachEntityStatus(r) ==
  /\ req[r].op = "status"
  /\ req' = [req EXCEPT ![r].op = "token", ![r].status = approval[req[r].pp][req[r].client]]
  /\ UNCHANGED <<accounts, sep10Vars, nonceVars, users, approval>>

(* Mutant: the upsert overwrites the status. *)
recordInteractionOverwrites(pp, c) == [approval EXCEPT ![pp][c] = "UNVERIFIED"]

recordInteraction(pp, c) ==
  [approval EXCEPT ![pp][c] = IF @ = "none" THEN "UNVERIFIED" ELSE @]

(* A failing write does not break the answer.                              *)
AnswerToken(r) ==
  /\ req[r].op = "token"
  /\ approval' \in IF req[r].status \in {"none", "UNVERIFIED"}
                   THEN {approval, recordInteraction(req[r].pp, req[r].client)} ELSE {approval}
  /\ tokens' = [tokens EXCEPT ![req[r].key] = @ + 1]
  /\ Answer(r)
  /\ UNCHANGED <<accounts, challenge, memory, answered, sessions, nonceVars, users>>

(* The gate of the bundle endpoint reads the session row of the token and  *)
(* the approval of its account; one that is not APPROVED is recorded.      *)
BundleGate(r, h, pp) ==
  /\ req[r] = Idle
  /\ tokens[h] > 0 /\ sessions[h] # NoClient
  /\ approval[pp][sessions[h]] # "APPROVED"
  /\ req' = [req EXCEPT ![r] = [Idle EXCEPT !.op = "refuse", !.client = sessions[h], !.pp = pp]]
  /\ UNCHANGED <<accounts, sep10Vars, nonceVars, users, approval>>

BundleRefused(r) ==
  /\ req[r].op = "refuse"
  /\ approval' = recordInteraction(req[r].pp, req[r].client)
  /\ Answer(r)
  /\ UNCHANGED <<accounts, sep10Vars, nonceVars, users>>

-----------------------------------------------------------------------------
(* The nonce stores of dashboard-auth and entity-auth.                     *)

(* Mutant: nobody removes what has expired. *)
CleanedNothing(s) == pending[s]

(* cleanupExpiredChallenges and cleanupExpired. *)
Cleaned(s) == [n \in Nonces |-> IF pending[s][n].expired THEN Absent ELSE pending[s][n]]

(* Mutant: the store has no limit. *)
HasRoomAlways(store) == TRUE

HasRoom(store) == Cardinality({n \in Nonces : store[n] # Absent}) < MaxPending

(* A nonce is random: which of the fresh ones is drawn makes no difference. *)
Fresh(s) == CHOOSE n \in Nonces : n \notin used[s]

CreateNonce(s, c) ==
  /\ used[s] # Nonces
  /\ IF HasRoom(Cleaned(s))
     THEN /\ pending' = [pending EXCEPT ![s] = [Cleaned(s) EXCEPT ![Fresh(s)] =
                           [client |-> c, status |-> "PENDING", expired |-> FALSE]]]
          /\ used' = [used EXCEPT ![s] = @ \cup {Fresh(s)}]
     ELSE pending' = [pending EXCEPT ![s] = Cleaned(s)] /\ UNCHANGED used
  /\ UNCHANGED <<accounts, sep10Vars, accepted, proved, users, approval, req>>

(* Mutant: the nonce is consumed after the signature was checked. *)
VerifyNonceConsumeLater(r, s, c, n, good, pp) ==
  /\ req[r] = Idle
  /\ pending[s][n].client = c /\ ~pending[s][n].expired
  /\ req' = [req EXCEPT ![r] =
       [Idle EXCEPT !.op = s, !.client = c, !.key = n, !.pp = pp,
                    !.status = IF good THEN "good" ELSE "bad"]]
  /\ UNCHANGED <<accounts, sep10Vars, pending, used, accepted, proved, users, approval>>

(* The checks of the nonce, and its consumption, before the first await.   *)
(* The signature may turn out bad; the nonce is consumed all the same.     *)
VerifyNonce(r, s, c, n, good, pp) ==
  /\ req[r] = Idle
  /\ pending[s][n].client = c /\ ~pending[s][n].expired
  /\ pending' = [pending EXCEPT ![s][n] = Absent]
  /\ req' = [req EXCEPT ![r] =
       [Idle EXCEPT !.op = s, !.client = c, !.key = n, !.pp = pp,
                    !.status = IF good THEN "good" ELSE "bad"]]
  /\ UNCHANGED <<accounts, sep10Vars, used, accepted, proved, users, approval>>

VerifyExpiredNonce(s, n) ==
  /\ pending[s][n].expired
  /\ pending' = [pending EXCEPT ![s][n] = Absent]
  /\ UNCHANGED <<accounts, sep10Vars, used, accepted, proved, users, approval, req>>

BadSignature(r) ==
  /\ req[r].op \in Surfaces /\ req[r].status = "bad"
  /\ Answer(r)
  /\ UNCHANGED <<accounts, sep10Vars, nonceVars, users, approval>>

(* Mutant: what the signature check returned is not looked at. *)
AcceptAnySignature(r, s) ==
  /\ req[r].op = s
  /\ pending' = [pending EXCEPT ![s][req[r].key] = Absent]
  /\ accepted' = [accepted EXCEPT ![s][req[r].key] = @ + 1]
  /\ UNCHANGED <<sep10Vars, used, approval>>

Accept(r, s) ==
  /\ req[r].op = s /\ req[r].status = "good"
  /\ pending' = [pending EXCEPT ![s][req[r].key] = Absent]
  /\ accepted' = [accepted EXCEPT ![s][req[r].key] = @ + 1]
  /\ UNCHANGED <<sep10Vars, used, approval>>

(* POST /dashboard/auth/verify: a token and, the first time, a user row.   *)
DashboardVerified(r) ==
  /\ Accept(r, "dashboard")
  /\ users' = users \cup {req[r].client}
  /\ Answer(r)
  /\ UNCHANGED <<accounts, proved>>

-----------------------------------------------------------------------------
(* POST /providers/:ppPublicKey/entities after the signature: the account  *)
(* is looked up, created or updated, then the approval.                    *)
EntityVerified(r) ==
  /\ Accept(r, "entity")
  /\ proved' = proved \cup {<<req[r].pp, req[r].client>> : x \in {"good"} \cap {req[r].status}}
  /\ req' = [req EXCEPT ![r].op = IF req[r].client \in accounts THEN "approval" ELSE "identity",
                        ![r].status = "none"]
  /\ UNCHANGED <<accounts, users>>

ReadApproval(r) ==
  /\ req[r].op = "approval"
  /\ LET status == approval[req[r].pp][req[r].client]
     IN req' = [req EXCEPT ![r] = IF status = "APPROVED" THEN Idle
                                  ELSE [@ EXCEPT !.op = "approve", !.status = status]]
  /\ UNCHANGED <<accounts, sep10Vars, nonceVars, users, approval>>

(* The row that was read is promoted whatever has become of it; without    *)
(* one a row is created, which fails if there is one by now.               *)
Approve(r) ==
  LET pp == req[r].pp
      c == req[r].client
  IN /\ req[r].op = "approve"
     /\ approval' = IF req[r].status = "none" /\ approval[pp][c] # "none" THEN approval
                    ELSE [approval EXCEPT ![pp][c] = "APPROVED"]
     /\ Answer(r)
     /\ UNCHANGED <<accounts, sep10Vars, nonceVars, users>>

(* External: an operator blocks an entity in the database.                 *)
Block(pp, c) ==
  /\ approval[pp][c] = "APPROVED"
  /\ approval' = [approval EXCEPT ![pp][c] = "BLOCKED"]
  /\ UNCHANGED <<accounts, sep10Vars, nonceVars, users, req>>

-----------------------------------------------------------------------------
(* Time passes a TTL; and a restart empties what is kept in memory.        *)
ChallengeExpires(h) ==
  /\ challenge[h] # Absent /\ ~challenge[h].expired
  /\ challenge' = [challenge EXCEPT ![h].expired = TRUE]
  /\ memory' = [memory EXCEPT ![h] = IF @.status = "PENDING" THEN [@ EXCEPT !.expired = TRUE] ELSE @]
  /\ UNCHANGED <<accounts, answered, sessions, tokens, nonceVars, users, approval, req>>

(* cleanupExpired, on a timer.                                             *)
CleanupSessions ==
  /\ \E h \in Hashes : memory[h].expired
  /\ memory' = [h \in Hashes |-> IF memory[h].expired THEN Absent ELSE memory[h]]
  /\ UNCHANGED <<accounts, challenge, answered, sessions, tokens, nonceVars, users, approval, req>>

(* The session of a verified challenge outlives it by SESSION_TTL.        *)
SessionExpires(h) ==
  /\ memory[h].status = "ACTIVE" /\ ~memory[h].expired
  /\ memory' = [memory EXCEPT ![h].expired = TRUE]
  /\ UNCHANGED <<accounts, challenge, answered, sessions, tokens, nonceVars, users, approval, req>>

NonceExpires(s, n) ==
  /\ pending[s][n] # Absent /\ ~pending[s][n].expired
  /\ pending' = [pending EXCEPT ![s][n].expired = TRUE]
  /\ UNCHANGED <<accounts, sep10Vars, used, accepted, proved, users, approval, req>>

Restart ==
  /\ memory' = [h \in Hashes |-> Absent]
  /\ pending' = [s \in Surfaces |-> [n \in Nonces |-> Absent]]
  /\ req' = [r \in Requests |-> Idle]
  /\ UNCHANGED <<accounts, challenge, answered, sessions, tokens, used, accepted, proved, users, approval>>

-----------------------------------------------------------------------------
SEP10 ==
  \E r \in Requests :
    \/ \E c \in Clients, h \in Hashes : CreateChallenge(r, c, h)
    \/ CreateAccount(r) \/ CreateChallengeDB(r) \/ CreateChallengeMemory(r)
    \/ \E h \in Hashes, pp \in Pps : VerifyChallenge(r, h, pp) \/ BundleGate(r, h, pp)
    \/ UpdateChallengeSession(r) \/ UpdateChallengeDB(r)
    \/ AttachEntityStatus(r) \/ AnswerToken(r) \/ BundleRefused(r)

NonceProof ==
  \/ \E s \in Surfaces, c \in Clients : CreateNonce(s, c)
  \/ \E s \in Surfaces, n \in Nonces : VerifyExpiredNonce(s, n)
  \/ \E r \in Requests :
       \/ \E s \in Surfaces, c \in Clients, n \in Nonces, good \in BOOLEAN, pp \in Pps :
            VerifyNonce(r, s, c, n, good, pp)
       \/ BadSignature(r) \/ DashboardVerified(r)
       \/ EntityVerified(r) \/ ReadApproval(r) \/ Approve(r)

Environment ==
  \/ \E r \in Requests : RequestFails(r)
  \/ \E pp \in Pps, c \in Clients : Block(pp, c)
  \/ \E h \in Hashes : ChallengeExpires(h) \/ SessionExpires(h)
  \/ \E s \in Surfaces, n \in Nonces : NonceExpires(s, n)
  \/ CleanupSessions \/ Restart

Next == SEP10 \/ NonceProof \/ Environment

Spec == Init /\ [][Next]_vars

(* Time passes: every nonce that is left alone expires.                    *)
FairSpec == Spec /\ \A s \in Surfaces, n \in Nonces : WF_vars(NonceExpires(s, n))

-----------------------------------------------------------------------------
StoredTypeOK(f, keys, statuses) ==
  f \in [keys -> [client : Clients \cup {NoClient}, status : statuses, expired : BOOLEAN]]

(* Every variable keeps its type, and neither nonce store ever holds more  *)
(* than its limit (dashboard-auth.ts:47, entity-auth.ts:38).               *)
AuthTypeOK ==
  /\ accounts \subseteq Clients /\ users \subseteq Clients /\ answered \subseteq Hashes
  /\ StoredTypeOK(challenge, Hashes, {"none", "UNVERIFIED", "VERIFIED"})
  /\ StoredTypeOK(memory, Hashes, {"none", "PENDING", "ACTIVE"})
  /\ sessions \in [Hashes -> Clients \cup {NoClient}]
  /\ tokens \in [Hashes -> Nat]
  /\ \A s \in Surfaces :
       /\ StoredTypeOK(pending[s], Nonces, {"none", "PENDING"})
       /\ Cardinality({n \in Nonces : pending[s][n] # Absent}) <= MaxPending
       /\ used[s] \subseteq Nonces /\ accepted[s] \in [Nonces -> Nat]
  /\ approval \in [Pps -> [Clients -> EntityStatuses]]
  /\ proved \subseteq Pps \X Clients
  /\ req \in [Requests -> [op : {"idle", "account", "row", "memory", "session", "verified",
                                 "status", "token", "refuse", "identity", "approval",
                                 "approve"} \cup Surfaces,
                           client : Clients \cup {NoClient},
                           key : Hashes \cup Nonces \cup {NoClient},
                           pp : Pps \cup {NoPp},
                           status : EntityStatuses \cup {"good", "bad"}]]

(* However often, and however concurrently, a signed challenge is posted,  *)
(* it is answered with one token at most (compare-challenge.ts looks up    *)
(* the row without its status, so only the key of the session row stands   *)
(* in the way), and a token's challenge is verified and has the session    *)
(* row, of the wallet that signed, that the bundle endpoint looks up.      *)
TokenIssuedOnce ==
  \A h \in Hashes : tokens[h] > 0 =>
    /\ tokens[h] = 1
    /\ challenge[h].status = "VERIFIED" /\ sessions[h] = challenge[h].client

(* A nonce is accepted at most once, by requests that race too: it is      *)
(* consumed before the signature is awaited (dashboard-auth.ts:114,        *)
(* entity-auth.ts:78).                                                     *)
NonceAcceptedOnce ==
  \A s \in Surfaces, n \in Nonces :
    /\ accepted[s][n] <= 1
    /\ pending[s][n] # Absent => accepted[s][n] = 0

(* A wallet is APPROVED (or was, and is blocked) for a provider only if it *)
(* signed a nonce of its own in a submission to that provider: "A wallet   *)
(* APPROVED on PP-A must not appear APPROVED on PP-B".                     *)
ApprovedProved ==
  \A pp \in Pps, c \in Clients :
    approval[pp][c] \in {"APPROVED", "BLOCKED"} => <<pp, c>> \in proved

(* The "locked write-invariant" of pp-entity-approval.repository.ts:54:    *)
(* recording an interaction never downgrades a row, also when the row was  *)
(* read UNVERIFIED and approved or blocked since.                          *)
NeverDowngraded ==
  [][\A pp \in Pps, c \in Clients :
       /\ approval[pp][c] # "none" => approval'[pp][c] # "none"
       /\ approval'[pp][c] = "UNVERIFIED" => approval[pp][c] \in {"none", "UNVERIFIED"}]_vars

(* A full nonce store does not stay full: once the TTL of what is pending  *)
(* has passed, the next challenge asked for finds room.                    *)
StoreRecovers == \A s \in Surfaces : []<>HasRoom(Cleaned(s))
=============================================================================
