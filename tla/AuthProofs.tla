----------------------------- MODULE AuthProofs -----------------------------
(***************************************************************************)
(* Proofs about the wallet proofs of module Auth, for any number of        *)
(* wallets, providers, challenges, nonces and overlapping requests.        *)
(***************************************************************************)
EXTENDS Auth, FiniteSetTheorems, TLAPS

RowType(statuses) ==
  [client : Clients \cup {NoClient}, status : statuses, expired : BOOLEAN]

Ops == {"idle", "account", "row", "memory", "session", "verified", "status", "token",
        "refuse", "identity", "approval", "approve"} \cup Surfaces

RequestRecord ==
  [op : Ops, client : Clients \cup {NoClient}, key : Hashes \cup Nonces \cup {NoClient},
   pp : Pps \cup {NoPp}, status : EntityStatuses \cup {"good", "bad"}]

(* The variables as functions, the tables of SEP-10 and of the nonces.     *)
Sep10Types ==
  /\ accounts \subseteq Clients /\ users \subseteq Clients /\ answered \subseteq Hashes
  /\ challenge \in [Hashes -> RowType({"none", "UNVERIFIED", "VERIFIED"})]
  /\ memory \in [Hashes -> RowType({"none", "PENDING", "ACTIVE"})]
  /\ sessions \in [Hashes -> Clients \cup {NoClient}]
  /\ tokens \in [Hashes -> Nat]

NonceTypes ==
  /\ pending \in [Surfaces -> [Nonces -> RowType({"none", "PENDING"})]]
  /\ used \in [Surfaces -> SUBSET Nonces]
  /\ accepted \in [Surfaces -> [Nonces -> Nat]]

ApprovalTypes ==
  /\ approval \in [Pps -> [Clients -> EntityStatuses]]
  /\ proved \subseteq Pps \X Clients

(* A request that is past its first step has what the next one needs.      *)
RequestTypes ==
  /\ req \in [Requests -> RequestRecord]
  /\ \A r \in Requests :
       /\ req[r].op # "idle" => req[r].client \in Clients
       /\ req[r].op \in {"account", "row", "memory", "session", "verified", "status", "token"}
            => req[r].key \in Hashes
       /\ req[r].op \in Surfaces => req[r].key \in Nonces
       /\ req[r].op \notin {"idle", "account", "row", "memory"} => req[r].pp \in Pps

(* The nonce stores keep to their limit.                                   *)
Held(s) == {n \in Nonces : pending[s][n] # Absent}
StoresBounded ==
  \A s \in Surfaces : IsFiniteSet(Held(s)) /\ Cardinality(Held(s)) <= MaxPending

(* A challenge has one life: until its row is written one request has its  *)
(* hash; from then on the row, the session row and the requests that       *)
(* verify it agree on the wallet; one of them at most has made the session *)
(* row, and the token is answered by that one.                             *)
Creating(r) == req[r].op \in {"account", "row"}
Verifying(r) == req[r].op \in {"session", "verified", "status", "token"}
Winning(r) == req[r].op \in {"verified", "status", "token"}

RowsSound ==
  \A h \in Hashes :
    /\ challenge[h] # Absent => challenge[h].client \in Clients
    /\ sessions[h] # NoClient => challenge[h] # Absent /\ sessions[h] = challenge[h].client
    /\ tokens[h] > 0 => /\ tokens[h] = 1 /\ sessions[h] # NoClient
                        /\ challenge[h].status = "VERIFIED"

ChallengesSound ==
  \A r \in Requests :
    /\ Creating(r) => challenge[req[r].key] = Absent
    /\ Verifying(r) => /\ challenge[req[r].key] # Absent
                       /\ req[r].client = challenge[req[r].key].client
    /\ Winning(r) => sessions[req[r].key] # NoClient /\ tokens[req[r].key] = 0
    /\ req[r].op \in {"status", "token"} => challenge[req[r].key].status = "VERIFIED"

OneEach ==
  \A r, q \in Requests : r # q /\ req[r].key = req[q].key =>
    /\ ~(Creating(r) /\ Creating(q))
    /\ ~(Winning(r) /\ Winning(q))

(* A nonce is in the store, or with one request, or was used up.           *)
NoncesSound ==
  /\ \A s \in Surfaces, n \in Nonces :
       /\ accepted[s][n] <= 1
       /\ pending[s][n] # Absent => accepted[s][n] = 0 /\ n \in used[s]
       /\ accepted[s][n] > 0 => n \in used[s]
  /\ \A r \in Requests : req[r].op \in Surfaces =>
       /\ accepted[req[r].op][req[r].key] = 0
       /\ pending[req[r].op][req[r].key] = Absent
       /\ req[r].key \in used[req[r].op]
  /\ \A r, q \in Requests :
       r # q /\ req[r].op \in Surfaces /\ req[q].op = req[r].op => req[q].key # req[r].key

(* Who is about to be approved has proved its key to that provider.        *)
ApprovalsSound ==
  /\ ApprovedProved
  /\ \A r \in Requests : req[r].op \in {"identity", "approval", "approve"} =>
       <<req[r].pp, req[r].client>> \in proved

AuthTypes == Sep10Types /\ NonceTypes /\ ApprovalTypes /\ RequestTypes
AuthInv ==
  /\ AuthTypes /\ StoresBounded
  /\ RowsSound /\ ChallengesSound /\ OneEach
  /\ NoncesSound /\ ApprovalsSound

-----------------------------------------------------------------------------
(* What a step leaves alone.                                               *)
LEMMA Untouched ==
  /\ Sep10Types /\ UNCHANGED <<accounts, users, sep10Vars>> => Sep10Types'
  /\ NonceTypes /\ UNCHANGED <<pending, used, accepted>> => NonceTypes'
  /\ ApprovalTypes /\ UNCHANGED <<approval, proved>> => ApprovalTypes'
  /\ RequestTypes /\ UNCHANGED req => RequestTypes'
  /\ StoresBounded /\ UNCHANGED pending => StoresBounded'
  /\ RowsSound /\ UNCHANGED <<challenge, sessions, tokens>> => RowsSound'
  /\ ChallengesSound /\ UNCHANGED <<challenge, sessions, tokens, req>> => ChallengesSound'
  /\ OneEach /\ UNCHANGED req => OneEach'
  /\ NoncesSound /\ UNCHANGED <<pending, used, accepted, req>> => NoncesSound'
  /\ ApprovalsSound /\ UNCHANGED <<approval, proved, req>> => ApprovalsSound'
<1>1. Sep10Types /\ UNCHANGED <<accounts, users, sep10Vars>> => Sep10Types'
  BY DEF Sep10Types, sep10Vars
<1>2. NonceTypes /\ UNCHANGED <<pending, used, accepted>> => NonceTypes'
  BY DEF NonceTypes
<1>3. ApprovalTypes /\ UNCHANGED <<approval, proved>> => ApprovalTypes'
  BY DEF ApprovalTypes
<1>4. RequestTypes /\ UNCHANGED req => RequestTypes'
  BY DEF RequestTypes
<1>5. StoresBounded /\ UNCHANGED pending => StoresBounded'
  BY DEF StoresBounded, Held
<1>6. RowsSound /\ UNCHANGED <<challenge, sessions, tokens>> => RowsSound'
  BY DEF RowsSound
<1>7. ChallengesSound /\ UNCHANGED <<challenge, sessions, tokens, req>> => ChallengesSound'
  BY DEF ChallengesSound, Creating, Verifying, Winning
<1>8. OneEach /\ UNCHANGED req => OneEach'
  BY DEF OneEach, Creating, Winning
<1>9. NoncesSound /\ UNCHANGED <<pending, used, accepted, req>> => NoncesSound'
  BY DEF NoncesSound
<1>10. ApprovalsSound /\ UNCHANGED <<approval, proved, req>> => ApprovalsSound'
  BY DEF ApprovalsSound, ApprovedProved
<1> QED BY <1>1, <1>2, <1>3, <1>4, <1>5, <1>6, <1>7, <1>8, <1>9, <1>10

(* A request moves; the others stay as they are.                           *)
LEMMA Moves ==
  ASSUME RequestTypes, NEW r \in Requests, NEW v, req' = [req EXCEPT ![r] = v]
  PROVE  req'[r] = v /\ \A q \in Requests : q # r => req'[q] = req[q]
BY DEF RequestTypes

LEMMA MovesType ==
  ASSUME RequestTypes, NEW r \in Requests, NEW v \in RequestRecord, req' = [req EXCEPT ![r] = v],
         /\ v.op # "idle" => v.client \in Clients
         /\ v.op \in {"account", "row", "memory", "session", "verified", "status", "token"}
              => v.key \in Hashes
         /\ v.op \in Surfaces => v.key \in Nonces
         /\ v.op \notin {"idle", "account", "row", "memory"} => v.pp \in Pps
  PROVE  RequestTypes'
BY DEF RequestTypes

LEMMA IdleRequest == Idle \in RequestRecord /\ Idle.op = "idle"
BY DEF Idle, RequestRecord, Ops, EntityStatuses, Surfaces

LEMMA InitInv == Init => AuthInv
<1> SUFFICES ASSUME Init PROVE AuthInv
  OBVIOUS
<1>1. Absent.client = NoClient /\ Absent \in RowType({"none", "UNVERIFIED", "VERIFIED"})
      /\ Absent \in RowType({"none", "PENDING", "ACTIVE"}) /\ Absent \in RowType({"none", "PENDING"})
  BY DEF Absent, RowType
<1>2. Sep10Types
  BY <1>1 DEF Init, Sep10Types
<1>3. NonceTypes
  BY <1>1 DEF Init, NonceTypes
<1>4. ApprovalTypes
  BY DEF Init, ApprovalTypes, EntityStatuses
<1>5. RequestTypes
  BY IdleRequest DEF Init, RequestTypes, Surfaces
<1>6. StoresBounded
  <2>1. ASSUME NEW s \in Surfaces PROVE Held(s) = {}
    BY DEF Init, Held
  <2> QED BY <2>1, FS_EmptySet, AuthAssumption DEF StoresBounded
<1>7. RowsSound
  BY DEF Init, RowsSound
<1>8. ChallengesSound /\ OneEach
  BY IdleRequest DEF Init, ChallengesSound, OneEach, Creating, Verifying, Winning
<1>9. NoncesSound
  BY IdleRequest DEF Init, NoncesSound, Surfaces
<1>10. ApprovalsSound
  BY IdleRequest DEF Init, ApprovalsSound, ApprovedProved
<1> QED BY <1>2, <1>3, <1>4, <1>5, <1>6, <1>7, <1>8, <1>9, <1>10 DEF AuthInv, AuthTypes

(* A request that goes idle holds nothing any more.                        *)
LEMMA IdleKeeps ==
  ASSUME AuthInv, NEW r \in Requests, Answer(r)
  PROVE  /\ RequestTypes' /\ OneEach'
         /\ UNCHANGED <<challenge, sessions, tokens>> => ChallengesSound'
         /\ UNCHANGED <<pending, used, accepted>> => NoncesSound'
         /\ UNCHANGED <<approval, proved>> => ApprovalsSound'
<1> USE IdleRequest, Moves DEF Answer, AuthInv, AuthTypes
<1>1. RequestTypes'
  BY MovesType DEF Surfaces
<1>2. req'[r] = Idle /\ \A q \in Requests : q # r => req'[q] = req[q]
  OBVIOUS
<1>3. OneEach'
  BY <1>2 DEF OneEach, Creating, Winning
<1>4. UNCHANGED <<challenge, sessions, tokens>> => ChallengesSound'
  BY <1>2 DEF ChallengesSound, Creating, Verifying, Winning
<1>5. UNCHANGED <<pending, used, accepted>> => NoncesSound'
  BY <1>2 DEF NoncesSound, Surfaces
<1>6. UNCHANGED <<approval, proved>> => ApprovalsSound'
  BY <1>2 DEF ApprovalsSound, ApprovedProved
<1> QED BY <1>1, <1>3, <1>4, <1>5, <1>6

(* Recording an interaction adds a row and changes none.                   *)
LEMMA RecordChanges ==
  ASSUME ApprovalTypes, NEW pp \in Pps, NEW c \in Clients, approval' = recordInteraction(pp, c)
  PROVE  \A p \in Pps, d \in Clients :
           approval'[p][d] = approval[p][d]
           \/ (approval[p][d] = "none" /\ approval'[p][d] = "UNVERIFIED")
<1> DEFINE new == IF approval[pp][c] = "none" THEN "UNVERIFIED" ELSE approval[pp][c]
<1>1. approval' = [approval EXCEPT ![pp] = [approval[pp] EXCEPT ![c] = new]]
  BY DEF ApprovalTypes, recordInteraction
<1>2. new = approval[pp][c] \/ (approval[pp][c] = "none" /\ new = "UNVERIFIED")
  <2>1. CASE approval[pp][c] = "none"
    BY <2>1
  <2>2. CASE approval[pp][c] # "none"
    BY <2>2
  <2> QED BY <2>1, <2>2
<1> HIDE DEF new
<1>3. /\ approval'[pp] = [approval[pp] EXCEPT ![c] = new]
      /\ \A p \in Pps : p # pp => approval'[p] = approval[p]
  BY <1>1 DEF ApprovalTypes
<1>4. approval'[pp][c] = new /\ \A d \in Clients : d # c => approval'[pp][d] = approval[pp][d]
  BY <1>3 DEF ApprovalTypes
<1>5. ASSUME NEW p \in Pps, NEW d \in Clients
      PROVE  approval'[p][d] = approval[p][d]
             \/ (approval[p][d] = "none" /\ approval'[p][d] = "UNVERIFIED")
  <2>1. CASE p # pp
    BY <1>3, <2>1
  <2>2. CASE p = pp /\ d # c
    BY <1>4, <2>2
  <2>3. CASE p = pp /\ d = c
    BY <1>2, <1>4, <2>3
  <2> QED BY <2>1, <2>2, <2>3
<1> QED BY <1>5

LEMMA RecordKeeps ==
  ASSUME ApprovalTypes, ApprovedProved, NEW pp \in Pps, NEW c \in Clients,
         approval' = recordInteraction(pp, c), UNCHANGED proved
  PROVE  ApprovalTypes' /\ ApprovedProved'
<1>1. ApprovalTypes'
  BY DEF ApprovalTypes, recordInteraction, EntityStatuses
<1> QED BY <1>1, RecordChanges DEF ApprovedProved

(* A request that goes idle asks no proof of anybody.                      *)
LEMMA IdleApprovals ==
  ASSUME AuthInv, NEW r \in Requests, Answer(r), ApprovedProved', proved \subseteq proved'
  PROVE  ApprovalsSound'
<1>1. req'[r] = Idle /\ \A q \in Requests : q # r => req'[q] = req[q]
  BY Moves DEF Answer, AuthInv, AuthTypes
<1> QED BY <1>1, IdleRequest DEF ApprovalsSound, AuthInv

LEMMA Sep10Keeps ==
  ASSUME AuthInv, SEP10
  PROVE  AuthInv'
<1> USE Untouched DEF AuthInv, AuthTypes
<1>1. PICK r \in Requests :
        \/ \E c \in Clients, h \in Hashes : CreateChallenge(r, c, h)
        \/ CreateAccount(r) \/ CreateChallengeDB(r) \/ CreateChallengeMemory(r)
        \/ \E h \in Hashes, pp \in Pps : VerifyChallenge(r, h, pp) \/ BundleGate(r, h, pp)
        \/ UpdateChallengeSession(r) \/ UpdateChallengeDB(r)
        \/ AttachEntityStatus(r) \/ AnswerToken(r) \/ BundleRefused(r)
  BY DEF SEP10
<1>2. req[r] \in RequestRecord
  BY DEF RequestTypes
<1>3. ASSUME NEW c \in Clients, NEW h \in Hashes, CreateChallenge(r, c, h)
      PROVE  AuthInv'
  <2> DEFINE v == [Idle EXCEPT !.client = c, !.key = h,
                     !.op = IF c \in accounts THEN "row" ELSE "account"]
  <2>1. /\ v \in RequestRecord /\ v.op \in {"row", "account"} /\ v.client = c /\ v.key = h
    BY DEF Idle, RequestRecord, Ops, EntityStatuses, Surfaces
  <2>2. req' = [req EXCEPT ![r] = v]
    BY <1>3 DEF CreateChallenge
  <2> HIDE DEF v
  <2>3. req'[r] = v /\ \A q \in Requests : q # r => req'[q] = req[q]
    BY <2>2, Moves
  <2>4. RequestTypes'
    BY <2>1, <2>2, MovesType DEF Surfaces
  <2>5. ChallengesSound'
    BY <1>3, <2>1, <2>3 DEF CreateChallenge, ChallengesSound, Creating, Verifying, Winning, sep10Vars
  <2>6. OneEach'
    BY <1>3, <2>1, <2>3 DEF CreateChallenge, OneEach, Creating, Winning
  <2>7. NoncesSound'
    BY <1>3, <2>1, <2>3 DEF CreateChallenge, NoncesSound, Surfaces, nonceVars
  <2>8. ApprovalsSound'
    BY <1>3, <2>1, <2>3 DEF CreateChallenge, ApprovalsSound, ApprovedProved, nonceVars
  <2> QED BY <1>3, <2>4, <2>5, <2>6, <2>7, <2>8 DEF CreateChallenge, sep10Vars, nonceVars
<1>4. CASE CreateAccount(r)
  <2>1. req[r].client \in Clients
    BY <1>4 DEF CreateAccount, RequestTypes
  <2>2. Sep10Types'
    BY <1>4, <2>1 DEF CreateAccount, Sep10Types, sep10Vars
  <2>3. CASE Answer(r)
    BY <1>4, <2>2, <2>3, IdleKeeps DEF CreateAccount, sep10Vars, nonceVars
  <2>4. CASE GoOn(r, IF req[r].op = "account" THEN "row" ELSE "approval")
    <3> DEFINE v == [req[r] EXCEPT !.op = IF req[r].op = "account" THEN "row" ELSE "approval"]
    <3>1. /\ v \in RequestRecord /\ v.key = req[r].key /\ v.client = req[r].client
          /\ v.pp = req[r].pp
          /\ v.op = IF req[r].op = "account" THEN "row" ELSE "approval"
      BY <1>2 DEF RequestRecord, Ops
    <3>2. req' = [req EXCEPT ![r] = v]
      BY <2>4 DEF GoOn, RequestTypes
    <3> HIDE DEF v
    <3>3. req'[r] = v /\ \A q \in Requests : q # r => req'[q] = req[q]
      BY <3>2, Moves
    <3>4. RequestTypes'
      BY <1>4, <3>1, <3>2, MovesType DEF Surfaces, CreateAccount, RequestTypes
    <3>5. ChallengesSound'
      BY <1>4, <3>1, <3>3 DEF CreateAccount, ChallengesSound, Creating, Verifying, Winning, sep10Vars
    <3>6. OneEach'
      BY <1>4, <3>1, <3>3 DEF CreateAccount, OneEach, Creating, Winning
    <3>7. NoncesSound'
      BY <1>4, <3>1, <3>3 DEF CreateAccount, NoncesSound, Surfaces, nonceVars
    <3>8. ApprovalsSound'
      BY <1>4, <3>1, <3>3 DEF CreateAccount, ApprovalsSound, ApprovedProved, nonceVars
    <3> QED BY <1>4, <2>2, <3>4, <3>5, <3>6, <3>7, <3>8 DEF CreateAccount, sep10Vars, nonceVars
  <2> QED BY <1>4, <2>3, <2>4 DEF CreateAccount
<1>5. CASE CreateChallengeDB(r)
  <2> DEFINE h == req[r].key
             row == [client |-> req[r].client, status |-> "UNVERIFIED", expired |-> FALSE]
  <2>a. h \in Hashes /\ req[r].client \in Clients /\ challenge[h] = Absent
    BY <1>5 DEF CreateChallengeDB, RequestTypes, ChallengesSound, Creating
  <2>b. row \in RowType({"none", "UNVERIFIED", "VERIFIED"}) /\ row # Absent /\ row.client = req[r].client
    BY <2>a, AuthAssumption DEF RowType, Absent
  <2>c. challenge' = [challenge EXCEPT ![h] = row]
    BY <1>5 DEF CreateChallengeDB
  <2> HIDE DEF row
  <2>d. Sep10Types'
    BY <1>5, <2>a, <2>b, <2>c DEF CreateChallengeDB, Sep10Types
  <2>e. challenge'[h] = row /\ \A k \in Hashes : k # h => challenge'[k] = challenge[k]
    BY <2>a, <2>c DEF Sep10Types
  <2>f. sessions[h] = NoClient /\ tokens[h] = 0
    BY <2>a DEF RowsSound, Sep10Types
  <2>g. RowsSound'
    BY <1>5, <2>a, <2>b, <2>e, <2>f DEF CreateChallengeDB, RowsSound
  <2> DEFINE v == [req[r] EXCEPT !.op = "memory"]
  <2>1. v \in RequestRecord /\ v.key = req[r].key /\ v.client = req[r].client
      /\ v.pp = req[r].pp /\ v.op = "memory"
    BY <1>2 DEF Idle, RequestRecord, Ops, EntityStatuses, Surfaces
  <2>2. req' = [req EXCEPT ![r] = v]
    BY <1>5 DEF CreateChallengeDB, GoOn, RequestTypes
  <2> HIDE DEF v
  <2>3. req'[r] = v /\ \A q \in Requests : q # r => req'[q] = req[q]
    BY <2>2, Moves
  <2>4. RequestTypes'
    BY <1>5, <2>a, <2>1, <2>2, MovesType DEF Surfaces, CreateChallengeDB, RequestTypes
  <2>5. ChallengesSound'
    BY <1>5, <2>a, <2>b, <2>e, <2>1, <2>3 DEF CreateChallengeDB, ChallengesSound, Creating, Verifying, Winning, OneEach, RequestTypes
  <2>6. OneEach'
    BY <1>5, <2>1, <2>3 DEF CreateChallengeDB, OneEach, Creating, Winning
  <2>7. NoncesSound'
    BY <1>5, <2>1, <2>3 DEF CreateChallengeDB, NoncesSound, Surfaces, nonceVars
  <2>8. ApprovalsSound'
    BY <1>5, <2>1, <2>3 DEF CreateChallengeDB, ApprovalsSound, ApprovedProved, nonceVars
  <2> QED BY <1>5, <2>d, <2>g, <2>4, <2>5, <2>6, <2>7, <2>8 DEF CreateChallengeDB, sep10Vars, nonceVars
<1>6. CASE CreateChallengeMemory(r)
  <2>1. req[r].key \in Hashes /\ req[r].client \in Clients
    BY <1>6 DEF CreateChallengeMemory, RequestTypes
  <2>2. Sep10Types'
    BY <1>6, <2>1 DEF CreateChallengeMemory, addSession, Sep10Types, RowType
  <2> QED BY <1>6, <2>2, IdleKeeps DEF CreateChallengeMemory, nonceVars
<1>7. ASSUME NEW h \in Hashes, NEW pp \in Pps, VerifyChallenge(r, h, pp)
      PROVE  AuthInv'
  <2>a. challenge[h] # Absent /\ challenge[h].client \in Clients
    BY <1>7 DEF VerifyChallenge, Stored, RowsSound
  <2> DEFINE v == [Idle EXCEPT !.op = "session", !.client = challenge[h].client,
                             !.key = h, !.pp = pp]
  <2>1. v \in RequestRecord 
      /\ v.op = "session" /\ v.client = challenge[h].client /\ v.key = h /\ v.pp = pp
    BY <2>a, <1>2 DEF Idle, RequestRecord, Ops, EntityStatuses, Surfaces
  <2>2. req' = [req EXCEPT ![r] = v]
    BY <1>7 DEF VerifyChallenge
  <2> HIDE DEF v
  <2>3. req'[r] = v /\ \A q \in Requests : q # r => req'[q] = req[q]
    BY <2>2, Moves
  <2>4. RequestTypes'
    BY <1>7, <2>a, <2>1, <2>2, MovesType DEF Surfaces, VerifyChallenge, RequestTypes
  <2>5. ChallengesSound'
    BY <1>7, <2>a, <2>1, <2>3 DEF VerifyChallenge, ChallengesSound, Creating, Verifying, Winning, sep10Vars
  <2>6. OneEach'
    BY <1>7, <2>1, <2>3 DEF VerifyChallenge, OneEach, Creating, Winning
  <2>7. NoncesSound'
    BY <1>7, <2>1, <2>3 DEF VerifyChallenge, NoncesSound, Surfaces, nonceVars
  <2>8. ApprovalsSound'
    BY <1>7, <2>1, <2>3 DEF VerifyChallenge, ApprovalsSound, ApprovedProved, nonceVars
  <2> QED BY <1>7, <2>4, <2>5, <2>6, <2>7, <2>8 DEF VerifyChallenge, sep10Vars, nonceVars
<1>8. ASSUME NEW h \in Hashes, NEW pp \in Pps, BundleGate(r, h, pp)
      PROVE  AuthInv'
  <2>a. sessions[h] \in Clients
    BY <1>8 DEF BundleGate, Sep10Types
  <2> DEFINE v == [Idle EXCEPT !.op = "refuse", !.client = sessions[h], !.pp = pp]
  <2>1. v \in RequestRecord 
      /\ v.op = "refuse" /\ v.client = sessions[h] /\ v.pp = pp
    BY <2>a, <1>2 DEF Idle, RequestRecord, Ops, EntityStatuses, Surfaces
  <2>2. req' = [req EXCEPT ![r] = v]
    BY <1>8 DEF BundleGate
  <2> HIDE DEF v
  <2>3. req'[r] = v /\ \A q \in Requests : q # r => req'[q] = req[q]
    BY <2>2, Moves
  <2>4. RequestTypes'
    BY <1>8, <2>a, <2>1, <2>2, MovesType DEF Surfaces, BundleGate, RequestTypes
  <2>5. ChallengesSound'
    BY <1>8, <2>1, <2>3 DEF BundleGate, ChallengesSound, Creating, Verifying, Winning, sep10Vars
  <2>6. OneEach'
    BY <1>8, <2>1, <2>3 DEF BundleGate, OneEach, Creating, Winning
  <2>7. NoncesSound'
    BY <1>8, <2>1, <2>3 DEF BundleGate, NoncesSound, Surfaces, nonceVars
  <2>8. ApprovalsSound'
    BY <1>8, <2>1, <2>3 DEF BundleGate, ApprovalsSound, ApprovedProved, nonceVars
  <2> QED BY <1>8, <2>4, <2>5, <2>6, <2>7, <2>8 DEF BundleGate, sep10Vars, nonceVars
<1>9. CASE UpdateChallengeSession(r)
  <2> DEFINE h == req[r].key
  <2>a. h \in Hashes /\ req[r].client \in Clients /\ req[r].pp \in Pps
    BY <1>9 DEF UpdateChallengeSession, RequestTypes, Surfaces
  <2>b. memory' \in [Hashes -> RowType({"none", "PENDING", "ACTIVE"})]
    BY <1>9, <2>a DEF UpdateChallengeSession, updateSession, Sep10Types, RowType, Absent
  <2>c. CASE sessions[h] # NoClient
    <3>1. Answer(r) /\ UNCHANGED <<sessions, accounts, challenge, answered, tokens, users>>
      BY <1>9, <2>c DEF UpdateChallengeSession
    <3>2. Sep10Types'
      BY <2>b, <3>1 DEF Sep10Types
    <3> QED BY <1>9, <3>1, <3>2, IdleKeeps DEF UpdateChallengeSession, nonceVars
  <2>d. CASE sessions[h] = NoClient
    <3>a. sessions' = [sessions EXCEPT ![h] = req[r].client] /\ GoOn(r, "verified")
      BY <1>9, <2>d DEF UpdateChallengeSession
    <3>b. Sep10Types'
      BY <1>9, <2>a, <2>b, <3>a DEF UpdateChallengeSession, Sep10Types
    <3>c. sessions'[h] = req[r].client /\ \A k \in Hashes : k # h => sessions'[k] = sessions[k]
      BY <2>a, <3>a DEF Sep10Types
    <3>d. /\ challenge[h] # Absent /\ req[r].client = challenge[h].client /\ tokens[h] = 0
          /\ req[r].client # NoClient
      BY <1>9, <2>a, <2>d, AuthAssumption
         DEF UpdateChallengeSession, ChallengesSound, Verifying, RowsSound, Sep10Types
    <3>e. RowsSound'
      BY <1>9, <2>a, <3>c, <3>d DEF UpdateChallengeSession, RowsSound
    <3>f. \A q \in Requests : Winning(q) => req[q].key # h
      BY <2>d DEF ChallengesSound
    <3> DEFINE v == [req[r] EXCEPT !.op = "verified"]
    <3>1. v \in RequestRecord /\ v.key = req[r].key /\ v.client = req[r].client
        /\ v.pp = req[r].pp /\ v.op = "verified"
      BY <1>2 DEF Idle, RequestRecord, Ops, EntityStatuses, Surfaces
    <3>2. req' = [req EXCEPT ![r] = v]
      BY <3>a DEF GoOn, RequestTypes
    <3> HIDE DEF v
    <3>3. req'[r] = v /\ \A q \in Requests : q # r => req'[q] = req[q]
      BY <3>2, Moves
    <3>4. RequestTypes'
      BY <1>9, <2>a, <3>1, <3>2, MovesType DEF Surfaces, UpdateChallengeSession, RequestTypes
    <3>5. ChallengesSound'
      BY <1>9, <2>a, <3>c, <3>d, <3>f, <3>1, <3>3 DEF UpdateChallengeSession, ChallengesSound, Creating, Verifying, Winning, RequestTypes
    <3>6. OneEach'
      BY <1>9, <3>f, <3>1, <3>3 DEF UpdateChallengeSession, OneEach, Creating, Winning
    <3>7. NoncesSound'
      BY <1>9, <3>1, <3>3 DEF UpdateChallengeSession, NoncesSound, Surfaces, nonceVars
    <3>8. ApprovalsSound'
      BY <1>9, <3>1, <3>3 DEF UpdateChallengeSession, ApprovalsSound, ApprovedProved, nonceVars
    <3> QED BY <1>9, <3>b, <3>e, <3>4, <3>5, <3>6, <3>7, <3>8 DEF UpdateChallengeSession, sep10Vars, nonceVars
  <2> QED BY <2>c, <2>d
<1>10. CASE UpdateChallengeDB(r)
  <2> DEFINE h == req[r].key
             row == [challenge[h] EXCEPT !.status = "VERIFIED"]
  <2>a. /\ h \in Hashes /\ req[r].client \in Clients /\ req[r].pp \in Pps
        /\ challenge[h] # Absent /\ sessions[h] # NoClient /\ tokens[h] = 0
        /\ req[r].client = challenge[h].client
    BY <1>10 DEF UpdateChallengeDB, RequestTypes, ChallengesSound, Verifying, Winning, Surfaces
  <2>b. /\ row \in RowType({"none", "UNVERIFIED", "VERIFIED"}) /\ row # Absent
        /\ row.client = challenge[h].client /\ row.status = "VERIFIED"
    BY <2>a DEF RowType, Absent, Sep10Types
  <2>c. challenge' = [challenge EXCEPT ![h] = row]
    BY <1>10, <2>a DEF UpdateChallengeDB, Sep10Types
  <2> HIDE DEF row
  <2>d. Sep10Types'
    BY <1>10, <2>a, <2>b, <2>c DEF UpdateChallengeDB, Sep10Types
  <2>e. challenge'[h] = row /\ \A k \in Hashes : k # h => challenge'[k] = challenge[k]
    BY <2>a, <2>c DEF Sep10Types
  <2>g. RowsSound'
    BY <1>10, <2>a, <2>b, <2>e DEF UpdateChallengeDB, RowsSound
  <2> DEFINE v == [req[r] EXCEPT !.op = "status"]
  <2>1. v \in RequestRecord /\ v.key = req[r].key /\ v.client = req[r].client
      /\ v.pp = req[r].pp /\ v.op = "status"
    BY <1>2 DEF Idle, RequestRecord, Ops, EntityStatuses, Surfaces
  <2>2. req' = [req EXCEPT ![r] = v]
    BY <1>10 DEF UpdateChallengeDB, GoOn, RequestTypes
  <2> HIDE DEF v
  <2>3. req'[r] = v /\ \A q \in Requests : q # r => req'[q] = req[q]
    BY <2>2, Moves
  <2>4. RequestTypes'
    BY <1>10, <2>a, <2>1, <2>2, MovesType DEF Surfaces, UpdateChallengeDB, RequestTypes
  <2>5. ChallengesSound'
    BY <1>10, <2>a, <2>b, <2>e, <2>1, <2>3 DEF UpdateChallengeDB, ChallengesSound, Creating, Verifying, Winning, RequestTypes
  <2>6. OneEach'
    BY <1>10, <2>1, <2>3 DEF UpdateChallengeDB, OneEach, Creating, Winning
  <2>7. NoncesSound'
    BY <1>10, <2>1, <2>3 DEF UpdateChallengeDB, NoncesSound, Surfaces, nonceVars
  <2>8. ApprovalsSound'
    BY <1>10, <2>1, <2>3 DEF UpdateChallengeDB, ApprovalsSound, ApprovedProved, nonceVars
  <2> QED BY <1>10, <2>d, <2>g, <2>4, <2>5, <2>6, <2>7, <2>8 DEF UpdateChallengeDB, sep10Vars, nonceVars
<1>11. CASE AttachEntityStatus(r)
  <2>a. /\ req[r].client \in Clients /\ req[r].pp \in Pps
        /\ approval[req[r].pp][req[r].client] \in EntityStatuses
    BY <1>11 DEF AttachEntityStatus, RequestTypes, ApprovalTypes, Surfaces
  <2>b. req[r].op = "status" /\ UNCHANGED <<accounts, sep10Vars, nonceVars, users, approval>>
    BY <1>11 DEF AttachEntityStatus
  <2> DEFINE v == [req[r] EXCEPT !.op = "token", !.status = approval[req[r].pp][req[r].client]]
  <2>1. v \in RequestRecord /\ v.key = req[r].key /\ v.client = req[r].client
      /\ v.pp = req[r].pp /\ v.op = "token"
    BY <2>a, <1>2 DEF Idle, RequestRecord, Ops, EntityStatuses, Surfaces
  <2>2. req' = [req EXCEPT ![r] = v]
    BY <1>11 DEF AttachEntityStatus, RequestTypes
  <2> HIDE DEF v
  <2>3. req'[r] = v /\ \A q \in Requests : q # r => req'[q] = req[q]
    BY <2>2, Moves
  <2>4. RequestTypes'
    BY <2>b, <2>a, <2>1, <2>2, MovesType DEF Surfaces, RequestTypes
  <2>5. ChallengesSound'
    BY <2>b, <2>1, <2>3 DEF ChallengesSound, Creating, Verifying, Winning, sep10Vars
  <2>6. OneEach'
    BY <2>b, <2>1, <2>3 DEF OneEach, Creating, Winning
  <2>7. NoncesSound'
    BY <2>b, <2>1, <2>3 DEF NoncesSound, Surfaces, nonceVars
  <2>8. ApprovalsSound'
    BY <2>b, <2>1, <2>3 DEF ApprovalsSound, ApprovedProved, nonceVars
  <2> QED BY <2>b, <2>4, <2>5, <2>6, <2>7, <2>8 DEF sep10Vars, nonceVars
<1>12. CASE AnswerToken(r)
  <2> DEFINE h == req[r].key
  <2>1. /\ h \in Hashes /\ req[r].client \in Clients /\ req[r].pp \in Pps
        /\ sessions[h] # NoClient /\ tokens[h] = 0 /\ challenge[h].status = "VERIFIED"
    BY <1>12 DEF AnswerToken, RequestTypes, ChallengesSound, Winning, Surfaces
  <2>2. tokens' \in [Hashes -> Nat] /\ tokens'[h] = 1 /\ \A k \in Hashes : k # h => tokens'[k] = tokens[k]
    BY <1>12, <2>1 DEF AnswerToken, Sep10Types
  <2>3. Sep10Types'
    BY <1>12, <2>2 DEF AnswerToken, Sep10Types
  <2>4. RowsSound'
    BY <1>12, <2>1, <2>2 DEF AnswerToken, RowsSound
  <2>5. req'[r] = Idle /\ \A q \in Requests : q # r => req'[q] = req[q]
    BY <1>12, Moves DEF AnswerToken, Answer
  <2>6. \A q \in Requests : q # r /\ Winning(q) => req[q].key # h
    BY <1>12 DEF AnswerToken, OneEach, Winning
  <2>7. ChallengesSound'
    BY <1>12, <2>1, <2>2, <2>5, <2>6, IdleRequest
       DEF AnswerToken, ChallengesSound, Creating, Verifying, Winning, RequestTypes
  <2>8. approval' = approval \/ approval' = recordInteraction(req[r].pp, req[r].client)
    BY <1>12 DEF AnswerToken
  <2>9. ApprovalTypes' /\ ApprovedProved'
    BY <1>12, <2>1, <2>8, RecordKeeps
       DEF AnswerToken, nonceVars, ApprovalsSound, ApprovalTypes, ApprovedProved
  <2>10. ApprovalsSound'
    BY <1>12, <2>9, IdleApprovals DEF AnswerToken, nonceVars
  <2> QED BY <1>12, <2>3, <2>4, <2>7, <2>9, <2>10, IdleKeeps DEF AnswerToken, nonceVars
<1>13. CASE BundleRefused(r)
  <2>1. req[r].client \in Clients /\ req[r].pp \in Pps
    BY <1>13 DEF BundleRefused, RequestTypes, Surfaces
  <2>2. ApprovalTypes' /\ ApprovedProved'
    BY <1>13, <2>1, RecordKeeps DEF BundleRefused, nonceVars, ApprovalsSound
  <2>3. ApprovalsSound'
    BY <1>13, <2>2, IdleApprovals DEF BundleRefused, nonceVars
  <2> QED BY <1>13, <2>2, <2>3, IdleKeeps DEF BundleRefused, sep10Vars, nonceVars
<1> QED BY <1>1, <1>3, <1>4, <1>5, <1>6, <1>7, <1>8, <1>9, <1>10, <1>11, <1>12, <1>13

-----------------------------------------------------------------------------
(* A nonce goes out of the store, and nothing comes in.                    *)
LEMMA NonceLeaves ==
  ASSUME AuthInv, NEW s \in Surfaces, NEW n \in Nonces,
         pending' = [pending EXCEPT ![s][n] = Absent]
  PROVE  /\ StoresBounded'
         /\ pending' \in [Surfaces -> [Nonces -> RowType({"none", "PENDING"})]]
         /\ pending'[s][n] = Absent
         /\ \A t \in Surfaces, m \in Nonces : pending'[t][m] \in {pending[t][m], Absent}
<1>1. Absent \in RowType({"none", "PENDING"})
  BY DEF Absent, RowType
<1>2. /\ pending' \in [Surfaces -> [Nonces -> RowType({"none", "PENDING"})]]
      /\ pending'[s][n] = Absent
      /\ \A t \in Surfaces, m \in Nonces : pending'[t][m] \in {pending[t][m], Absent}
  BY <1>1 DEF AuthInv, AuthTypes, NonceTypes
<1>3. ASSUME NEW t \in Surfaces
      PROVE  IsFiniteSet(Held(t)') /\ Cardinality(Held(t)') <= MaxPending
  <2>1. Held(t)' \subseteq Held(t)
    BY <1>2 DEF Held
  <2>2. IsFiniteSet(Held(t)) /\ Cardinality(Held(t)) <= MaxPending
    BY DEF AuthInv, StoresBounded
  <2>3. IsFiniteSet(Held(t)') /\ Cardinality(Held(t)') <= Cardinality(Held(t))
    BY <2>1, <2>2, FS_Subset
  <2>4. Cardinality(Held(t)') \in Nat /\ Cardinality(Held(t)) \in Nat /\ MaxPending \in Nat
    BY <2>2, <2>3, FS_CardinalityType, AuthAssumption
  <2> QED BY <2>2, <2>3, <2>4
<1> QED BY <1>2, <1>3 DEF StoresBounded

LEMMA NonceKeeps ==
  ASSUME AuthInv, NonceProof
  PROVE  AuthInv'
<1> USE Untouched DEF AuthInv, AuthTypes
<1>1. ASSUME NEW s \in Surfaces, NEW c \in Clients, CreateNonce(s, c)
      PROVE  AuthInv'
  <2> DEFINE new == [client |-> c, status |-> "PENDING", expired |-> FALSE]
             kept == {m \in Nonces : Cleaned(s)[m] # Absent}
  <2>1. Absent \in RowType({"none", "PENDING"}) /\ new \in RowType({"none", "PENDING"})
    BY DEF Absent, RowType
  <2> HIDE DEF new
  <2>2. Cleaned(s) \in [Nonces -> RowType({"none", "PENDING"})]
        /\ \A m \in Nonces : Cleaned(s)[m] \in {pending[s][m], Absent}
    BY <2>1 DEF Cleaned, NonceTypes
  <2>3. kept \subseteq Held(s)
    BY <2>2 DEF Held
  <2>4. IsFiniteSet(Held(s)) /\ Cardinality(Held(s)) <= MaxPending
    BY DEF StoresBounded
  <2>5. IsFiniteSet(kept) /\ Cardinality(kept) <= MaxPending /\ Cardinality(kept) \in Nat
    <3>1. IsFiniteSet(kept) /\ Cardinality(kept) <= Cardinality(Held(s))
      BY <2>3, <2>4, FS_Subset
    <3>2. Cardinality(kept) \in Nat /\ Cardinality(Held(s)) \in Nat /\ MaxPending \in Nat
      BY <2>4, <3>1, FS_CardinalityType, AuthAssumption
    <3> QED BY <2>4, <3>1, <3>2
  <2>6. CASE HasRoom(Cleaned(s))
    <3> DEFINE n == Fresh(s)
    <3>1. n \in Nonces /\ n \notin used[s]
      BY <1>1 DEF CreateNonce, Fresh, NonceTypes
    <3>2. pending' = [pending EXCEPT ![s] = [Cleaned(s) EXCEPT ![n] = new]]
          /\ used' = [used EXCEPT ![s] = @ \cup {n}]
      BY <1>1, <2>6 DEF CreateNonce, new
    <3> HIDE DEF n
    <3>3. /\ pending'[s] = [Cleaned(s) EXCEPT ![n] = new]
          /\ \A t \in Surfaces : t # s => pending'[t] = pending[t]
          /\ used'[s] = used[s] \cup {n} /\ \A t \in Surfaces : t # s => used'[t] = used[t]
      BY <3>2 DEF NonceTypes
    <3>4. NonceTypes'
      BY <1>1, <2>1, <2>2, <3>1, <3>2 DEF CreateNonce, NonceTypes
    <3>5. \A m \in Nonces : m # n => pending'[s][m] \in {pending[s][m], Absent}
      BY <2>2, <3>1, <3>3
    <3>6. StoresBounded'
      <4>1. Held(s)' \subseteq kept \cup {n}
        BY <2>2, <3>1, <3>3 DEF Held
      <4>2. Cardinality(kept) < MaxPending
        BY <2>6 DEF HasRoom
      <4>3. IsFiniteSet(kept \cup {n}) /\ Cardinality(kept \cup {n}) <= MaxPending
        <5>1. IsFiniteSet(kept \cup {n})
              /\ Cardinality(kept \cup {n}) \in {Cardinality(kept), Cardinality(kept) + 1}
          BY <2>5, FS_AddElement
        <5> QED BY <2>5, <4>2, <5>1, AuthAssumption
      <4>4. IsFiniteSet(Held(s)') /\ Cardinality(Held(s)') <= MaxPending
        <5>1. IsFiniteSet(Held(s)') /\ Cardinality(Held(s)') <= Cardinality(kept \cup {n})
          BY <4>1, <4>3, FS_Subset
        <5>2. /\ Cardinality(Held(s)') \in Nat /\ Cardinality(kept \cup {n}) \in Nat
              /\ MaxPending \in Nat
          BY <4>3, <5>1, FS_CardinalityType, AuthAssumption
        <5> QED BY <4>3, <5>1, <5>2
      <4>5. \A t \in Surfaces : t # s => Held(t)' = Held(t)
        BY <3>3 DEF Held
      <4>6. ASSUME NEW t \in Surfaces
            PROVE  IsFiniteSet(Held(t)') /\ Cardinality(Held(t)') <= MaxPending
        BY <4>4, <4>5 DEF StoresBounded
      <4> QED BY <4>6 DEF StoresBounded
    <3>7. NoncesSound'
      <4>1. accepted' = accepted /\ req' = req
        BY <1>1 DEF CreateNonce
      <4>2. accepted[s][n] = 0
        BY <3>1 DEF NoncesSound, NonceTypes
      <4>3. ASSUME NEW t \in Surfaces, NEW m \in Nonces
            PROVE  /\ accepted[t][m] <= 1
                   /\ pending'[t][m] # Absent => accepted[t][m] = 0 /\ m \in used'[t]
                   /\ accepted[t][m] > 0 => m \in used'[t]
        <5>1. CASE t # s
          BY <3>3, <5>1 DEF NoncesSound
        <5>2. CASE t = s /\ m # n
          BY <3>3, <3>5, <5>2 DEF NoncesSound
        <5>3. CASE t = s /\ m = n
          BY <3>3, <4>2, <5>3
        <5> QED BY <5>1, <5>2, <5>3
      <4>4. ASSUME NEW q \in Requests, req[q].op \in Surfaces
            PROVE  /\ accepted[req[q].op][req[q].key] = 0
                   /\ pending'[req[q].op][req[q].key] = Absent
                   /\ req[q].key \in used'[req[q].op]
        <5>1. req[q].key \in Nonces
          BY <4>4 DEF RequestTypes
        <5>2. /\ accepted[req[q].op][req[q].key] = 0
              /\ pending[req[q].op][req[q].key] = Absent
              /\ req[q].key \in used[req[q].op]
          BY <4>4 DEF NoncesSound
        <5>3. CASE req[q].op # s
          BY <3>3, <4>4, <5>2, <5>3
        <5>4. CASE req[q].op = s
          <6>1. req[q].key # n
            BY <3>1, <5>2, <5>4
          <6> QED BY <3>3, <3>5, <5>1, <5>2, <5>4, <6>1
        <5> QED BY <5>3, <5>4
      <4> QED BY <4>1, <4>3, <4>4 DEF NoncesSound
    <3> QED BY <1>1, <3>4, <3>6, <3>7 DEF CreateNonce, sep10Vars
  <2>7. CASE ~HasRoom(Cleaned(s))
    <3>1. pending' = [pending EXCEPT ![s] = Cleaned(s)] /\ used' = used
      BY <1>1, <2>7 DEF CreateNonce
    <3>2. /\ pending'[s] = Cleaned(s)
          /\ \A t \in Surfaces : t # s => pending'[t] = pending[t]
      BY <3>1 DEF NonceTypes
    <3>3. NonceTypes'
      BY <1>1, <2>2, <3>1 DEF CreateNonce, NonceTypes
    <3>4. StoresBounded'
      <4>1. Held(s)' = kept /\ \A t \in Surfaces : t # s => Held(t)' = Held(t)
        BY <3>2 DEF Held
      <4>2. ASSUME NEW t \in Surfaces
            PROVE  IsFiniteSet(Held(t)') /\ Cardinality(Held(t)') <= MaxPending
        BY <2>5, <4>1 DEF StoresBounded
      <4> QED BY <4>2 DEF StoresBounded
    <3>5. \A t \in Surfaces, m \in Nonces : pending'[t][m] \in {pending[t][m], Absent}
      BY <2>2, <3>2
    <3>6. NoncesSound'
      BY <1>1, <3>1, <3>5 DEF CreateNonce, NoncesSound, RequestTypes
    <3> QED BY <1>1, <3>3, <3>4, <3>6 DEF CreateNonce, sep10Vars
  <2> QED BY <2>6, <2>7
<1>2. ASSUME NEW s \in Surfaces, NEW n \in Nonces, VerifyExpiredNonce(s, n)
      PROVE  AuthInv'
  <2>1. /\ StoresBounded' /\ pending' \in [Surfaces -> [Nonces -> RowType({"none", "PENDING"})]]
        /\ \A t \in Surfaces, m \in Nonces : pending'[t][m] \in {pending[t][m], Absent}
    BY <1>2, NonceLeaves DEF VerifyExpiredNonce
  <2>2. NonceTypes'
    BY <1>2, <2>1 DEF VerifyExpiredNonce, NonceTypes
  <2>3. NoncesSound'
    BY <1>2, <2>1 DEF VerifyExpiredNonce, NoncesSound, RequestTypes
  <2> QED BY <1>2, <2>1, <2>2, <2>3 DEF VerifyExpiredNonce, sep10Vars
<1>3. ASSUME NEW r \in Requests, NEW s \in Surfaces, NEW c \in Clients, NEW n \in Nonces,
             NEW good \in BOOLEAN, NEW pp \in Pps, VerifyNonce(r, s, c, n, good, pp)
      PROVE  AuthInv'
  <2>a. /\ StoresBounded' /\ pending' \in [Surfaces -> [Nonces -> RowType({"none", "PENDING"})]]
        /\ pending'[s][n] = Absent
        /\ \A t \in Surfaces, m \in Nonces : pending'[t][m] \in {pending[t][m], Absent}
    BY <1>3, NonceLeaves DEF VerifyNonce
  <2>b. NonceTypes'
    BY <1>3, <2>a DEF VerifyNonce, NonceTypes
  <2>c. pending[s][n] # Absent
    BY <1>3, AuthAssumption DEF VerifyNonce, Absent
  <2>d. accepted[s][n] = 0 /\ n \in used[s] /\ \A q \in Requests : req[q].op = s => req[q].key # n
    BY <2>c DEF NoncesSound
  <2> DEFINE v == [Idle EXCEPT !.op = s, !.client = c, !.key = n, !.pp = pp,
                              !.status = IF good THEN "good" ELSE "bad"]
  <2>1. v \in RequestRecord /\ v.op = s /\ v.client = c /\ v.key = n /\ v.pp = pp
    BY DEF Idle, RequestRecord, Ops, EntityStatuses, Surfaces
  <2>2. req' = [req EXCEPT ![r] = v]
    BY <1>3 DEF VerifyNonce
  <2> HIDE DEF v
  <2>3. req'[r] = v /\ \A q \in Requests : q # r => req'[q] = req[q]
    BY <2>2, Moves
  <2>4. RequestTypes'
    BY <2>1, <2>2, MovesType DEF Surfaces
  <2>e. UNCHANGED <<accounts, sep10Vars, used, accepted, proved, users, approval>>
    BY <1>3 DEF VerifyNonce
  <2>5. ChallengesSound'
    BY <2>e, <2>1, <2>3 DEF ChallengesSound, Creating, Verifying, Winning, sep10Vars, Surfaces
  <2>6. OneEach'
    BY <2>1, <2>3 DEF OneEach, Creating, Winning, Surfaces
  <2>7. NoncesSound'
    <3>1. ASSUME NEW t \in Surfaces, NEW m \in Nonces
          PROVE  /\ accepted[t][m] <= 1
                 /\ pending'[t][m] # Absent => accepted[t][m] = 0 /\ m \in used[t]
                 /\ accepted[t][m] > 0 => m \in used[t]
      BY <2>a DEF NoncesSound
    <3>2. ASSUME NEW q \in Requests, req'[q].op \in Surfaces
          PROVE  /\ accepted[req'[q].op][req'[q].key] = 0
                 /\ pending'[req'[q].op][req'[q].key] = Absent
                 /\ req'[q].key \in used[req'[q].op]
      <4>1. CASE q = r
        BY <2>1, <2>3, <2>a, <2>d, <4>1
      <4>2. CASE q # r
        <5>1. req'[q] = req[q] /\ req[q].key \in Nonces
          BY <2>3, <3>2, <4>2 DEF RequestTypes
        <5> QED BY <2>a, <3>2, <5>1 DEF NoncesSound
      <4> QED BY <4>1, <4>2
    <3>3. ASSUME NEW p \in Requests, NEW q \in Requests, p # q, req'[p].op \in Surfaces,
                 req'[q].op = req'[p].op
          PROVE  req'[q].key # req'[p].key
      <4>1. CASE p = r
        BY <2>1, <2>3, <2>d, <3>3, <4>1
      <4>2. CASE q = r
        BY <2>1, <2>3, <2>d, <3>3, <4>2
      <4>3. CASE p # r /\ q # r
        BY <2>3, <3>3, <4>3 DEF NoncesSound
      <4> QED BY <4>1, <4>2, <4>3
    <3> QED BY <2>e, <3>1, <3>2, <3>3 DEF NoncesSound
  <2>8. ApprovalsSound'
    BY <2>e, <2>1, <2>3 DEF ApprovalsSound, ApprovedProved, Surfaces
  <2> QED BY <2>a, <2>b, <2>e, <2>4, <2>5, <2>6, <2>7, <2>8 DEF sep10Vars
<1>4. ASSUME NEW r \in Requests, BadSignature(r)
      PROVE  AuthInv'
  BY <1>4, IdleKeeps DEF BadSignature, sep10Vars, nonceVars
<1>5. ASSUME NEW r \in Requests, NEW s \in Surfaces, Accept(r, s)
      PROVE  /\ NonceTypes' /\ StoresBounded' /\ req[r].key \in Nonces
             /\ req[r].client \in Clients /\ req[r].pp \in Pps
             /\ \A t \in Surfaces, m \in Nonces :
                  /\ pending'[t][m] \in {pending[t][m], Absent}
                  /\ accepted'[t][m] <= 1
                  /\ pending'[t][m] # Absent => accepted'[t][m] = 0 /\ m \in used[t]
                  /\ accepted'[t][m] > 0 => m \in used[t]
                  /\ ~(t = s /\ m = req[r].key) => accepted'[t][m] = accepted[t][m]
  <2> DEFINE n == req[r].key
  <2>1. n \in Nonces /\ req[r].client \in Clients /\ req[r].pp \in Pps
    BY <1>5 DEF Accept, RequestTypes, Surfaces
  <2>2. pending' = [pending EXCEPT ![s][n] = Absent]
        /\ accepted' = [accepted EXCEPT ![s][n] = @ + 1] /\ used' = used
    BY <1>5 DEF Accept
  <2>3. accepted[s][n] = 0 /\ pending[s][n] = Absent /\ n \in used[s]
    BY <1>5 DEF Accept, NoncesSound
  <2> HIDE DEF n
  <2>4. /\ StoresBounded' /\ pending' \in [Surfaces -> [Nonces -> RowType({"none", "PENDING"})]]
        /\ pending'[s][n] = Absent
        /\ \A t \in Surfaces, m \in Nonces : pending'[t][m] \in {pending[t][m], Absent}
    BY <2>1, <2>2, NonceLeaves
  <2>5. accepted' \in [Surfaces -> [Nonces -> Nat]] /\ accepted'[s][n] = 1
        /\ \A t \in Surfaces, m \in Nonces : ~(t = s /\ m = n) => accepted'[t][m] = accepted[t][m]
    BY <2>1, <2>2, <2>3 DEF NonceTypes
  <2>6. NonceTypes'
    BY <2>2, <2>4, <2>5 DEF NonceTypes
  <2>7. ASSUME NEW t \in Surfaces, NEW m \in Nonces
        PROVE  /\ accepted'[t][m] <= 1
               /\ pending'[t][m] # Absent => accepted'[t][m] = 0 /\ m \in used[t]
               /\ accepted'[t][m] > 0 => m \in used[t]
    <3>1. CASE t = s /\ m = n
      BY <2>3, <2>4, <2>5, <3>1
    <3>2. CASE ~(t = s /\ m = n)
      BY <2>4, <2>5, <3>2 DEF NoncesSound
    <3> QED BY <3>1, <3>2
  <2> QED BY <2>1, <2>4, <2>5, <2>6, <2>7 DEF n
<1>6. ASSUME NEW r \in Requests, NEW s \in Surfaces, Accept(r, s),
             req'[r].op \notin Surfaces, \A q \in Requests : q # r => req'[q] = req[q]
      PROVE  NoncesSound'
  <2>1. req[r].op = s /\ used' = used
    BY <1>6 DEF Accept
  <2>2. ASSUME NEW q \in Requests, req'[q].op \in Surfaces
        PROVE  /\ accepted'[req'[q].op][req'[q].key] = 0
               /\ pending'[req'[q].op][req'[q].key] = Absent
               /\ req'[q].key \in used[req'[q].op]
    <3>1. q # r /\ req'[q] = req[q] /\ req[q].key \in Nonces
      BY <1>6, <2>2 DEF RequestTypes
    <3>2. ~(req[q].op = s /\ req[q].key = req[r].key)
      BY <2>1, <3>1 DEF NoncesSound
    <3>3. /\ accepted[req[q].op][req[q].key] = 0
          /\ pending[req[q].op][req[q].key] = Absent
          /\ req[q].key \in used[req[q].op]
      BY <2>2, <3>1 DEF NoncesSound
    <3>4. /\ accepted'[req[q].op][req[q].key] = accepted[req[q].op][req[q].key]
          /\ pending'[req[q].op][req[q].key] \in {pending[req[q].op][req[q].key], Absent}
      BY <1>5, <1>6, <2>2, <3>1, <3>2
    <3> QED BY <3>1, <3>3, <3>4
  <2>3. ASSUME NEW p \in Requests, NEW q \in Requests, p # q, req'[p].op \in Surfaces,
               req'[q].op = req'[p].op
        PROVE  req'[q].key # req'[p].key
    BY <1>6, <2>3 DEF NoncesSound
  <2>4. ASSUME NEW t \in Surfaces, NEW m \in Nonces
        PROVE  /\ accepted'[t][m] <= 1
               /\ pending'[t][m] # Absent => accepted'[t][m] = 0 /\ m \in used[t]
               /\ accepted'[t][m] > 0 => m \in used[t]
    BY <1>5, <1>6
  <2> QED BY <2>1, <2>2, <2>3, <2>4 DEF NoncesSound
<1>7. ASSUME NEW r \in Requests, DashboardVerified(r)
      PROVE  AuthInv'
  <2>1. Accept(r, "dashboard") /\ "dashboard" \in Surfaces
    BY <1>7 DEF DashboardVerified, Surfaces
  <2>2. NonceTypes' /\ StoresBounded' /\ req[r].client \in Clients
    BY <1>5, <2>1
  <2>3. req'[r] = Idle /\ \A q \in Requests : q # r => req'[q] = req[q]
    BY <1>7, Moves DEF DashboardVerified, Answer
  <2>4. NoncesSound'
    <3>1. req'[r].op \notin Surfaces
      BY <2>3, IdleRequest DEF Surfaces
    <3> QED BY <1>6, <2>1, <2>3, <3>1
  <2>5. Sep10Types'
    BY <1>7, <2>2 DEF DashboardVerified, Accept, Sep10Types, sep10Vars
  <2> QED BY <1>7, <2>2, <2>4, <2>5, IdleKeeps DEF DashboardVerified, Accept, sep10Vars
<1>8. ASSUME NEW r \in Requests, EntityVerified(r)
      PROVE  AuthInv'
  <2>a. /\ Accept(r, "entity") /\ "entity" \in Surfaces /\ req[r].op = "entity"
        /\ req[r].status = "good" /\ UNCHANGED <<accounts, users, sep10Vars, approval>>
    BY <1>8 DEF EntityVerified, Accept, Surfaces
  <2>b. NonceTypes' /\ StoresBounded' /\ req[r].client \in Clients /\ req[r].pp \in Pps
    BY <1>5, <2>a
  <2>c. proved' = proved \cup {<<req[r].pp, req[r].client>>}
    BY <1>8, <2>a DEF EntityVerified
  <2>d. req[r] \in RequestRecord
    BY DEF RequestTypes
  <2> DEFINE v == [req[r] EXCEPT !.op = IF req[r].client \in accounts THEN "approval" ELSE "identity",
                                !.status = "none"]
  <2>1. v \in RequestRecord /\ v.key = req[r].key /\ v.client = req[r].client
        /\ v.pp = req[r].pp /\ v.op \in {"approval", "identity"}
    BY <2>d DEF RequestRecord, Ops, EntityStatuses
  <2>2. req' = [req EXCEPT ![r] = v]
    BY <1>8 DEF EntityVerified, RequestTypes
  <2> HIDE DEF v
  <2>3. req'[r] = v /\ \A q \in Requests : q # r => req'[q] = req[q]
    BY <2>2, Moves
  <2>4. RequestTypes'
    BY <2>b, <2>1, <2>2, MovesType DEF Surfaces
  <2>5. ChallengesSound'
    BY <2>a, <2>1, <2>3 DEF ChallengesSound, Creating, Verifying, Winning, sep10Vars
  <2>6. OneEach'
    BY <2>1, <2>3 DEF OneEach, Creating, Winning
  <2>7. NoncesSound'
    <3>1. req'[r].op \notin Surfaces
      BY <2>1, <2>3 DEF Surfaces
    <3> QED BY <1>6, <2>a, <2>3, <3>1
  <2>8. ApprovalsSound'
    BY <2>a, <2>c, <2>1, <2>3 DEF ApprovalsSound, ApprovedProved
  <2>9. ApprovalTypes'
    BY <2>a, <2>b, <2>c DEF ApprovalTypes
  <2> QED BY <2>a, <2>b, <2>4, <2>5, <2>6, <2>7, <2>8, <2>9 DEF sep10Vars
<1>9. ASSUME NEW r \in Requests, ReadApproval(r)
      PROVE  AuthInv'
  <2> DEFINE status == approval[req[r].pp][req[r].client]
  <2>a. /\ req[r].op = "approval" /\ req[r].client \in Clients /\ req[r].pp \in Pps
        /\ status \in EntityStatuses /\ <<req[r].pp, req[r].client>> \in proved
    BY <1>9 DEF ReadApproval, RequestTypes, ApprovalTypes, ApprovalsSound, Surfaces
  <2>b. UNCHANGED <<accounts, sep10Vars, nonceVars, users, approval>>
    BY <1>9 DEF ReadApproval
  <2>c. CASE status = "APPROVED"
    <3>1. Answer(r)
      BY <1>9, <2>c DEF ReadApproval, Answer
    <3> QED BY <2>b, <3>1, IdleKeeps DEF sep10Vars, nonceVars
  <2>d. CASE status # "APPROVED"
    <3>a. req[r] \in RequestRecord
      BY DEF RequestTypes
    <3> DEFINE v == [req[r] EXCEPT !.op = "approve", !.status = status]
    <3>1. v \in RequestRecord /\ v.key = req[r].key /\ v.client = req[r].client
          /\ v.pp = req[r].pp /\ v.op = "approve"
      BY <2>a, <3>a DEF RequestRecord, Ops
    <3>2. req' = [req EXCEPT ![r] = v]
      BY <1>9, <2>d DEF ReadApproval, RequestTypes
    <3> HIDE DEF v, status
    <3>3. req'[r] = v /\ \A q \in Requests : q # r => req'[q] = req[q]
      BY <3>2, Moves
    <3>4. RequestTypes'
      BY <2>a, <3>1, <3>2, MovesType DEF Surfaces
    <3>5. ChallengesSound'
      BY <2>b, <3>1, <3>3 DEF ChallengesSound, Creating, Verifying, Winning, sep10Vars
    <3>6. OneEach'
      BY <3>1, <3>3 DEF OneEach, Creating, Winning
    <3>7. NoncesSound'
      BY <2>b, <3>1, <3>3 DEF NoncesSound, Surfaces, nonceVars
    <3>8. ApprovalsSound'
      BY <2>a, <2>b, <3>1, <3>3 DEF ApprovalsSound, ApprovedProved, nonceVars
    <3> QED BY <2>b, <3>4, <3>5, <3>6, <3>7, <3>8 DEF sep10Vars, nonceVars
  <2> QED BY <2>c, <2>d
<1>10. ASSUME NEW r \in Requests, Approve(r)
       PROVE  AuthInv'
  <2> DEFINE pp == req[r].pp
             c == req[r].client
  <2>1. /\ c \in Clients /\ pp \in Pps /\ <<pp, c>> \in proved
        /\ Answer(r) /\ UNCHANGED <<accounts, sep10Vars, nonceVars, users>>
        /\ approval' = approval \/ approval' = [approval EXCEPT ![pp][c] = "APPROVED"]
    BY <1>10 DEF Approve, RequestTypes, ApprovalsSound, Surfaces
  <2> HIDE DEF pp, c
  <2>2. ApprovalTypes'
    BY <2>1 DEF ApprovalTypes, EntityStatuses, nonceVars
  <2>3. \A p \in Pps, d \in Clients : (p = pp /\ d = c) \/ approval'[p][d] = approval[p][d]
    BY <2>1 DEF ApprovalTypes
  <2>4. ApprovedProved'
    BY <2>1, <2>3 DEF ApprovedProved, ApprovalsSound, nonceVars
  <2>5. ApprovalsSound'
    BY <2>1, <2>4, IdleApprovals DEF nonceVars
  <2> QED BY <2>1, <2>2, <2>5, IdleKeeps DEF sep10Vars, nonceVars
<1> QED BY <1>1, <1>2, <1>3, <1>4, <1>7, <1>8, <1>9, <1>10 DEF NonceProof

-----------------------------------------------------------------------------
LEMMA EnvironmentKeeps ==
  ASSUME AuthInv, Environment
  PROVE  AuthInv'
<1> USE Untouched DEF AuthInv, AuthTypes
<1>1. ASSUME NEW r \in Requests, RequestFails(r)
      PROVE  AuthInv'
  BY <1>1, IdleKeeps DEF RequestFails, sep10Vars, nonceVars
<1>2. ASSUME NEW pp \in Pps, NEW c \in Clients, Block(pp, c)
      PROVE  AuthInv'
  <2>1. approval[pp][c] = "APPROVED" /\ approval' = [approval EXCEPT ![pp][c] = "BLOCKED"]
        /\ UNCHANGED <<accounts, sep10Vars, nonceVars, users, req>>
    BY <1>2 DEF Block
  <2>2. ApprovalTypes'
    BY <2>1 DEF ApprovalTypes, EntityStatuses, nonceVars
  <2>3. \A p \in Pps, d \in Clients : (p = pp /\ d = c) \/ approval'[p][d] = approval[p][d]
    BY <2>1 DEF ApprovalTypes
  <2>4. ApprovalsSound'
    BY <2>1, <2>3 DEF ApprovedProved, ApprovalsSound, nonceVars
  <2> QED BY <2>1, <2>2, <2>4 DEF sep10Vars, nonceVars
<1>3. ASSUME NEW h \in Hashes, ChallengeExpires(h)
      PROVE  AuthInv'
  <2> DEFINE row == [challenge[h] EXCEPT !.expired = TRUE]
  <2>1. /\ row \in RowType({"none", "UNVERIFIED", "VERIFIED"}) /\ row # Absent
        /\ row.client = challenge[h].client /\ row.status = challenge[h].status
    <3>1. challenge[h] \in RowType({"none", "UNVERIFIED", "VERIFIED"})
      BY DEF Sep10Types
    <3>2. row.expired = TRUE /\ Absent.expired = FALSE
      BY <3>1 DEF RowType, Absent
    <3>3. row # Absent
      BY <3>2
    <3> QED BY <3>1, <3>3 DEF RowType
  <2>2. challenge' = [challenge EXCEPT ![h] = row]
    BY <1>3 DEF ChallengeExpires, Sep10Types
  <2> HIDE DEF row
  <2>3. challenge'[h] = row /\ \A k \in Hashes : k # h => challenge'[k] = challenge[k]
    BY <2>2 DEF Sep10Types
  <2>4. memory' \in [Hashes -> RowType({"none", "PENDING", "ACTIVE"})]
    BY <1>3 DEF ChallengeExpires, RowType, Sep10Types
  <2>5. challenge[h] # Absent /\ UNCHANGED <<accounts, answered, sessions, tokens, nonceVars, users, approval, req>>
    BY <1>3 DEF ChallengeExpires
  <2>6. Sep10Types'
    BY <2>1, <2>2, <2>4, <2>5 DEF Sep10Types
  <2>7. RowsSound'
    BY <2>1, <2>3, <2>5 DEF RowsSound
  <2>8. ChallengesSound'
    BY <2>1, <2>3, <2>5 DEF ChallengesSound, Creating, Verifying, Winning, RequestTypes
  <2> QED BY <2>5, <2>6, <2>7, <2>8 DEF nonceVars
<1>4. ASSUME NEW h \in Hashes, SessionExpires(h)
      PROVE  AuthInv'
  <2>1. Sep10Types'
    BY <1>4 DEF SessionExpires, Sep10Types, RowType
  <2> QED BY <1>4, <2>1 DEF SessionExpires, nonceVars
<1>5. ASSUME NEW s \in Surfaces, NEW n \in Nonces, NonceExpires(s, n)
      PROVE  AuthInv'
  <2> DEFINE row == [pending[s][n] EXCEPT !.expired = TRUE]
  <2>1. row \in RowType({"none", "PENDING"})
    <3>1. pending[s][n] \in RowType({"none", "PENDING"})
      BY DEF NonceTypes
    <3> QED BY <3>1 DEF RowType
  <2>2. pending' = [pending EXCEPT ![s] = [pending[s] EXCEPT ![n] = row]]
    BY <1>5 DEF NonceExpires, NonceTypes
  <2>3. /\ pending[s][n] # Absent
        /\ UNCHANGED <<accounts, sep10Vars, used, accepted, proved, users, approval, req>>
    BY <1>5 DEF NonceExpires
  <2> HIDE DEF row
  <2>4. /\ pending'[s] = [pending[s] EXCEPT ![n] = row]
        /\ \A t \in Surfaces : t # s => pending'[t] = pending[t]
    BY <2>2 DEF NonceTypes
  <2>5. \A t \in Surfaces, m \in Nonces : pending'[t][m] = pending[t][m] \/ (t = s /\ m = n)
    <3>1. \A m \in Nonces : m # n => pending'[s][m] = pending[s][m]
      BY <2>4 DEF NonceTypes
    <3>2. ASSUME NEW t \in Surfaces, NEW m \in Nonces
          PROVE  pending'[t][m] = pending[t][m] \/ (t = s /\ m = n)
      <4>1. CASE t = s
        BY <3>1, <4>1
      <4>2. CASE t # s
        BY <2>4, <4>2
      <4> QED BY <4>1, <4>2
    <3> QED BY <3>2
  <2>6. NonceTypes'
    BY <2>1, <2>2, <2>3 DEF NonceTypes
  <2>7. StoresBounded'
    <3>1. ASSUME NEW t \in Surfaces
          PROVE  IsFiniteSet(Held(t)') /\ Cardinality(Held(t)') <= MaxPending
      <4>1. Held(t)' \subseteq Held(t)
        BY <2>3, <2>5 DEF Held
      <4>2. IsFiniteSet(Held(t)) /\ Cardinality(Held(t)) <= MaxPending
        BY DEF StoresBounded
      <4>3. IsFiniteSet(Held(t)') /\ Cardinality(Held(t)') <= Cardinality(Held(t))
        BY <4>1, <4>2, FS_Subset
      <4>4. Cardinality(Held(t)') \in Nat /\ Cardinality(Held(t)) \in Nat /\ MaxPending \in Nat
        BY <4>2, <4>3, FS_CardinalityType, AuthAssumption
      <4> QED BY <4>2, <4>3, <4>4
    <3> QED BY <3>1 DEF StoresBounded
  <2>8. NoncesSound'
    BY <2>3, <2>5 DEF NoncesSound, RequestTypes
  <2> QED BY <2>3, <2>6, <2>7, <2>8 DEF sep10Vars
<1>6. CASE CleanupSessions
  <2>1. Absent \in RowType({"none", "PENDING", "ACTIVE"})
    BY DEF Absent, RowType
  <2>2. Sep10Types'
    BY <1>6, <2>1 DEF CleanupSessions, Sep10Types
  <2> QED BY <1>6, <2>2 DEF CleanupSessions, nonceVars
<1>7. CASE Restart
  <2>1. Absent \in RowType({"none", "PENDING", "ACTIVE"}) /\ Absent \in RowType({"none", "PENDING"})
    BY DEF Absent, RowType
  <2>2. Sep10Types' /\ NonceTypes'
    BY <1>7, <2>1 DEF Restart, Sep10Types, NonceTypes
  <2>3. \A q \in Requests : req'[q] = Idle
    BY <1>7 DEF Restart
  <2>4. RequestTypes'
    BY <1>7, IdleRequest DEF Restart, RequestTypes, Surfaces
  <2>5. ChallengesSound' /\ OneEach'
    BY <2>3, IdleRequest DEF ChallengesSound, OneEach, Creating, Verifying, Winning
  <2>6. \A s \in Surfaces, n \in Nonces : pending'[s][n] = Absent
    BY <1>7 DEF Restart
  <2>7. NoncesSound'
    BY <1>7, <2>3, <2>6, IdleRequest DEF Restart, NoncesSound, Surfaces
  <2>8. StoresBounded'
    <3>1. ASSUME NEW s \in Surfaces PROVE Held(s)' = {}
      BY <2>6 DEF Held
    <3> QED BY <3>1, FS_EmptySet, AuthAssumption DEF StoresBounded
  <2>9. ApprovalsSound'
    BY <1>7, <2>3, IdleRequest DEF Restart, ApprovalsSound, ApprovedProved
  <2> QED BY <1>7, <2>2, <2>4, <2>5, <2>7, <2>8, <2>9 DEF Restart
<1> QED BY <1>1, <1>2, <1>3, <1>4, <1>5, <1>6, <1>7 DEF Environment

(* AuthInv is inductive.                                                   *)
LEMMA AuthInvariant == Spec => []AuthInv
<1>1. AuthInv /\ [Next]_vars => AuthInv'
  <2>1. AuthInv /\ Next => AuthInv'
    BY Sep10Keeps, NonceKeeps, EnvironmentKeeps DEF Next
  <2>2. AuthInv /\ UNCHANGED vars => AuthInv'
    BY Untouched DEF AuthInv, AuthTypes, vars, sep10Vars, nonceVars
  <2> QED BY <2>1, <2>2
<1> QED BY InitInv, <1>1, PTL DEF Spec

-----------------------------------------------------------------------------
(* Every variable keeps its type and neither nonce store ever holds more   *)
(* than its limit, whoever asks for challenges and whenever: the store is  *)
(* swept and compared with the limit in one step (dashboard-auth.ts:47,    *)
(* entity-auth.ts:38).                                                     *)
THEOREM TypeCorrect == Spec => []AuthTypeOK
<1>1. AuthInv => AuthTypeOK
  <2> SUFFICES ASSUME AuthInv PROVE AuthTypeOK
    OBVIOUS
  <2>1. Sep10Types /\ NonceTypes /\ ApprovalTypes /\ RequestTypes /\ StoresBounded
    BY DEF AuthInv, AuthTypes
  <2>2. StoredTypeOK(challenge, Hashes, {"none", "UNVERIFIED", "VERIFIED"})
        /\ StoredTypeOK(memory, Hashes, {"none", "PENDING", "ACTIVE"})
    BY <2>1 DEF Sep10Types, StoredTypeOK, RowType
  <2>3. ASSUME NEW s \in Surfaces
        PROVE  /\ StoredTypeOK(pending[s], Nonces, {"none", "PENDING"})
               /\ Cardinality({n \in Nonces : pending[s][n] # Absent}) <= MaxPending
               /\ used[s] \subseteq Nonces /\ accepted[s] \in [Nonces -> Nat]
    BY <2>1 DEF NonceTypes, StoredTypeOK, RowType, StoresBounded, Held
  <2>4. req \in [Requests -> RequestRecord]
    BY <2>1 DEF RequestTypes
  <2> QED BY <2>1, <2>2, <2>3, <2>4
          DEF AuthTypeOK, Sep10Types, ApprovalTypes, RequestRecord, Ops
<1> QED BY AuthInvariant, <1>1, PTL

(* A signed challenge is answered with one token at most, and the token's  *)
(* challenge is verified and has the session row of its wallet.  The row   *)
(* of the challenge is looked up without its status, so it is the primary  *)
(* key of the session row alone that lets one of the requests win.         *)
THEOREM OneTokenPerChallenge == Spec => []TokenIssuedOnce
<1>1. AuthInv => TokenIssuedOnce
  BY DEF AuthInv, RowsSound, TokenIssuedOnce
<1> QED BY AuthInvariant, <1>1, PTL

(* A nonce of the dashboard or of an entity submission is accepted once at *)
(* most, and one that was accepted is never pending again: it leaves the   *)
(* store before the signature is awaited, and none is drawn twice.         *)
THEOREM NoncesAreSingleUse == Spec => []NonceAcceptedOnce
<1>1. AuthInv => NonceAcceptedOnce
  BY DEF AuthInv, NoncesSound, NonceAcceptedOnce
<1> QED BY AuthInvariant, <1>1, PTL

(* An entity is APPROVED, or blocked after that, only for a provider to    *)
(* which its wallet signed a nonce of its own.                             *)
THEOREM ApprovalNeedsProof == Spec => []ApprovedProved
<1>1. AuthInv => ApprovedProved
  BY DEF AuthInv, ApprovalsSound
<1> QED BY AuthInvariant, <1>1, PTL

(* No step deletes an approval row or takes it back to UNVERIFIED: the     *)
(* upsert of recordInteraction leaves a row that exists as it is, though   *)
(* the status it acts on was read an await earlier.                        *)
THEOREM InteractionsNeverDowngrade == Spec => NeverDowngraded
<1> DEFINE Step == \A pp \in Pps, c \in Clients :
              /\ approval[pp][c] # "none" => approval'[pp][c] # "none"
              /\ approval'[pp][c] = "UNVERIFIED" => approval[pp][c] \in {"none", "UNVERIFIED"}
<1>1. ASSUME AuthInv, NEW p \in Pps, NEW d \in Clients, approval' = recordInteraction(p, d)
      PROVE  Step
  BY <1>1, RecordChanges DEF AuthInv, AuthTypes
<1>2. ASSUME AuthInv, NEW p \in Pps, NEW d \in Clients, NEW w \in {"APPROVED", "BLOCKED"},
             approval' = [approval EXCEPT ![p][d] = w]
      PROVE  Step
  <2>1. \A pp \in Pps, c \in Clients : approval'[pp][c] \in {approval[pp][c], w}
    BY <1>2 DEF AuthInv, AuthTypes, ApprovalTypes
  <2> QED BY <2>1
<1>3. ASSUME UNCHANGED approval
      PROVE  Step
  BY <1>3
<1> HIDE DEF Step
<1>4. ASSUME AuthInv, SEP10
      PROVE  Step
  <2>1. PICK r \in Requests :
          UNCHANGED approval \/ AnswerToken(r) \/ BundleRefused(r)
    BY <1>4 DEF SEP10, CreateChallenge, CreateAccount, CreateChallengeDB, CreateChallengeMemory,
                VerifyChallenge, BundleGate, UpdateChallengeSession, UpdateChallengeDB,
                AttachEntityStatus
  <2>2. CASE AnswerToken(r)
    <3>1. req[r].pp \in Pps /\ req[r].client \in Clients
      BY <1>4, <2>2 DEF AnswerToken, AuthInv, AuthTypes, RequestTypes, Surfaces
    <3> QED BY <1>1, <1>3, <1>4, <2>2, <3>1 DEF AnswerToken
  <2>3. CASE BundleRefused(r)
    <3>1. req[r].pp \in Pps /\ req[r].client \in Clients
      BY <1>4, <2>3 DEF BundleRefused, AuthInv, AuthTypes, RequestTypes, Surfaces
    <3> QED BY <1>1, <1>4, <2>3, <3>1 DEF BundleRefused
  <2> QED BY <1>3, <2>1, <2>2, <2>3
<1>5. ASSUME AuthInv, NonceProof
      PROVE  Step
  <2>1. UNCHANGED approval \/ \E r \in Requests : Approve(r)
    BY <1>5 DEF NonceProof, CreateNonce, VerifyExpiredNonce, VerifyNonce, BadSignature,
                DashboardVerified, EntityVerified, Accept, ReadApproval
  <2>2. ASSUME NEW r \in Requests, Approve(r)
        PROVE  Step
    <3>1. req[r].pp \in Pps /\ req[r].client \in Clients
      BY <1>5, <2>2 DEF Approve, AuthInv, AuthTypes, RequestTypes, Surfaces
    <3> QED BY <1>2, <1>3, <1>5, <2>2, <3>1 DEF Approve
  <2> QED BY <1>3, <2>1, <2>2
<1>6. ASSUME AuthInv, Environment
      PROVE  Step
  <2>1. UNCHANGED approval \/ \E p \in Pps, d \in Clients : Block(p, d)
    BY <1>6 DEF Environment, RequestFails, ChallengeExpires, SessionExpires, NonceExpires,
                CleanupSessions, Restart
  <2> QED BY <1>2, <1>3, <1>6, <2>1 DEF Block
<1>7. AuthInv /\ [Next]_vars => [Step]_vars
  BY <1>4, <1>5, <1>6 DEF Next
<1> QED BY AuthInvariant, <1>7, PTL DEF Spec, NeverDowngraded, Step
=============================================================================
