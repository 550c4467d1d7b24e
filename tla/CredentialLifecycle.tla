------------------------ MODULE CredentialLifecycle ------------------------
(***************************************************************************)
(* A credential from issuance to revocation, with everything the contract  *)
(* keeps about it outside the credential itself: the duplicate-prevention  *)
(* slot (subject, issuer, type), the two per-subject lists, the issuer's   *)
(* index, the revocation cache, log and counter, a pending transfer and    *)
(* the recovery requests.                                                  *)
(*                                                                         *)
(* Four operations change a credential's subject or retire it, and each    *)
(* maintains a different subset of those records; the properties are about *)
(* which of them still agree after any sequence of calls.  The lists are   *)
(* kept as sets: a removal rewrites the list without any copy of the id.   *)
(* An expiry is abstracted to whether there is one and it has passed.      *)
(***************************************************************************)
EXTENDS Integers, Sequences, FiniteSets

CONSTANTS
  Issuers, Subjects, Types,
  Recipients,       \* who a transfer, a rotation or a recovery may name
  Approvers, Thresholds,  \* approvers and thresholds a recovery may name
  MaxCredentials,   \* bound: credentials issued
  MaxRecoveries,    \* bound: recovery requests filed
  None              \* an absent storage key

CredentialId == 1..MaxCredentials
RecoveryId == 1..MaxRecoveries
Slot == Subjects \X Issuers \X Types

Expiry == {"none", "ahead", "passed"}

Credential ==
  [subject : Subjects, issuer : Issuers, type : Types,
   revoked : BOOLEAN, suspended : BOOLEAN, expires_at : Expiry]
Transfer == [from : Subjects, to : Recipients]
RecoveryRequest ==
  [credential_id : CredentialId, new_subject : Recipients, threshold : Thresholds,
   status : {"Pending", "Approved", "Executed", "Rejected"}, approvals : SUBSET Approvers]

ASSUME LifecycleConstants ==
  /\ Recipients \subseteq Subjects
  /\ Thresholds \subseteq Nat \ {0}
  /\ MaxCredentials \in Nat
  /\ MaxRecoveries \in Nat
  /\ None \notin CredentialId \cup RecoveryId
  /\ None \notin BOOLEAN
  /\ None \notin Transfer
  /\ \A C \in SUBSET CredentialId : None # C

VARIABLES
  credentials,        \* Credential(id), for the ids issued so far
  slots,              \* SubjectIssuerType
  subjectCredentials, \* SubjectCredentials, the older list
  subjectIndex,       \* SubjectCredentialIndex, preferred by lookups once it exists
  issuerIndex,        \* IssuerCredentialIndex
  revocationCache,    \* RevocationCache
  revocationLog,      \* number of RevocationLog entries
  revokedCount,       \* RevokedCredentialCount
  transfers,          \* TransferRequest
  recoveries,         \* RecoveryRequest(id) with its RecoveryApprovals
  credentialRecovery  \* CredentialRecovery: the request that is open

listVars == <<subjectCredentials, subjectIndex, issuerIndex>>
revocationVars == <<revocationCache, revocationLog, revokedCount>>
recoveryVars == <<recoveries, credentialRecovery>>
vars == <<credentials, slots, listVars, revocationVars, transfers, recoveryVars>>

Issued == DOMAIN credentials
SlotOf(c) == <<credentials[c].subject, credentials[c].issuer, credentials[c].type>>
Expired(c) == credentials[c].expires_at = "passed"

----------------------------------------------------------------------------
(* The records kept about a credential. *)

IndexOf(s) == IF subjectIndex[s] = None THEN {} ELSE subjectIndex[s]

\* Mutant of MoveIndexed: the old subject's index keeps the credential.
AddIndexed(c, from, to) ==
  subjectIndex' = [subjectIndex EXCEPT ![to] = IndexOf(to) \cup {c}]

\* subject_index_remove for the old subject, then subject_index_add for the new:
\* both write the key, so both subjects have an index afterwards.
MoveIndexed(c, from, to) ==
  subjectIndex' = [[subjectIndex EXCEPT ![from] = IndexOf(from) \ {c}]
                     EXCEPT ![to] = (IF @ = None THEN {} ELSE @) \cup {c}]

MoveListed(c, from, to) ==
  subjectCredentials' = [[subjectCredentials EXCEPT ![from] = @ \ {c}] EXCEPT ![to] = @ \cup {c}]

\* What a lookup by subject answers.
get_credentials_by_subject(s) ==
  IF subjectIndex[s] = None THEN subjectCredentials[s] ELSE subjectIndex[s]

\* What is_revoked answers.
IsRevokedAnswer(c) ==
  IF revocationCache[c] = None THEN credentials[c].revoked ELSE revocationCache[c]

\* Mutant of FreedSlots: the slots of the type are freed for every subject.
FreedSlotsOfType(C) == {k \in Slot : \E c \in C : k[2] = SlotOf(c)[2] /\ k[3] = SlotOf(c)[3]}

FreedSlots(C) == {SlotOf(c) : c \in C}

\* Mutant of set_revocation_cache: what is_revoked cached is left alone.
keep_revocation_cache(C) == revocationCache' = revocationCache

\* Its caller passes true for each of C.
set_revocation_cache(C) ==
  revocationCache' = [c \in CredentialId |-> IF c \in C THEN TRUE ELSE revocationCache[c]]

\* One call per element of C, in either order: every effect is on c's own entries
\* or removes something.
mark_credential_revoked(C) ==
  /\ credentials' = [c \in Issued |->
       IF c \in C THEN [credentials[c] EXCEPT !.revoked = TRUE, !.suspended = FALSE]
       ELSE credentials[c]]
  /\ subjectCredentials' = [s \in Subjects |->
       subjectCredentials[s] \ {c \in C : credentials[c].subject = s}]
  /\ subjectIndex' = [s \in Subjects |->
       IF \E c \in C : credentials[c].subject = s
       THEN IndexOf(s) \ {c \in C : credentials[c].subject = s} ELSE subjectIndex[s]]
  /\ issuerIndex' = [i \in Issuers |-> issuerIndex[i] \ {c \in C : credentials[c].issuer = i}]
  /\ slots' = [k \in Slot |-> IF k \in FreedSlots(C) THEN None ELSE slots[k]]
  /\ set_revocation_cache(C)
  /\ revocationLog' = [c \in CredentialId |-> IF c \in C THEN revocationLog[c] + 1 ELSE revocationLog[c]]
  /\ revokedCount' = revokedCount + Cardinality(C)
  /\ UNCHANGED <<transfers, recoveryVars>>

----------------------------------------------------------------------------
(* The issuer's calls. *)

\* validate_timestamp accepts an expires_at that is already past, within an offset.
issue_credential(i, s, t, expires_at) ==
  LET id == Len(credentials) + 1 IN
  /\ id \in CredentialId
  /\ slots[<<s, i, t>>] = None
  /\ credentials' = Append(credentials,
       [subject |-> s, issuer |-> i, type |-> t,
        revoked |-> FALSE, suspended |-> FALSE, expires_at |-> expires_at])
  /\ slots' = [slots EXCEPT ![<<s, i, t>>] = id]
  /\ subjectCredentials' = [subjectCredentials EXCEPT ![s] = @ \cup {id}]
  /\ subjectIndex' = [subjectIndex EXCEPT ![s] = IndexOf(s) \cup {id}]
  /\ issuerIndex' = [issuerIndex EXCEPT ![i] = @ \cup {id}]
  /\ UNCHANGED <<revocationVars, transfers, recoveryVars>>

revoke_credential(c) ==
  /\ ~credentials[c].revoked
  /\ ~Expired(c)
  /\ mark_credential_revoked({c})

\* Mutant of NotYetRevoked: a batch revokes whatever it names.
AnyOf(C) == C

NotYetRevoked(C) == {c \in C : ~credentials[c].revoked}

batch_revoke(i, C) ==
  /\ \A c \in C : credentials[c].issuer = i
  /\ mark_credential_revoked(NotYetRevoked(C))

\* Mutant of CanResume: an expired credential is resumed as well.
CanResumeExpired(c) == ~credentials[c].revoked /\ credentials[c].suspended

CanResume(c) ==
  /\ ~credentials[c].revoked
  /\ credentials[c].suspended
  /\ ~Expired(c)

Update(c, field, value) ==
  /\ credentials' = [credentials EXCEPT ![c] = [@ EXCEPT ![field] = value]]
  /\ UNCHANGED <<slots, listVars, revocationVars, transfers, recoveryVars>>

suspend_credential(c) ==
  /\ ~credentials[c].revoked
  /\ ~credentials[c].suspended
  /\ ~Expired(c)
  /\ Update(c, "suspended", TRUE)

resume_credential(c) ==
  /\ CanResume(c)
  /\ Update(c, "suspended", FALSE)

\* Also what trigger_auto_renewal does.  The new expiry must lie ahead.
renew_credential(c) ==
  /\ ~credentials[c].revoked
  /\ ~credentials[c].suspended
  /\ Update(c, "expires_at", "ahead")

\* An expiry, if there is one, must have passed (and not by more than the grace
\* period, whose length is left open here); the new one is not looked at.
renew_credential_with_grace(c, expires_at) ==
  /\ ~credentials[c].revoked
  /\ ~credentials[c].suspended
  /\ credentials[c].expires_at \in {"none", "passed"}
  /\ Update(c, "expires_at", expires_at)

\* The ledger's timestamp reaches expires_at.
Expire(c) ==
  /\ credentials[c].expires_at = "ahead"
  /\ Update(c, "expires_at", "passed")

----------------------------------------------------------------------------
(* The holder's calls. *)

\* Retires the credential without mark_credential_revoked: of the records, only the
\* older list is updated.
revoke_consent(c) ==
  LET s == credentials[c].subject IN
  /\ ~credentials[c].revoked
  /\ credentials' = [credentials EXCEPT ![c].revoked = TRUE, ![c].suspended = FALSE]
  /\ subjectCredentials' = [subjectCredentials EXCEPT ![s] = @ \ {c}]
  /\ UNCHANGED <<slots, subjectIndex, issuerIndex, revocationVars, transfers, recoveryVars>>

initiate_transfer(c, to) ==
  /\ transfers' = [transfers EXCEPT ![c] = [from |-> credentials[c].subject, to |-> to]]
  /\ UNCHANGED <<credentials, slots, listVars, revocationVars, recoveryVars>>

accept_transfer(c) ==
  LET from == credentials[c].subject
      to == transfers[c].to IN
  /\ transfers[c] # None
  /\ MoveListed(c, from, to)
  /\ MoveIndexed(c, from, to)
  /\ credentials' = [credentials EXCEPT ![c].subject = to]
  /\ transfers' = [transfers EXCEPT ![c] = None]
  /\ UNCHANGED <<slots, issuerIndex, revocationVars, recoveryVars>>

rotate_credential_holder_key(c, to) ==
  LET from == credentials[c].subject IN
  /\ to # from
  /\ credentials' = [credentials EXCEPT ![c].subject = to]
  /\ MoveIndexed(c, from, to)
  /\ UNCHANGED <<slots, subjectCredentials, issuerIndex, revocationVars, transfers, recoveryVars>>

\* Mutant of is_revoked: what is cached is whether the credential is usable.
is_revoked_or_suspended(c) ==
  /\ revocationCache[c] = None
  /\ revocationCache' =
       [revocationCache EXCEPT ![c] = credentials[c].revoked \/ credentials[c].suspended]
  /\ UNCHANGED <<credentials, slots, listVars, revocationLog, revokedCount, transfers, recoveryVars>>

\* Anyone's call; it writes only on a cache miss.
is_revoked(c) ==
  /\ revocationCache[c] = None
  /\ revocationCache' = [revocationCache EXCEPT ![c] = credentials[c].revoked]
  /\ UNCHANGED <<credentials, slots, listVars, revocationLog, revokedCount, transfers, recoveryVars>>

----------------------------------------------------------------------------
(* Recovery of a credential whose holder lost their key. *)

initiate_recovery(c, to, k) ==
  LET r == Len(recoveries) + 1 IN
  /\ r \in RecoveryId
  /\ ~credentials[c].revoked
  /\ ~credentials[c].suspended
  /\ credentialRecovery[c] = None
  /\ recoveries' = Append(recoveries,
       [credential_id |-> c, new_subject |-> to, threshold |-> k,
        status |-> "Pending", approvals |-> {}])
  /\ credentialRecovery' = [credentialRecovery EXCEPT ![c] = r]
  /\ UNCHANGED <<credentials, slots, listVars, revocationVars, transfers>>

approve_recovery(a, r) ==
  LET approvals == recoveries[r].approvals \cup {a} IN
  /\ recoveries[r].status = "Pending"
  /\ a \notin recoveries[r].approvals
  /\ recoveries' = [recoveries EXCEPT
       ![r].approvals = approvals,
       ![r].status = IF Cardinality(approvals) >= recoveries[r].threshold THEN "Approved" ELSE @]
  /\ UNCHANGED <<credentials, slots, listVars, revocationVars, transfers, credentialRecovery>>

\* Mutant of CloseRecovery: the credential keeps pointing at the closed request.
CloseRecoveryOnly(r, status) ==
  /\ recoveries' = [recoveries EXCEPT ![r].status = status]
  /\ UNCHANGED credentialRecovery

CloseRecovery(r, status) ==
  /\ recoveries' = [recoveries EXCEPT ![r].status = status]
  /\ credentialRecovery' = [credentialRecovery EXCEPT ![recoveries[r].credential_id] = None]

execute_recovery(r) ==
  LET c == recoveries[r].credential_id
      from == credentials[c].subject
      to == recoveries[r].new_subject
      newSlot == <<to, credentials[c].issuer, credentials[c].type>> IN
  /\ recoveries[r].status = "Approved"
  /\ MoveListed(c, from, to)
  /\ slots' = [[slots EXCEPT ![SlotOf(c)] = None] EXCEPT ![newSlot] = c]
  /\ credentials' = [credentials EXCEPT ![c].subject = to]
  /\ CloseRecovery(r, "Executed")
  /\ UNCHANGED <<subjectIndex, issuerIndex, revocationVars, transfers>>

cancel_recovery(r) ==
  /\ recoveries[r].status \in {"Pending", "Approved"}
  /\ CloseRecovery(r, "Rejected")
  /\ UNCHANGED <<credentials, slots, listVars, revocationVars, transfers>>

----------------------------------------------------------------------------
Init ==
  /\ credentials = << >>
  /\ slots = [k \in Slot |-> None]
  /\ subjectCredentials = [s \in Subjects |-> {}]
  /\ subjectIndex = [s \in Subjects |-> None]
  /\ issuerIndex = [i \in Issuers |-> {}]
  /\ revocationCache = [c \in CredentialId |-> None]
  /\ revocationLog = [c \in CredentialId |-> 0]
  /\ revokedCount = 0
  /\ transfers = [c \in CredentialId |-> None]
  /\ recoveries = << >>
  /\ credentialRecovery = [c \in CredentialId |-> None]

IssuerCall ==
  \/ \E i \in Issuers, s \in Subjects, t \in Types, e \in Expiry : issue_credential(i, s, t, e)
  \/ \E i \in Issuers, C \in SUBSET Issued : batch_revoke(i, C)
  \/ \E c \in Issued : \/ revoke_credential(c)
                       \/ suspend_credential(c)
                       \/ resume_credential(c)
                       \/ renew_credential(c)
                       \/ \E e \in {"ahead", "passed"} : renew_credential_with_grace(c, e)
                       \/ Expire(c)

HolderCall ==
  \E c \in Issued :
    \/ revoke_consent(c)
    \/ accept_transfer(c)
    \/ is_revoked(c)
    \/ \E to \in Recipients : initiate_transfer(c, to) \/ rotate_credential_holder_key(c, to)

RecoveryCall ==
  \/ \E c \in Issued, to \in Recipients, k \in Thresholds : initiate_recovery(c, to, k)
  \/ \E r \in DOMAIN recoveries :
       \/ \E a \in Approvers : approve_recovery(a, r)
       \/ execute_recovery(r)
       \/ cancel_recovery(r)

Next == IssuerCall \/ HolderCall \/ RecoveryCall

Spec == Init /\ [][Next]_vars

----------------------------------------------------------------------------
(* Properties that hold. *)

(* Type invariant: every record has its type, the counter of revoked       *)
(* credentials never exceeds the credentials there are, and no credential  *)
(* is logged as revoked twice whatever the calls race to retire it.        *)
LifecycleTypeOK ==
  /\ credentials \in Seq(Credential) /\ Len(credentials) <= MaxCredentials
  /\ slots \in [Slot -> CredentialId \cup {None}]
  /\ subjectCredentials \in [Subjects -> SUBSET CredentialId]
  /\ subjectIndex \in [Subjects -> {None} \cup SUBSET CredentialId]
  /\ issuerIndex \in [Issuers -> SUBSET CredentialId]
  /\ revocationCache \in [CredentialId -> BOOLEAN \cup {None}]
  /\ revocationLog \in [CredentialId -> 0..1]
  /\ revokedCount \in 0..MaxCredentials
  /\ transfers \in [CredentialId -> Transfer \cup {None}]
  /\ recoveries \in Seq(RecoveryRequest) /\ Len(recoveries) <= MaxRecoveries
  /\ credentialRecovery \in [CredentialId -> RecoveryId \cup {None}]

(* A revocation through mark_credential_revoked is recorded everywhere and *)
(* for good: such a credential stays revoked, is_revoked answers true      *)
(* whatever it cached before, the issuer's index drops it and nothing      *)
(* brings it back, and the counter equals the number of logs.  A live      *)
(* credential is in its issuer's index.  (One that its holder retired with *)
(* revoke_consent is neither: it is not logged, and stays in the index.)   *)
RevocationRecorded ==
  /\ \A c \in Issued : revocationLog[c] > 0 =>
       /\ credentials[c].revoked
       /\ IsRevokedAnswer(c)
       /\ \A i \in Issuers : c \notin issuerIndex[i]
  /\ \A c \in Issued : ~credentials[c].revoked => c \in issuerIndex[credentials[c].issuer]
  /\ revokedCount = Cardinality({c \in Issued : revocationLog[c] > 0})

(* is_revoked never reports a live credential as revoked.                  *)
NoFalseRevocation == \A c \in Issued : IsRevokedAnswer(c) => credentials[c].revoked

Recovered ==
  {recoveries[r].credential_id : r \in {q \in DOMAIN recoveries : recoveries[q].status = "Executed"}}

(* get_credentials_by_subject returns a live credential for its current    *)
(* subject and for nobody else, through every sequence of transfers and    *)
(* key rotations, as long as no recovery moved the credential.             *)
HolderLookupExact ==
  \A c \in Issued \ Recovered : ~credentials[c].revoked =>
    \A s \in Subjects : c \in get_credentials_by_subject(s) <=> s = credentials[c].subject

(* At most one recovery is open per credential, and it is the one          *)
(* CredentialRecovery names, through every order of initiate, approve,     *)
(* execute and cancel; an open request is Approved exactly when enough     *)
(* approvers agreed.                                                       *)
OneOpenRecovery ==
  \A r \in DOMAIN recoveries :
    LET req == recoveries[r] IN
    /\ req.status \in {"Pending", "Approved"} <=> credentialRecovery[req.credential_id] = r
    /\ req.status \in {"Approved", "Executed"} => Cardinality(req.approvals) >= req.threshold
    /\ req.status = "Pending" => Cardinality(req.approvals) < req.threshold

(* A credential that is suspended when its expiry passes stays suspended:  *)
(* resume_credential refuses it because it expired, and the renewals refuse *)
(* it because it is suspended.  Only a revocation ends the suspension.     *)
ExpiredSuspensionIsFinal ==
  [][\A c \in Issued : credentials[c].suspended /\ Expired(c) =>
       \/ credentials'[c].suspended /\ Expired(c)'
       \/ credentials'[c].revoked]_vars

(* No two live credentials share a (subject, issuer, type) slot, and each  *)
(* holds its own.  Holds as long as no credential changes its subject.     *)
NoDuplicateCredential ==
  \A c \in Issued : ~credentials[c].revoked => slots[SlotOf(c)] = c

----------------------------------------------------------------------------
(* What comments and docs say and the code does not do. *)

(* is_revoked "Returns true if the credential has been revoked."           *)
RevokedIsAnswered ==
  \A c \in Issued : credentials[c].revoked => IsRevokedAnswer(c)

(* get_credentials_by_subject "Returns all active (non-revoked) credential *)
(* IDs held by a subject."                                                 *)
HeldCredentialsReturned ==
  \A c \in Issued : ~credentials[c].revoked => c \in get_credentials_by_subject(credentials[c].subject)
=============================================================================
