# QuorumProof in TLA+

A verification development kept beside the QuorumProof contracts. It models the
core of the `quorum_proof` Soroban contract: quorum slices, delegation of slice
votes, attestation with its verification cache, multisig attestation requests,
the circuit breaker, and the life of a credential. TLC checks the modules on
small instances. TLAPS proves the central safety properties of slices, delegations
and the circuit breaker for every value of the constants.

The definitions are translated from the Rust source, and keep its names.
`PROJECT.json` maps each of them to the lines it models. The repository also has
specifications under `src/formal-verification/`; this development is independent
of them and goes into the operations, caches and indices they leave out.

## 1. The system

QuorumProof issues professional credentials on Stellar. Three contracts share
the work (`docs/architecture.md`, ADR-010): `quorum_proof` (credentials, slices,
attestations), `sbt_registry` (non-transferable tokens) and `zk_verifier`. A
TypeScript API server reads them by simulation (ADR-015), a CLI, a dashboard and
a frontend are clients.

**Execution model.** Every contract call is one transaction. A panic undoes all
of its writes and events, so a refused call is a call that did not happen: the
modules express each `assert!`, `panic!` and early return as a guard. Between
transactions the ledger time advances. The interleaving that matters is the order
of transactions of issuers, holders, attestors, delegates, slice creators, the
admin, and anybody who triggers lazy work (a cached verdict, a rollback, the
breaker's recovery). Nothing is lost or duplicated in transit, and there is no
crash between two writes of one call; what can go wrong is state one call leaves
behind and a later call trusts.

### Inventory

| Part | State | Operations | What is hard |
|---|---|---|---|
| Quorum slices | members, weights, threshold, a second member set and a stored total | create, add, remove, replace, reweight, rebalance, thresholds, suspend | thresholds that outgrow the weight; verdicts cached for the old slice |
| Slice delegation | delegation per delegator, reverse index per delegate | delegate, revoke, resolve | revocation cleans up the reverse index, expiry, removal and re-delegation do not |
| Attestation | records, captured weights, slices per credential, conditions, policies, reputation | attest, batch, renew, expiries, windows, time locks, `is_attested` | cache answers first; weights captured in one slice and summed later; forks |
| Multisig requests | request, signatures, window | request, sign, roll back | the end of the window; direct attestations in between; open for ever |
| Circuit breaker | state, activation, write count, shared pause flag | pause, degrade, resume, configure, two write guards | lazy recovery; one flag with two owners; limit and counter at the edge |
| Credential lifecycle | credential, subject list, subject index, issuer index, slot, revocation cache, log | issue, suspend, resume, renew, revoke (three ways), transfer, rotate, recover | redundant records that each operation updates differently; an expiry under a suspension |
| Revocation workflows | requests, schedules, agents, registry | request, approve, schedule, finalize, cancel | time locks, repeated finalization |
| Issuance multisig, batch issuance | requests and approvals | request, approve, issue | races with direct issue |
| Challenges, reputation, stake | challenges, votes, rounds, stake | challenge, vote, advance, slash | votes against a moving membership, ties |
| Rate limits, congestion, quotas | windows and counters | check, adjust | window boundaries |
| Veto, atomic operations, migration, upgrades | phase machines with time locks | advance, commit, roll back | expiry and partial phases |
| RBAC, admin transfer, escrows | grants, approvals | grant, revoke, release | stale approvals |
| SBT registry | owners, delegates, guardians, appeals | mint, burn, recover, clawback | recovery against burn |
| ZK verifier, BBS+, other cryptography | keys, proofs | verify | arithmetic, outside a state machine |
| API server and clients | caches, limiters, logs | queries | timeouts, failover |

The first six rows are modelled. `PROJECT.json` lists all parts with their
status, and the hazards of the code at the line where each bites.

## 2. Modules

```
QuorumSlices            slices and the cache of verdicts, abstractly
  ^ EXTENDS
SliceDelegation         + delegations, ledger time, resolve_attestor
  ^ EXTENDS             (DelegationHistory: + what was revoked, who was removed)
Attestation             + records, conditions, credential status, the real cache
  ^ EXTENDS
MultisigAttestation     + multisig requests

CircuitBreaker          breaker, admin pause, the two guards
CredentialLifecycle     credentials and their redundant records
QuorumSlices_proofs       theorems about QuorumSlices
DelegationHistory_proofs  theorems about delegations, on top of QuorumSlices_proofs
CircuitBreaker_proofs     theorems about CircuitBreaker
MC*                     instances for TLC, one .cfg per question
```

A layer EXTENDS the one below: its next-state relation contains the lower calls,
and its own actions leave the lower state alone or use the lower operators.

**QuorumSlices** (`lib.rs`, the writers of `DataKey::Slice`). `slices` is the
sequence of slices; each keeps the redundant fields the code keeps, `attestor_set`
(key `AttestorSet`) and `total_weight`. `verificationCache[c][s]` is
`AttestVerifyCache`. How a verdict comes about is left open here: `record_verdict`
stores any entry, `drop_verdicts` removes some. That makes the module an abstract
specification of the cache for the layers above. Sums saturate at `U32_MAX`, as
`saturating_add` does; percentages round up as `required_weight` does.

**SliceDelegation** has both delegation keys. `resolve_attestor` is an operator
that returns the attestor a caller acts for, or `None` where the code panics.
**DelegationHistory** adds two variables that no call reads: `revoked`, the
delegations that were revoked and not given anew, and `removed`, the members that
were removed and have not come back. They are read off the key that is the
authority on the fact (the delegation by delegator, the attestor vector), while
`resolve_attestor` decides by other keys (`DelegateOf`, `AttestorSet`); the
properties say that the two views stay together however long the history.

**Attestation** models `attest`, `batch_attest`, `renew_attestation`, the
conditions an issuer may set, and `is_attested` as the code computes it: a fresh
cache entry answers at once; otherwise revocation, suspension, expiry, deadline,
time lock and policy are looked at, captured weights are summed, quorum
intersection is required over all recorded slices, and the verdict is stored.
The action `is_attested` is the call with its write; `Answer` is what it returns.
Suspension, revocation and renewal of the credential, with and without grace, are
here as far as they touch status and cache. `mark_credential_revoked` stands for every way to revoke.

**MultisigAttestation** adds requests. Signing after the window panics, which
undoes the rollback it attempted; only `rollback_attestation_request` settles such a
request. Execution appends a record and, for a positive value, sets the approval
flag, without what `attest` does besides.

**CircuitBreaker** has the breaker's state, its activation, the counter and the
pause flag that `pause` and `unpause` share. `gated_write` stands for a call behind
`require_not_paused`, `ungated_write` for one behind `enforce_write_limit` alone. A
call that calls another guarded one passes several guards and is charged for each
(`trigger_auto_renewal` calls `renew_credential`, `process_attestation_queue` calls
`attest` per entry); `MaxGuards` bounds how many. Some mutating entry points have no
guard (`set_verification_cache_ttl`, `set_max_attestors_per_slice`,
`set_reputation_weighting_enabled`, `slash_attestor` among them): they are neither
paused nor counted, and the properties speak of guarded calls. The history variable
`written` counts the guarded calls committed since the last emergency call,
`adminPaused` is set by the admin's `pause` until `unpause` or `resume`. The other
modules do not repeat the guards: a call the breaker refuses is a call not made.

**CredentialLifecycle** keeps the five records of where a credential belongs
(subject list, optional subject index, issuer index, the (subject, issuer, type)
slot, the credential itself), the revocation cache, log and counter, pending
transfers and recoveries. An expiry is absent, ahead or passed. `renew_credential`,
which also stands for the automatic renewal, sets one that lies ahead;
`renew_credential_with_grace` is for credentials whose expiry has passed, or that
have none, and takes any new one, a past one too.

## 3. Runs

Passing runs (`tlc -workers 2 -config <cfg> <module>`):

| Run | What it shows |
|---|---|
| `slices` | Through every order of member, weight and threshold changes the threshold stays within the weight (`ThresholdAchievable`), and a threshold change or a removal of a member leaves no verdict cached for the slice (`ThresholdChangeInvalidates`). |
| `delegation` | A revoked delegate cannot act for the delegator again until it is appointed anew by that very delegator (`RevokedDelegateStaysOut`), and nobody acts in the name of a removed member until it is a member again (`RemovedMemberStaysOut`), through every later sequence of delegations, revocations, expiries, removals, returns and replacements. |
| `attest_slices` | Two overlapping slices whose thresholds rise and fall: a cached positive verdict of an absolute slice is backed by recorded weight reaching its present threshold (`ServedVerdictWasEarned`), captured weight belongs to a record and a recorded slice (`CapturedWeightOnRecord`), a revoked or suspended credential has no positive verdict (`DeadCredentialNotServed`), nobody is on record with both values (`NoEquivocation`), and the layer implements `SliceSpec`. |
| `attest_members` | Members, delegates and batches while weights, thresholds and memberships change: cached verdicts stay earned (`ServedVerdictWasEarned`), no pair of slice and attestor is counted twice (`AttestPairsCountedOnce`), captured weight never changes (`CapturedWeightImmutable`), nobody is on record with both values (`NoEquivocation`), reputation stays in 0..100 (`AttestationTypeOK`). |
| `attest_time` | Expiries, renewals with and without grace, deadlines, windows, time locks and cache lifetimes: a positive answer outlives a deadline by less than one cache lifetime (`StalenessBounded`), and a revoked or suspended credential has no positive verdict (`DeadCredentialNotServed`). |
| `multisig` | Executions had their signatures, rollbacks their elapsed window (`OutcomeIsEarned`), approval comes from an executed positive request (`ApprovalIsEarned`), outcomes are final and after the window an open request can only be rolled back (`OutcomeIsFinal`), and every request is executed or rolled back in the end (`RequestsAreSettled`). |
| `breaker` | The counter is never behind the guarded calls committed, nor ahead of them by more than nested guards explain (`DegradedWritesAreCounted`), the cap holds through reconfiguration (`DegradedWritesCapped`), whenever the flag is set the admin's pause or an activation stands behind it (`PauseHasAnOwner`), a due recovery happens (`BreakerRecovers`). |
| `lifecycle` | One credential: a revocation by the issuer is recorded everywhere and for good (`RevocationRecorded`), none is reported falsely (`NoFalseRevocation`), the lookup by subject finds a live credential for its holder and nobody else through transfers and rotations (`HolderLookupExact`), at most one recovery is open and it is approved by enough approvers (`OneOpenRecovery`), an expired suspension ends only in revocation (`ExpiredSuspensionIsFinal`). |
| `issuance` | Three credentials without change of holder: no two live ones share a slot (`NoDuplicateCredential`). |

Each property also has a mutant in `PROJECT.json`: a plausible slip in one mapped
definition under which the same run finds the property violated.

### Disagreements with comments and docs

Three runs check what a comment or a document says, and TLC finds it violated by
what the code does. `PROJECT.json` quotes the lines.

| Run | Said | Done |
|---|---|---|
| `stale_required_weight` | slice changes, weight updates included, drop cached verdicts | weight changes and new members do not |
| `revoked_answer` | true once the credential is revoked | `revoke_consent` leaves a cached false, which never expires |
| `recovered_lookup` | all active credentials a subject holds are returned | recovery does not move the credential in the index that the lookup prefers |

Modelling met more of the kind. They have no run; the models have the behaviour
of the code.

* `is_attested` "returns false if the credential is revoked, suspended, or expired"
  (`lib.rs:12132`). The cache answers first (`lib.rs:12139`), so an expired one is
  served until the entry's lifetime ends; `StalenessBounded` says how long.
* Thresholds are to be greater than 0 (`lib.rs:10029`). Weights of 0 pass
  `reweight_slice`, and `remove_attestor` then clamps the threshold to the total.
* `resolve_attestor` "returns the delegator if caller is a delegate"
  (`lib.rs:10320`). After re-delegation the former delegate still resolves, because
  the delegation in force is not compared with the caller. After
  `replace_attestor` the replaced member still resolves: `AttestorSet` is not updated.
  So `RevokedDelegateStaysOut` is about delegates that were revoked, not superseded, and
  `RemovedMemberStaysOut` about members that were removed, not replaced.
* A time-locked attestation is "not yet active" (`lib.rs:12163`). Setting the lock
  does not drop the cached verdict. Nor does an attestation in a second slice drop
  the verdict of the first, whose intersection check it may make fail (ADR-006).
* `is_attested` sums weights over records. An attestor with a record from
  `batch_attest`, which captures no weight, may attest once more and then counts
  twice (ADR-012 speaks of a sum over attestors).
* Only `attest` writes the attestation count. Records of `batch_attest` and of
  executed multisig requests are not in it, so `is_attested_by_count` may see fewer.
* The independence check of `attest` looks at the caller and not at the delegator it
  resolves to; `batch_attest` and multisig execution do not check (ADR-009).
* A multisig request is "executed automatically" when the threshold is met
  (`lib.rs:11896`); it is compared only on a further signature. Execution is not
  "the standard attest path" (`lib.rs:11961`): there is no fork check.
* The admin's `pause` does not "auto-recover" (`docs/disaster-recovery.md:86`). It
  shares its flag with the breaker, whose recovery clears it with its own pause. `emergency_pause`
  "blocks all mutating calls" (line 85); those behind `enforce_write_limit` commit.
  The cap of degraded mode is not "per ledger" (`circuit_breaker.rs:21`); the count
  starts anew only with an activation.
* After a transfer or rotation the (subject, issuer, type) slot stays with the old
  subject, so the new one can be issued a duplicate (`lib.rs:6967`). Recovery leaves
  the subject index behind, contrary to `lib.rs:8135`.
* `revoke_consent` updates only the older list. A credential that its holder retired
  stays in the issuer's index, which is to count "non-revoked credentials"
  (`lib.rs:20508`), and in the subject's, which is to return non-revoked ones
  (`API.md:280`). `RevocationRecorded` is about revocations by
  `mark_credential_revoked`, and `HolderLookupExact` about live credentials.
* `accept_transfer` takes a proposal of a former holder (`lib.rs:8064`), and
  `execute_recovery` does not look again whether the credential was revoked
  (`lib.rs:16014`).

### Bounds

Named bounds cap what grows: `MaxSliceCount`, `MaxRecords`, `MaxRequests`,
`MaxTime`, `MaxCacheExpiry`, `MaxWrites`, `MaxGuards`, `MaxCredentials`,
`MaxRecoveries`; `GracePeriod` is the grace of the one credential type. The
sets of inputs (`NewWeights`, `NewThresholds`, `Windows`, ...) are constants of the
modules, and each configuration opens those its question is about and leaves the
others empty.

* Three or four addresses: two members, a delegate or newcomer, an outsider. The
  confusions of identity here are between at most three addresses (delegator, old
  delegate, new delegate).
* One or two slices: quorum intersection needs two; every other rule is per slice.
* One credential, except where credentials compete for a slot (three) or a slice
  change has to reach several cached credentials (two).
* Weights 0, 1, 2, 3 and `U32_MAX` (1000 in the instances) reach the clamp, the
  saturated sum and the requirement of zero. Thresholds 1 and 60 are each valid as
  a count of weight or as a percentage, but not always as the former. The attestation
  runs move a threshold between 1 and 2, up after a verdict and down again, and
  `attest_members` a weight between 1 and 2.
* Members leave and come back in `delegation` and `attest_members` (the newcomer is a
  former member). `attest_slices` has the members fixed by its two slices, which lose
  some.
* One list of required signers in `multisig`, a member and an outsider; either member
  may initiate, so the initiator is among the signers or not.
* Time up to 2, 3 or 4 with deadlines strictly inside, so that before, at and after
  each deadline occur, and the cache lifetime can straddle it.
* Two holders, two recoveries and two requests, the least that can overlap. Symmetry
  is used for holders and approvers, which no definition tells apart.

Deadlock is checked in every run. Time stops at `MaxTime` in a model, but some call
is always possible there.

### Fairness

Two liveness properties use weak fairness. Ledgers keep closing (`Tick`).
`rollback_attestation_request` may be called by anyone and is not guarded by a role;
the assumption is that somebody who waits for the request does call it.
`get_circuit_breaker_state` performs the recovery and is a public query; it does so
only when it is submitted as a transaction, since a simulated read, as the API
server makes it (ADR-015), commits nothing. The assumption is that somebody submits it,
or some guarded call, which recovers the breaker as well. No signer, attestor, issuer or admin is assumed to act.
`RequestsAreSettled` speaks of requests whose window ends within the modelled time.

## 4. Proofs

Checked with `tlapm` on `CircuitBreaker_proofs.tla`, `QuorumSlices_proofs.tla` and
`DelegationHistory_proofs.tla`.

**CircuitBreaker**, for every bound, default and set of configurations with natural
times and limits. `BreakerInvariant` is the inductive invariant: the types with
the link between state and activation, the agreement of the counter with the
committed calls in degraded mode, and the owner of the pause. The link is what makes
`check_and_recover` leave no activation behind, and it clears the flag together with
the activation, so that no pause loses its owner. The code compares its own counter
with the limit, while the cap is about calls that were committed, so the agreement of
the two has to be carried along: an activation resets both, a call raises the counter by
its guards and so by at least one. From it follow `BreakerTypes`, `CountedWrites`,
`PauseOwned`, and the action property `CappedWrites`.

**QuorumSlices**, for any finite or infinite sets of addresses, credentials, inputs
and any `U32_MAX`. `SliceTypes` is inductive as stated: each slice has at least one
attestor and one weight per attestor, which is what every index into `weights` rests
on. The proof has one lemma per operation. `ThresholdChanges` proves
`ThresholdChangeInvalidates` from it: an operation either keeps threshold, kind and
number of members (`Kept`) or drops every verdict of the slice (`NoVerdicts`); the
lemmas `QuietOp` and `LoudOp` sort the operations, and `KeptOrDropped` combines them.

**DelegationHistory**, for any sets of addresses, delegates and expiries.
`HistoryInvariant` proves three things together. `DelegationTypeOK` says among others
that nobody is their own delegate. `RevokedInv` says that for a revoked triple of slice,
delegator and delegate the reverse index of the delegate does not name the delegator:
`resolve_attestor` looks at the index and at the delegator's present delegation
separately, so without it a later delegation to somebody else would revive the old
delegate. `RemovedInv` says that a removed member is not in `AttestorSet`, which is what
`resolve_attestor` goes by, while `removed` is kept from the attestor vector; the lemmas `StoreInStep` to `SliceInStep` show for each slice operation
that what it does to one it does to the other, as far as removals and returns go. From
it follow `DelegationTypes`, `RevocationLasts` and `RemovalLasts`.

The assumptions are the named `ASSUME`s of the modules, which TLC evaluates in
each run.

**Only model-checked.** `ThresholdAchievable` needs facts about sums over sequences
that rest on induction over data, which the installed provers cannot instantiate.
Liveness stays with TLC as well. The properties of Attestation,
MultisigAttestation and CredentialLifecycle are not proved yet.

## 5. Not modelled

Authentication is taken as given: the caller of an action is who it says.
Storage lifetimes (`extend_ttl`) are left out, as are events, holder activity logs
and metrics, which no modelled decision reads. `resolve_fork` needs fork information
that is written only on a path that panics, so it never runs. Nested slices are never
written, so the intersection check runs over the recorded slices. Attestation
metadata and the separate cache of threshold proofs are left out. Records are not
removed here: `vote_on_challenge` does remove the records of an attestor it finds
against, and `ServedVerdictWasEarned` and `CapturedWeightOnRecord` are shown for
histories without such a challenge. The parts without a module are listed with
the reason in `PROJECT.json`.

## 6. Plan

1. Attestation: removal of records by challenges (module
   Challenges on Attestation: votes, rounds, reputation, stake, suspension; that a
   challenge is decided once and by members' weight).
2. Lifecycle: RevocationWorkflow on CredentialLifecycle (holder request, schedule,
   finalize, cancel, agents, registry); batch and multisig issuance and the slot.
3. The phase machines: veto, atomic operations, migration, upgrade schedule; key
   escrow, admin transfer, roles; rate limiting with congestion control.
4. SBT registry: mint, burn, guardian recovery, clawback, appeals, with an abstract
   specification of ownership that the registry implements.
5. ZK verifier's request state; the API server's breakers and failover.
6. Proofs: `DeadCredentialNotServed` (strengthened by: positive verdicts exist only
   for slices that exist), `CapturedWeightImmutable`, `AttestationSpec => SliceSpec`,
   `OneOpenRecovery`, `OutcomeIsFinal`.
