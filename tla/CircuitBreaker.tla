--------------------------- MODULE CircuitBreaker ---------------------------
(***************************************************************************)
(* The circuit breaker of the quorum_proof contract and the admin's pause  *)
(* flag, as the guarded entry points meet them: through require_not_paused *)
(* or through enforce_write_limit.  Not every mutating entry point has a   *)
(* guard: set_verification_cache_ttl, set_max_attestors_per_slice,         *)
(* set_reputation_weighting_enabled and slash_attestor, for instance, are  *)
(* neither paused nor counted.  They touch nothing that is kept here, and  *)
(* the writes this module speaks of are the guarded calls.                 *)
(*                                                                         *)
(* A guarded call may call another one: trigger_auto_renewal calls         *)
(* renew_credential, issue_with_consent and issue_bbs_credential call      *)
(* issue_credential, and process_attestation_queue calls attest once per   *)
(* entry.  It then passes a guard, and is charged, more than once.         *)
(*                                                                         *)
(* A call that is refused panics and leaves nothing behind, the automatic  *)
(* recovery and the counted write included; so only calls that get past    *)
(* the guards are actions, and what they go on to do is other modules'.    *)
(***************************************************************************)
EXTENDS Integers

CONSTANTS
  MaxTime,     \* bound: last ledger timestamp
  MaxWrites,   \* bound: writes counted by the history variable
  MaxGuards,   \* bound: guards that one call passes
  DefaultConfig,  \* the configuration in force until the admin sets one
  Configs,     \* configurations that the admin sets
  None         \* an absent storage key

Config == [ttl_seconds : Nat, degraded_write_limit : Nat, auto_recover : BOOLEAN]

ASSUME BreakerConstants ==
  /\ MaxTime \in Nat
  /\ MaxWrites \in Nat
  /\ MaxGuards \in Nat \ {0}
  /\ DefaultConfig \in Config
  /\ Configs \subseteq Config
  /\ None \notin [state : {"Degraded", "Paused"}, auto_recover_at : Nat]

VARIABLES
  now,         \* timestamp of the ledger that is open
  state,       \* CircuitBreakerState
  activation,  \* CircuitBreakerActivation
  config,      \* CircuitBreakerConfig
  paused,      \* DataKey::Paused, shared with the admin's pause and unpause
  writeCount,  \* CircuitBreakerDegradedWriteCount
  \* History, which no call reads:
  written,     \* guarded calls committed since the last emergency call
  adminPaused  \* the admin has paused and not lifted it, by unpause or resume

vars == <<now, state, activation, config, paused, writeCount, written, adminPaused>>

Activation == [state : {"Degraded", "Paused"}, auto_recover_at : Nat]

----------------------------------------------------------------------------
(* The admin's calls. *)

Activate(newState) ==
  /\ activation' = [state |-> newState, auto_recover_at |-> now + config.ttl_seconds]
  /\ state' = newState
  /\ written' = 0
  /\ UNCHANGED <<now, config, adminPaused>>

emergency_pause ==
  /\ Activate("Paused")
  /\ paused' = TRUE
  /\ UNCHANGED writeCount

\* Mutant of emergency_degrade: the writes of an earlier activation still count.
emergency_degrade_again ==
  /\ Activate("Degraded")
  /\ UNCHANGED <<paused, writeCount>>

\* Does not touch the pause flag.
emergency_degrade ==
  /\ Activate("Degraded")
  /\ writeCount' = 0
  /\ UNCHANGED paused

resume ==
  /\ activation' = None
  /\ state' = "Normal"
  /\ writeCount' = 0
  /\ paused' = FALSE
  /\ adminPaused' = FALSE
  /\ UNCHANGED <<now, config, written>>

set_circuit_breaker_config(new) ==
  /\ config' = new
  /\ UNCHANGED <<now, state, activation, paused, writeCount, written, adminPaused>>

pause ==
  /\ paused' = TRUE
  /\ adminPaused' = TRUE
  /\ UNCHANGED <<now, state, activation, config, writeCount, written>>

unpause ==
  /\ paused' = FALSE
  /\ adminPaused' = FALSE
  /\ UNCHANGED <<now, state, activation, config, writeCount, written>>

----------------------------------------------------------------------------
(* Guarded calls. *)

RecoveryDue ==
  /\ config.auto_recover
  /\ state # "Normal"
  /\ activation # None
  /\ now >= activation.auto_recover_at

\* Mutant of check_and_recover: the activation is left behind.
recover_state_only ==
  IF RecoveryDue
  THEN state' = "Normal" /\ paused' = FALSE /\ writeCount' = 0 /\ UNCHANGED activation
  ELSE UNCHANGED <<state, activation, paused, writeCount>>

\* Mutant of check_and_recover: the flag is taken down only if the breaker is
\* in the Paused state.
recover_own_pause ==
  IF RecoveryDue
  THEN /\ state' = "Normal" /\ activation' = None /\ writeCount' = 0
       /\ paused' = (paused /\ state # "Paused")
  ELSE UNCHANGED <<state, activation, paused, writeCount>>

check_and_recover ==
  IF RecoveryDue
  THEN state' = "Normal" /\ activation' = None /\ paused' = FALSE /\ writeCount' = 0
  ELSE UNCHANGED <<state, activation, paused, writeCount>>

\* Mutant of WithinLimit: the write that reaches the limit is let through twice.
WithinLimitInclusive(guards) == writeCount + guards <= config.degraded_write_limit + 1

\* Each guard counts before it compares: count + 1 > limit is refused.  The last
\* of them decides.
WithinLimit(guards) == writeCount + guards <= config.degraded_write_limit

\* Degraded, and still so after the recovery check: each guard takes a slot.
enforce_degraded_write_limit(guards) ==
  /\ WithinLimit(guards)
  /\ writeCount' = writeCount + guards
  /\ UNCHANGED <<state, activation, paused>>

\* What a call that passes that many guards does to the breaker.  The first
\* guard recovers it if that is due; then there is nothing left to count.
enforce_write_limit(guards) ==
  IF state = "Degraded" /\ ~RecoveryDue
  THEN enforce_degraded_write_limit(guards)
  ELSE check_and_recover

\* One of the guards is require_not_paused.
require_not_paused(guards) ==
  /\ paused => RecoveryDue
  /\ enforce_write_limit(guards)

CommitWrite ==
  /\ written < MaxWrites
  /\ written' = written + 1
  /\ UNCHANGED <<now, config, adminPaused>>

\* Every call that nests another guarded call nests one with require_not_paused.
gated_write == \E guards \in 1..MaxGuards : require_not_paused(guards) /\ CommitWrite

\* A call guarded by enforce_write_limit alone: open while the contract is paused.
ungated_write == enforce_write_limit(1) /\ CommitWrite

get_circuit_breaker_state ==
  /\ check_and_recover
  /\ UNCHANGED <<now, config, written, adminPaused>>

\* The next ledger has a later timestamp.
Tick ==
  /\ now < MaxTime
  /\ now' = now + 1
  /\ UNCHANGED <<state, activation, config, paused, writeCount, written, adminPaused>>

----------------------------------------------------------------------------
Init ==
  /\ now = 0
  /\ state = "Normal"
  /\ activation = None
  /\ config = DefaultConfig
  /\ paused = FALSE
  /\ writeCount = 0
  /\ written = 0
  /\ adminPaused = FALSE

AdminCall ==
  \/ emergency_pause
  \/ emergency_degrade
  \/ resume
  \/ \E new \in Configs : set_circuit_breaker_config(new)
  \/ pause
  \/ unpause

Next ==
  \/ AdminCall
  \/ gated_write
  \/ ungated_write
  \/ get_circuit_breaker_state
  \/ Tick

Spec == Init /\ [][Next]_vars

\* Ledgers keep closing, and the state of the breaker keeps being asked for.
FairSpec == Spec /\ WF_vars(Tick) /\ WF_vars(get_circuit_breaker_state)

----------------------------------------------------------------------------
(* Properties. *)

\* Types, and: the breaker is out of Normal exactly while an activation is
\* stored, and the activation says how.  Otherwise check_and_recover would
\* never bring the contract back.
BreakerTypeOK ==
  /\ now \in 0..MaxTime
  /\ state \in {"Normal", "Degraded", "Paused"}
  /\ activation \in Activation \cup {None}
  /\ state = IF activation = None THEN "Normal" ELSE activation.state
  /\ config \in Config
  /\ paused \in BOOLEAN
  /\ writeCount \in Nat
  /\ written \in 0..MaxWrites
  /\ adminPaused \in BOOLEAN

\* The counter agrees with the guarded calls that were committed since the
\* contract was degraded, with pauses, configuration changes, recoveries and
\* nested calls in any order.  It never runs behind them, so the cap cannot be
\* slipped under; and every slot it has given away was taken by a committed
\* call, so neither an earlier activation nor a refused call uses up the budget.
DegradedWritesAreCounted ==
  state = "Degraded" => written <= writeCount /\ writeCount <= MaxGuards * written

\* In Degraded mode no guarded call is committed beyond the limit in force,
\* however often the admin changes the limit: lowering it below what was already
\* written stops them all, and only a new activation gives a new budget.
DegradedWritesCapped ==
  [][state = "Degraded" /\ state' = "Degraded" /\ activation' = activation /\ written' > written
     => written' <= config.degraded_write_limit]_vars

\* Nobody is shut out by a pause that no one is answerable for.  The flag has two
\* owners, who set and clear it in any order; whenever it is set, either the admin
\* has paused and not lifted it, or an activation is in place, whose recovery or
\* resumption takes the flag down.
PauseHasAnOwner == paused => adminPaused \/ activation # None

\* An activation that has a date for automatic recovery does not outlive it
\* for ever: the breaker recovers, or the admin resumes, activates it anew or
\* switches automatic recovery off.
BreakerRecovers ==
  \A t \in 0..MaxTime :
    activation # None /\ activation.auto_recover_at = t /\ config.auto_recover
      ~> activation = None \/ activation.auto_recover_at # t \/ ~config.auto_recover
=============================================================================
