----------------------- MODULE CircuitBreaker_proofs -----------------------
(***************************************************************************)
(* The safety properties of CircuitBreaker for every configuration, every  *)
(* bound on time and every number of writes.                               *)
(*                                                                         *)
(* The cap is about calls that were committed, while the code compares its *)
(* own counter with the limit; so the argument rests on the invariant that *)
(* in Degraded mode the counter does not run behind the calls.  Type       *)
(* correctness is proved first: it ties the stored activation to the       *)
(* state, and gives the counters their types.  The same tie shows that a   *)
(* pause always has an owner: a recovery clears flag and activation        *)
(* together.                                                               *)
(***************************************************************************)
EXTENDS CircuitBreaker, TLAPS

BreakerInv == BreakerTypeOK /\ DegradedWritesAreCounted /\ PauseHasAnOwner

(* The initial state of the breaker satisfies the invariant.               *)
LEMMA InitBreaker == Init => BreakerInv
<1> SUFFICES ASSUME Init PROVE BreakerInv
  OBVIOUS
<1>1. now \in 0..MaxTime /\ writeCount \in Nat /\ written \in 0..MaxWrites
  BY BreakerConstants DEF Init
<1>2. paused \in BOOLEAN /\ adminPaused \in BOOLEAN
  BY Zenon DEF Init
<1>3. BreakerTypeOK
  BY <1>1, <1>2, BreakerConstants DEF Init, BreakerTypeOK
<1>4. DegradedWritesAreCounted
  BY DEF Init, DegradedWritesAreCounted
<1>5. PauseHasAnOwner
  BY DEF Init, PauseHasAnOwner
<1> QED
  BY <1>3, <1>4, <1>5 DEF BreakerInv

(* Each of the admin's calls keeps the type invariant: an activation and   *)
(* its state are written together, and resume clears both.                 *)
LEMMA AdminCallType == BreakerTypeOK /\ AdminCall => BreakerTypeOK'
<1> SUFFICES ASSUME BreakerTypeOK, AdminCall PROVE BreakerTypeOK'
  OBVIOUS
<1> USE BreakerConstants DEF BreakerTypeOK, Activation, Config
<1>1. CASE emergency_pause
  BY <1>1 DEF emergency_pause, Activate
<1>2. CASE emergency_degrade
  BY <1>2 DEF emergency_degrade, Activate
<1>3. CASE resume
  BY <1>3 DEF resume
<1>4. CASE \E new \in Configs : set_circuit_breaker_config(new)
  BY <1>4 DEF set_circuit_breaker_config
<1>5. CASE pause \/ unpause
  BY <1>5, Zenon DEF pause, unpause
<1> QED
  BY <1>1, <1>2, <1>3, <1>4, <1>5 DEF AdminCall

(* A recovery check keeps the part of the type invariant it can disturb.   *)
LEMMA RecoveryType ==
  ASSUME BreakerTypeOK, check_and_recover
  PROVE  /\ state' \in {"Normal", "Degraded", "Paused"}
         /\ activation' \in Activation \cup {None}
         /\ state' = IF activation' = None THEN "Normal" ELSE activation'.state
         /\ paused' \in BOOLEAN
         /\ writeCount' \in Nat
<1>1. CASE RecoveryDue
  <2>1. state' = "Normal" /\ activation' = None /\ paused' = FALSE /\ writeCount' = 0
    BY <1>1 DEF check_and_recover
  <2> QED
    BY <2>1
<1>2. CASE ~RecoveryDue
  <2>1. UNCHANGED <<state, activation, paused, writeCount>>
    BY <1>2 DEF check_and_recover
  <2> QED
    BY <2>1 DEF BreakerTypeOK
<1> QED
  BY <1>1, <1>2

(* So do the guards of every write, however many the call passes.          *)
LEMMA WriteType ==
  ASSUME BreakerTypeOK, NEW guards \in Nat, enforce_write_limit(guards), CommitWrite
  PROVE  BreakerTypeOK'
<1>1. /\ state' \in {"Normal", "Degraded", "Paused"}
      /\ activation' \in Activation \cup {None}
      /\ state' = IF activation' = None THEN "Normal" ELSE activation'.state
      /\ paused' \in BOOLEAN
      /\ writeCount' \in Nat
  <2>1. CASE state = "Degraded" /\ ~RecoveryDue
    BY <2>1 DEF BreakerTypeOK, enforce_write_limit, enforce_degraded_write_limit
  <2>2. CASE ~(state = "Degraded" /\ ~RecoveryDue)
    BY <2>2, RecoveryType DEF enforce_write_limit
  <2> QED
    BY <2>1, <2>2
<1> QED
  BY <1>1, BreakerConstants DEF BreakerTypeOK, CommitWrite

(* A committed write of either kind has passed at least one guard and at   *)
(* most MaxGuards.                                                         *)
LEMMA CommittedWrite ==
  ASSUME gated_write \/ ungated_write
  PROVE  \E guards \in Nat : /\ guards >= 1
                             /\ guards <= MaxGuards
                             /\ enforce_write_limit(guards)
                             /\ CommitWrite
<1>1. CASE gated_write
  <2>1. PICK guards \in 1..MaxGuards : require_not_paused(guards) /\ CommitWrite
    BY <1>1 DEF gated_write
  <2>2. guards \in Nat /\ guards >= 1 /\ guards <= MaxGuards
    BY <2>1, BreakerConstants
  <2> QED
    BY <2>1, <2>2 DEF require_not_paused
<1>2. CASE ungated_write
  <2>1. 1 \in Nat /\ 1 >= 1 /\ 1 <= MaxGuards
    BY BreakerConstants
  <2> QED
    BY <1>2, <2>1 DEF ungated_write
<1> QED
  BY <1>1, <1>2

(* Every step keeps the type invariant.                                    *)
LEMMA NextType == BreakerTypeOK /\ [Next]_vars => BreakerTypeOK'
<1> SUFFICES ASSUME BreakerTypeOK, [Next]_vars PROVE BreakerTypeOK'
  OBVIOUS
<1>1. CASE AdminCall
  BY <1>1, AdminCallType
<1>2. CASE gated_write \/ ungated_write
  <2>1. PICK guards \in Nat : enforce_write_limit(guards) /\ CommitWrite
    BY <1>2, CommittedWrite
  <2> QED
    BY <2>1, WriteType
<1>3. CASE get_circuit_breaker_state
  BY <1>3, RecoveryType DEF get_circuit_breaker_state, BreakerTypeOK
<1>4. CASE Tick
  BY <1>4, BreakerConstants DEF Tick, BreakerTypeOK
<1>5. CASE UNCHANGED vars
  BY <1>5 DEF vars, BreakerTypeOK
<1> QED
  BY <1>1, <1>2, <1>3, <1>4, <1>5 DEF Next

(* Every step keeps the count of degraded writes in agreement with the     *)
(* calls: a write raises the count by the guards it passed.                *)
LEMMA NextCounted == BreakerInv /\ [Next]_vars => DegradedWritesAreCounted'
<1> SUFFICES ASSUME BreakerInv, [Next]_vars PROVE DegradedWritesAreCounted'
  OBVIOUS
<1> USE DEF BreakerInv, BreakerTypeOK, DegradedWritesAreCounted
<1>1. CASE AdminCall
  <2>1. CASE emergency_pause \/ resume
    BY <2>1 DEF emergency_pause, resume, Activate
  <2>2. CASE emergency_degrade
    <3>1. writeCount' = 0 /\ written' = 0
      BY <2>2 DEF emergency_degrade, Activate
    <3> QED
      BY <3>1, BreakerConstants
  <2>3. CASE \/ pause \/ unpause
             \/ \E new \in Configs : set_circuit_breaker_config(new)
    <3>1. UNCHANGED <<state, writeCount, written>>
      BY <2>3 DEF pause, unpause, set_circuit_breaker_config
    <3> QED
      BY <3>1
  <2> QED
    BY <1>1, <2>1, <2>2, <2>3 DEF AdminCall
<1>2. CASE gated_write \/ ungated_write
  <2>1. PICK guards \in Nat : /\ guards >= 1 /\ guards <= MaxGuards
                              /\ enforce_write_limit(guards) /\ CommitWrite
    BY <1>2, CommittedWrite
  <2>2. CASE state = "Degraded" /\ ~RecoveryDue
    <3>1. writeCount' = writeCount + guards /\ written' = written + 1
      BY <2>1, <2>2 DEF enforce_write_limit, enforce_degraded_write_limit, CommitWrite
    <3>2. written \in Nat /\ MaxGuards \in Nat
      BY BreakerConstants
    <3>3. MaxGuards * (written + 1) = MaxGuards * written + MaxGuards
      BY <3>2
    <3>4. MaxGuards * written \in Nat
      BY <3>2
    <3> QED
      BY <2>1, <2>2, <3>1, <3>2, <3>3, <3>4
  <2>3. CASE ~(state = "Degraded" /\ ~RecoveryDue)
    BY <2>1, <2>3 DEF enforce_write_limit, check_and_recover
  <2> QED
    BY <2>2, <2>3
<1>3. CASE get_circuit_breaker_state
  BY <1>3 DEF get_circuit_breaker_state, check_and_recover
<1>4. CASE Tick
  BY <1>4 DEF Tick
<1>5. CASE UNCHANGED vars
  BY <1>5 DEF vars
<1> QED
  BY <1>1, <1>2, <1>3, <1>4, <1>5 DEF Next

(* Every step keeps an owner for the pause: whatever removes an activation *)
(* takes the flag down in the same call, and the admin's unpause does too. *)
LEMMA NextOwned == BreakerInv /\ [Next]_vars => PauseHasAnOwner'
<1> SUFFICES ASSUME BreakerInv, [Next]_vars, paused', ~adminPaused'
             PROVE  activation' # None
  BY Zenon DEF PauseHasAnOwner
<1>0. paused => adminPaused \/ activation # None
  BY Zenon DEF BreakerInv, PauseHasAnOwner
<1>1. CASE AdminCall
  <2>1. CASE emergency_pause \/ emergency_degrade
    <3>1. state' \in {"Degraded", "Paused"}
      BY <2>1 DEF emergency_pause, emergency_degrade, Activate
    <3>2. state' = IF activation' = None THEN "Normal" ELSE activation'.state
      BY NextType, Zenon DEF BreakerInv, BreakerTypeOK
    <3> QED
      BY <3>1, <3>2
  <2>2. CASE resume \/ pause \/ unpause
    BY <2>2, Zenon DEF resume, pause, unpause
  <2>3. CASE \E new \in Configs : set_circuit_breaker_config(new)
    <3>1. activation' = activation /\ paused' = paused /\ adminPaused' = adminPaused
      BY <2>3 DEF set_circuit_breaker_config
    <3> QED
      BY <3>1, <1>0, Zenon
  <2> QED
    BY <1>1, <2>1, <2>2, <2>3 DEF AdminCall
<1>2. CASE gated_write \/ ungated_write
  <2>1. PICK guards \in Nat : enforce_write_limit(guards) /\ CommitWrite
    BY <1>2, CommittedWrite
  <2>2. CASE UNCHANGED <<activation, paused>>
    BY <2>1, <2>2, <1>0, Zenon DEF CommitWrite
  <2>3. CASE ~paused'
    BY <2>3
  <2> QED
    BY <2>1, <2>2, <2>3, Zenon
    DEF enforce_write_limit, enforce_degraded_write_limit, check_and_recover
<1>3. CASE get_circuit_breaker_state
  BY <1>3, <1>0, Zenon DEF get_circuit_breaker_state, check_and_recover
<1>4. CASE Tick \/ UNCHANGED vars
  <2>1. activation' = activation /\ paused' = paused /\ adminPaused' = adminPaused
    BY <1>4 DEF Tick, vars
  <2> QED
    BY <2>1, <1>0, Zenon
<1> QED
  BY <1>1, <1>2, <1>3, <1>4 DEF Next

(* The inductive invariant holds in every reachable state.                 *)
THEOREM BreakerInvariant == Spec => []BreakerInv
<1>1. BreakerInv /\ [Next]_vars => BreakerInv'
  BY NextType, NextCounted, NextOwned DEF BreakerInv
<1> QED
  BY InitBreaker, <1>1, PTL DEF Spec

(* The breaker's stored state and activation always agree, so              *)
(* check_and_recover finds what it needs to recover.                       *)
THEOREM BreakerTypes == Spec => []BreakerTypeOK
<1>1. BreakerInv => BreakerTypeOK
  BY DEF BreakerInv
<1> QED
  BY <1>1, BreakerInvariant, PTL

(* The degraded write counter never runs behind the calls committed since  *)
(* emergency_degrade, and counts no slot that no committed call took.      *)
THEOREM CountedWrites == Spec => []DegradedWritesAreCounted
<1>1. BreakerInv => DegradedWritesAreCounted
  BY DEF BreakerInv
<1> QED
  BY <1>1, BreakerInvariant, PTL

(* Whenever DataKey::Paused is set, the admin's pause or an activation of  *)
(* the breaker stands behind it: check_and_recover and resume leave no     *)
(* flag behind that nothing would take down.                               *)
THEOREM PauseOwned == Spec => []PauseHasAnOwner
<1>1. BreakerInv => PauseHasAnOwner
  BY DEF BreakerInv
<1> QED
  BY <1>1, BreakerInvariant, PTL

(* While the contract stays degraded, enforce_degraded_write_limit commits *)
(* no guarded call beyond the limit in force at that call.                 *)
THEOREM CappedWrites == Spec => DegradedWritesCapped
<1> DEFINE Capped ==
      state = "Degraded" /\ state' = "Degraded" /\ activation' = activation /\ written' > written
      => written' <= config.degraded_write_limit
<1>1. BreakerInv /\ [Next]_vars => [Capped]_vars
  <2> SUFFICES ASSUME BreakerInv, Next,
                      state = "Degraded", state' = "Degraded",
                      activation' = activation, written' > written
               PROVE  written' <= config.degraded_write_limit
    BY DEF Capped
  <2> USE DEF BreakerInv, BreakerTypeOK, DegradedWritesAreCounted
  <2>1. CASE AdminCall
    BY <2>1 DEF AdminCall, emergency_pause, emergency_degrade, resume, pause, unpause,
                set_circuit_breaker_config, Activate
  <2>2. CASE gated_write \/ ungated_write
    <3>1. PICK guards \in Nat : guards >= 1 /\ enforce_write_limit(guards) /\ CommitWrite
      BY <2>2, CommittedWrite
    <3>2. CASE ~RecoveryDue
      <4>1. writeCount + guards <= config.degraded_write_limit /\ written' = written + 1
        BY <3>1, <3>2 DEF enforce_write_limit, enforce_degraded_write_limit, WithinLimit, CommitWrite
      <4>2. written <= writeCount
        OBVIOUS
      <4>3. config.degraded_write_limit \in Nat /\ writeCount \in Nat /\ written \in Nat
        BY BreakerConstants DEF Config
      <4> QED
        BY <3>1, <4>1, <4>2, <4>3
    <3>3. CASE RecoveryDue
      BY <3>1, <3>3 DEF enforce_write_limit, check_and_recover
    <3> QED
      BY <3>2, <3>3
  <2>3. CASE get_circuit_breaker_state \/ Tick
    BY <2>3 DEF get_circuit_breaker_state, Tick
  <2> QED
    BY <2>1, <2>2, <2>3 DEF Next
<1> QED
  BY <1>1, BreakerInvariant, PTL DEF Spec, DegradedWritesCapped
=============================================================================
