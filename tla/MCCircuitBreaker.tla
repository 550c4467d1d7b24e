-------------------------- MODULE MCCircuitBreaker --------------------------
(* Small instances of CircuitBreaker for TLC. *)
EXTENDS CircuitBreaker

MCDefaultConfig == [ttl_seconds |-> 2, degraded_write_limit |-> 2, auto_recover |-> TRUE]
MCConfigs ==
  { MCDefaultConfig,
    [ttl_seconds |-> 1, degraded_write_limit |-> 1, auto_recover |-> TRUE],
    [ttl_seconds |-> 2, degraded_write_limit |-> 3, auto_recover |-> FALSE] }
=============================================================================
