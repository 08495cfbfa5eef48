------------------------ MODULE FailureClassification ------------------------
(***************************************************************************)
(* The recovery table of packages/core/src/classifier.ts, reduced to the   *)
(* columns the session acts on.  The table gives each failure type two     *)
(* flags, "retryable" and "doNotRetrySameCall"; CoreSession retries a call *)
(* only when the first is set and the second is not, counts the Qualifying *)
(* types against the target's circuit, and records the Blocked ones as     *)
(* calls that never reached the target.                                    *)
(***************************************************************************)

FailureTypes ==
  { "unknown_tool", "invalid_arguments", "timeout", "cancellation",
    "cwd_mismatch", "malformed_json", "process_crash", "non_zero_exit",
    "spawn_failure", "output_limit_exceeded", "prompt_injection_output",
    "secret_leak_risk", "destructive_action_blocked", "circuit_open",
    "policy_blocked", "sidecar_unavailable", "sidecar_protocol_error",
    "unknown" }

\* Rows with retryable: true.
Retryable ==
  { "timeout", "cancellation", "process_crash", "circuit_open",
    "sidecar_unavailable" }

\* Rows with doNotRetrySameCall: true are all the rows but these three.
DoNotRetrySameCall ==
  FailureTypes \ { "timeout", "cancellation", "process_crash" }

\* What detectSuspiciousOutput may find in a result.
UnsafeOutput == { "prompt_injection_output", "secret_leak_risk" }

\* The types recordTargetFailure counts against the target's circuit.
Qualifying == { "timeout", "process_crash", "unknown" }

\* The types recordFailure writes to the ledger with outcome "blocked".
Blocked == { "destructive_action_blocked", "policy_blocked", "circuit_open" }
==============================================================================
