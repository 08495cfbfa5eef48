--------------------------- MODULE MCCoreSession ---------------------------
(* Instances of CoreSession for TLC.                                        *)
EXTENDS CoreSession, TLC

CONSTANTS safe, risky, absent

MCRisk == [t \in Targets |-> IF t = risky THEN "high" ELSE "none"]

Request(entry, target, args, idempotent, deadline) ==
  [entry |-> entry, target |-> target, args |-> args,
   idempotent |-> idempotent, deadline |-> deadline]

\* One request per way through the session.
AllRequests ==
  { Request("execute", safe, "plain", TRUE, TRUE),
    Request("execute", safe, "plain", FALSE, FALSE),
    Request("execute", safe, "invalid", TRUE, TRUE),
    Request("execute", risky, "plain", TRUE, TRUE),
    Request("execute", risky, "fixtureOnly", TRUE, TRUE),
    Request("execute", absent, "plain", TRUE, TRUE),
    Request("fail", safe, "plain", TRUE, TRUE),
    Request("mediate", safe, "plain", TRUE, TRUE) }

\* Calls that meet at one target's circuit.
SharedTargetRequests ==
  { Request("execute", safe, "plain", TRUE, TRUE),
    Request("execute", safe, "plain", FALSE, FALSE) }

CallSymmetry == Permutations(Calls)
=============================================================================
