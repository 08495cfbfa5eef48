----------------------------- MODULE MCMcpRouter -----------------------------
(* Instances of McpRouter for TLC.                                           *)
EXTENDS McpRouter, TLC

CONSTANTS alpha, beta, shared, gate, unknown

MCServers == <<alpha, beta>>

\* Identifiers that sanitise to one virtual name, within beta and across the
\* two servers, and a tool of alpha that has the name of the blocked one.
MCToolsOf == [s \in {alpha, beta} |-> IF s = alpha THEN <<"a_b", "gate">>
                                      ELSE <<"a.b", "a_b">>]

MCVirtualName == [t \in Tools |-> IF t[2] = "gate" THEN gate ELSE shared]

\* The name of gate's own stub may be asked for, and is not listed.
MCBlockedName == [n \in {shared, gate} |-> IF n = shared THEN gate ELSE unknown]

Alike == Permutations(Calls)
==============================================================================
