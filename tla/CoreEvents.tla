------------------------------ MODULE CoreEvents ------------------------------
(***************************************************************************)
(* packages/core/src/types.ts, events.ts: the events and ledger entries of *)
(* a run as the views of the core server read them.                        *)
(*                                                                         *)
(* A request is a record of what the caller and the registered tool say:   *)
(*   run         "own", or "other": the run a forwarded event belongs to   *)
(*   path        sourcePath of the call                                    *)
(*   protocol, risk, fixtureOnly, idempotent: as registered and called     *)
(*   subject     what the names tell: "report", "git" or "other"           *)
(*   tool, server, route (routeType), producing (coverage.producingEvidence) *)
(*   workspace   "none", "plain", "git" or "temp": the directory observed  *)
(*   hint        what the raw failure text matches, of RawHints            *)
(*   op          "call", or "import", "verify", "simulate" for a task      *)
(* An event has the call and attempt it is about, or NoCall, and the time  *)
(* it occurred; data is what its type needs.  Ids, names and texts that    *)
(* follow from the call are looked up in RequestOf.                        *)
(***************************************************************************)
EXTENDS Naturals, Sequences, FiniteSets, SequencesExt, FiniteSetsExt, TLC

CONSTANTS
  Calls,      \* calls this core mediates
  Tasks,      \* imports, verifications and simulations, each with a call
              \* of its own in the events
  Forwarded,  \* calls of other runs whose events are ingested
  NoCall,
  RequestOf   \* the request of each call

AllCalls == Calls \cup Tasks \cup Forwarded
Paths == {"cli-wrapper", "framework-adapter", "mcp-adapter", "non-mcp-direct"}
RawHints == {"none", "not-found", "permission", "parse"}

ASSUME EventAssumption ==
  /\ NoCall \notin AllCalls
  \* ids are made once: a call is this core's, a task's or another run's
  /\ Calls \cap Tasks = {} /\ Forwarded \cap (Calls \cup Tasks) = {}
  /\ \A c \in AllCalls :
       /\ RequestOf[c].run = IF c \in Forwarded THEN "other" ELSE "own"
       /\ RequestOf[c].path \in Paths
       /\ RequestOf[c].hint \in RawHints

\* #emit, of an event that carries a record or one value.
Carrying(type, call, attempt, data) ==
  [type |-> type, call |-> call, attempt |-> attempt, data |-> data,
   copied |-> FALSE]
Event(type, call, attempt, kind) == Carrying(type, call, attempt, [kind |-> kind])

\* #emitContext with the ids of the latest event, which may be another run's;
\* the event has no route.
Echo(log, type) ==
  [IF log = <<>> THEN Event(type, NoCall, 0, "none") ELSE Last(log) EXCEPT
     !.type = type, !.data = [kind |-> "none"], !.copied = TRUE]

\* appendEvent gives an event, an echo too, its id and time.
Dated(event, id, at) ==
  [type |-> event.type, call |-> event.call, attempt |-> event.attempt,
   data |-> event.data, copied |-> event.copied, id |-> id, at |-> at]
Stamped(events, first, now) ==
  [i \in DOMAIN events |-> Dated(events[i], first + i, now)]

Of(log, type) == { i \in DOMAIN log : log[i].type = type }

\* The run an event names: that of its call, else this core's.
RunOf(event) ==
  IF event.call = NoCall THEN "own" ELSE RequestOf[event.call].run

=============================================================================
