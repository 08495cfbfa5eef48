------------------------------- MODULE RunIndex -------------------------------
(***************************************************************************)
(* packages/core/src/run-index.ts: run-index.jsonl, one record per tool    *)
(* call, kept by every session that works under the same evidence root.    *)
(*                                                                         *)
(* A session hands its events one after the other to RunIndexStore         *)
(* (EvidenceRecorder.#runIndexWrites).  The store reads the file once,     *)
(* keeps all records in memory and replaces the whole file (temporary      *)
(* file, then rename) after each change.  The server lists the records     *)
(* through the session that writes them: a list waits for the events handed *)
(* over before it and then loads the file outside the queue.  Labels, names *)
(* and paths are left out.                                                  *)
(***************************************************************************)
EXTENDS Naturals, Sequences, FiniteSets, SequencesExt

CONSTANTS
  Sessions,    \* sessions under one evidence root
  Calls,       \* tool calls
  Owner,       \* the session each call is made through
  Listers,     \* sessions whose listRecords is called
  OldRuns,     \* records an earlier process left in the file
  Failing,     \* the calls whose attempts may fail; a bound
  MaxFailures, \* bound on the failed attempts of a call
  MaxFaults    \* bound on failing reads and writes and on crashes

ASSUME IndexAssumption ==
  /\ Owner \in [Calls -> Sessions]
  /\ Listers \subseteq Sessions
  /\ OldRuns \cap Calls = {}
  /\ Failing \subseteq Calls
  /\ MaxFailures \in Nat
  /\ MaxFaults \in Nat

VARIABLES
  told,    \* told[c]: the kinds of the events call c has emitted
  queue,   \* events handed to each session's store, not ingested yet
  loaded,  \* RunIndexStore.#loaded
  records, \* RunIndexStore.#records
  reading, \* the read of the file in #load: "none", "open" or "got"
  content, \* what that read returned
  store,   \* what the ingestion waits for, or why there is none any more
  temp,    \* the temporary file of the session
  file,    \* run-index.jsonl
  faults,  \* failures and crashes so far
  blind    \* history: the sessions that took events in, or may, without the
           \* records of the file: a list was reading it, or had failed to

callVars == <<told, queue>>
storeVars == <<loaded, records, reading, content, store, temp>>
vars == <<callVars, storeVars, file, faults, blind>>

Ids == Calls \cup OldRuns
Kinds == {"started", "failed", "completed", "finished"}

\* A record: first is the attempt that failed first, 0 when none did.
Records ==
  [ status : {"running", "succeeded", "failed"},
    first : 0 .. MaxFailures,
    done : BOOLEAN ]

NoRecord == [status |-> "absent", first |-> 0, done |-> FALSE]
OldRecord == [status |-> "succeeded", first |-> 0, done |-> TRUE]
NoRecords == [i \in Ids |-> NoRecord]

Indexes == [Ids -> Records \cup {NoRecord}]

Has(kinds, k) == k \in ToSet(kinds)
Failures(kinds) == Cardinality({n \in DOMAIN kinds : kinds[n] = "failed"})

\* An event is known by its call and its place among the events of the call.
Places == [call : Calls, nr : Nat \ {0}]
EventAt(p) ==
  [ kind |-> told[p.call][p.nr],
    attempt |-> Failures(SubSeq(told[p.call], 1, p.nr)) ]

TypeOK ==
  /\ told \in [Calls -> Seq(Kinds)]
  /\ queue \in [Sessions -> Seq(Places)]
  /\ loaded \in [Sessions -> BOOLEAN]
  /\ records \in [Sessions -> Indexes]
  /\ reading \in [Sessions -> {"none", "open", "got"}]
  /\ content \in [Sessions -> Indexes]
  /\ store \in [Sessions -> {"idle", "loading", "mkdir", "rename",
                               "poisoned", "crashed"}]
  /\ temp \in [Sessions -> Indexes]
  /\ file \in Indexes
  /\ faults \in 0 .. MaxFaults
  /\ blind \subseteq Sessions

Init ==
  /\ told = [c \in Calls |-> <<>>]
  /\ queue = [s \in Sessions |-> <<>>]
  /\ loaded = [s \in Sessions |-> FALSE]
  /\ records = [s \in Sessions |-> NoRecords]
  /\ reading = [s \in Sessions |-> "none"]
  /\ content = [s \in Sessions |-> NoRecords]
  /\ store = [s \in Sessions |-> "idle"]
  /\ temp = [s \in Sessions |-> NoRecords]
  /\ file = [i \in Ids |-> IF i \in OldRuns THEN OldRecord ELSE NoRecord]
  /\ faults = 0
  /\ blind = {}

-----------------------------------------------------------------------------
(* The events of a call that the index looks at, in the order a call emits *)
(* them: run.started, tool.call.failed per failed attempt, perhaps         *)
(* tool.call.completed (which a failing write may follow), run.completed.  *)

MayEmit(c, kind) ==
  LET kinds == told[c] IN
  CASE kind = "started" -> kinds = <<>>
    [] kind = "failed" ->
         /\ kinds # <<>> /\ ~Has(kinds, "finished")
         /\ c \in Failing /\ Failures(kinds) < MaxFailures
    [] kind = "completed" ->
         kinds # <<>> /\ ~Has(kinds, "completed") /\ ~Has(kinds, "finished")
    [] kind = "finished" ->
         /\ ~Has(kinds, "finished")
         /\ Has(kinds, "completed") \/ Has(kinds, "failed")

\* appendEvent chains the ingestion of the event to the previous ones.
Emit(c, kind) ==
  /\ store[Owner[c]] # "crashed"
  /\ MayEmit(c, kind)
  /\ told' = [told EXCEPT ![c] = Append(@, kind)]
  /\ queue' = [queue EXCEPT ![Owner[c]] =
                 Append(@, [call |-> c, nr |-> Len(told[c]) + 1])]
  /\ UNCHANGED <<storeVars, file, faults, blind>>

-----------------------------------------------------------------------------
(* ingestEvent.                                                            *)

\* Slips: the record is what the last event says, so a failure opens it again; a
\* result ends the call; the kind of the event is stored as the status.
UpdatedByLast(old, e) ==
  CASE e.kind = "started" -> [old EXCEPT !.status = "running"]
    [] e.kind = "failed" ->
         [old EXCEPT !.status = "failed", !.first = e.attempt, !.done = FALSE]
    [] e.kind \in {"completed", "finished"} ->
         [old EXCEPT !.status = "succeeded", !.done = TRUE]

UpdatedDoneEarly(old, e) ==
  CASE e.kind = "started" -> [old EXCEPT !.status = "running"]
    [] e.kind = "failed" -> [old EXCEPT !.status = "failed", !.first = 1]
    [] e.kind \in {"completed", "finished"} ->
         [old EXCEPT !.status = IF @ = "failed" THEN @ ELSE "succeeded",
                     !.done = TRUE]

UpdatedToKind(old, e) ==
  [old EXCEPT !.status = e.kind, !.done = e.kind = "finished"]

\* The record after the event.  A failure is never taken back, the first one
\* is kept, and run.started does not disturb a record that exists.
Updated(old, e) ==
  CASE e.kind = "started" ->
         IF old = NoRecord THEN [NoRecord EXCEPT !.status = "running"] ELSE old
    [] e.kind = "failed" ->
         [old EXCEPT !.status = "failed",
                     !.first = IF @ = 0 THEN e.attempt ELSE @]
    [] e.kind = "completed" ->
         [old EXCEPT !.status = IF @ = "failed" THEN @ ELSE "succeeded"]
    [] e.kind = "finished" ->
         [old EXCEPT !.status = IF @ = "failed" THEN @ ELSE "succeeded",
                     !.done = TRUE]

\* Slip: the last event of a call is not written.
ApplyUnsaved(s, known) ==
  LET c == Head(queue[s]).call
      e == EventAt(Head(queue[s]))
  IN /\ records' = [records EXCEPT ![s] = [known EXCEPT ![c] = Updated(@, e)]]
     /\ store' = [store EXCEPT ![s] = IF e.kind = "finished" THEN "idle" ELSE "mkdir"]
     /\ queue' = [queue EXCEPT ![s] = Tail(@)]

\* An event for a call without a record changes nothing and writes nothing.
Apply(s, known) ==
  LET c == Head(queue[s]).call
      e == EventAt(Head(queue[s]))
      ignored == known[c] = NoRecord /\ e.kind # "started"
  IN /\ records' = [records EXCEPT ![s] =
                      IF ignored THEN known
                      ELSE [known EXCEPT ![c] = Updated(@, e)]]
     /\ store' = [store EXCEPT ![s] = IF ignored THEN "idle" ELSE "mkdir"]
     /\ queue' = [queue EXCEPT ![s] = Tail(@)]

\* #load returns at once when somebody has called it before, also while the
\* read of that caller is still under way.
Ingest(s) ==
  /\ store[s] = "idle"
  /\ queue[s] # <<>>
  /\ loaded[s]
  /\ Apply(s, records[s])
  /\ blind' = IF reading[s] = "none" THEN blind ELSE blind \cup {s}
  /\ UNCHANGED <<told, loaded, reading, content, temp, file, faults>>

StartLoad(s) ==
  /\ store[s] = "idle"
  /\ queue[s] # <<>>
  /\ ~loaded[s]
  /\ loaded' = [loaded EXCEPT ![s] = TRUE]
  /\ reading' = [reading EXCEPT ![s] = "open"]
  /\ store' = [store EXCEPT ![s] = "loading"]
  /\ UNCHANGED <<callVars, records, content, temp, file, faults, blind>>

\* listRunIndexRecords waits for the ingestions handed over so far (and fails
\* with them), then listRecords; a store that is loaded only reads #records.
List(s) ==
  /\ s \in Listers
  /\ store[s] = "idle"
  /\ queue[s] = <<>>
  /\ ~loaded[s]
  /\ loaded' = [loaded EXCEPT ![s] = TRUE]
  /\ reading' = [reading EXCEPT ![s] = "open"]
  /\ UNCHANGED <<callVars, records, content, store, temp, file, faults, blind>>

\* The file is read; the callback that uses the content comes later.
ReadFile(s) ==
  /\ reading[s] = "open"
  /\ reading' = [reading EXCEPT ![s] = "got"]
  /\ content' = [content EXCEPT ![s] = file]
  /\ UNCHANGED <<callVars, loaded, records, store, temp, file, faults, blind>>

\* Slip: records in memory are not merged with the ones in the file.
FileForgotten(s) == records[s]

\* records.set for every record in the file.
Merged(s) ==
  [i \in Ids |-> IF content[s][i] = NoRecord THEN records[s][i] ELSE content[s][i]]

FinishLoad(s) ==
  /\ reading[s] = "got"
  /\ store[s] = "loading"
  /\ reading' = [reading EXCEPT ![s] = "none"]
  /\ content' = [content EXCEPT ![s] = NoRecords]
  /\ Apply(s, Merged(s))
  /\ UNCHANGED <<told, loaded, temp, file, faults, blind>>

FinishList(s) ==
  /\ reading[s] = "got"
  /\ store[s] # "loading"
  /\ reading' = [reading EXCEPT ![s] = "none"]
  /\ content' = [content EXCEPT ![s] = NoRecords]
  /\ records' = [records EXCEPT ![s] = Merged(s)]
  /\ UNCHANGED <<callVars, loaded, store, temp, file, faults, blind>>

\* #persist: all records in memory, to a temporary file of its own ...
WriteTemp(s) ==
  /\ store[s] = "mkdir"
  /\ store' = [store EXCEPT ![s] = "rename"]
  /\ temp' = [temp EXCEPT ![s] = records[s]]
  /\ UNCHANGED <<callVars, loaded, records, reading, content, file, faults, blind>>

\* ... which takes the place of the index.
Rename(s) ==
  /\ store[s] = "rename"
  /\ store' = [store EXCEPT ![s] = "idle"]
  /\ file' = temp[s]
  /\ temp' = [temp EXCEPT ![s] = NoRecords]
  /\ UNCHANGED <<callVars, loaded, records, reading, content, faults, blind>>

-----------------------------------------------------------------------------
(* Failures.                                                               *)

\* A write fails: the chain of ingestions is rejected and, being made of
\* then() calls only, never runs another one.
WriteFails(s) ==
  /\ faults < MaxFaults
  /\ store[s] \in {"mkdir", "rename"}
  /\ store' = [store EXCEPT ![s] = "poisoned"]
  /\ faults' = faults + 1
  /\ UNCHANGED <<callVars, loaded, records, reading, content, temp, file, blind>>

\* The file is there and cannot be read.  #loaded stays set: an ingestion that
\* waits is rejected, as above; a list request fails and nobody reads again.
ReadFails(s) ==
  /\ faults < MaxFaults
  /\ reading[s] = "open"
  /\ reading' = [reading EXCEPT ![s] = "none"]
  /\ store' = [store EXCEPT ![s] = IF @ = "loading" THEN "poisoned" ELSE @]
  /\ blind' = IF store[s] = "loading" THEN blind ELSE blind \cup {s}
  /\ faults' = faults + 1
  /\ UNCHANGED <<callVars, loaded, records, content, temp, file>>

\* The process of the session dies, and its memory with it.
Crash(s) ==
  /\ faults < MaxFaults
  /\ store[s] # "crashed"
  /\ store' = [store EXCEPT ![s] = "crashed"]
  /\ loaded' = [loaded EXCEPT ![s] = FALSE]
  /\ records' = [records EXCEPT ![s] = NoRecords]
  /\ reading' = [reading EXCEPT ![s] = "none"]
  /\ content' = [content EXCEPT ![s] = NoRecords]
  /\ temp' = [temp EXCEPT ![s] = NoRecords]
  /\ queue' = [queue EXCEPT ![s] = <<>>]
  /\ faults' = faults + 1
  /\ UNCHANGED <<told, file, blind>>

-----------------------------------------------------------------------------
Work(s) ==
  \/ Ingest(s)
  \/ StartLoad(s)
  \/ ReadFile(s)
  \/ FinishLoad(s)
  \/ FinishList(s)
  \/ WriteTemp(s)
  \/ Rename(s)

Next ==
  \/ \E c \in Calls, kind \in Kinds : Emit(c, kind)
  \/ \E s \in Sessions : Work(s) \/ List(s) \/ WriteFails(s) \/ ReadFails(s) \/ Crash(s)

Spec == Init /\ [][Next]_vars

\* The event loop runs its callbacks and the file system answers.
FairSpec == Spec /\ \A s \in Sessions : WF_vars(Work(s))
-----------------------------------------------------------------------------
(* Properties.                                                             *)

\* What the index must say of a call that has emitted these events.
RecordOf(kinds) ==
  [ status |-> IF kinds = <<>> THEN "absent"
               ELSE IF Has(kinds, "failed") THEN "failed"
               ELSE IF Has(kinds, "completed") THEN "succeeded"
               ELSE "running",
    first |-> IF Has(kinds, "failed") THEN 1 ELSE 0,
    done |-> Has(kinds, "finished") ]

Settled(s) == store[s] = "idle" /\ queue[s] = <<>>

\* No other session has made calls.
Alone(c) == \A d \in Calls : Owner[d] # Owner[c] => told[d] = <<>>

\* When a session has nothing left to ingest, the list it answers says of each
\* of its calls exactly what the call's events say, whatever other sessions do
\* to the file; and so does the file, if no other session has made calls.  Not
\* so for a session that took events in while a list was reading the file: the
\* older record of the file then replaces the newer one in memory.
IndexMatchesEvents ==
  \A c \in Calls :
    Settled(Owner[c]) /\ Owner[c] \notin blind
      => /\ records[Owner[c]][c] = RecordOf(told[c])
         /\ Alone(c) => file[c] = RecordOf(told[c])

\* Whatever fails and whoever shares the file, the index never says more of a
\* call than some moment of its history: no success before the result, no
\* record before run.started.
IndexIsPast ==
  \A c \in Calls : Owner[c] \notin blind =>
    \E n \in 0 .. Len(told[c]) : file[c] = RecordOf(SubSeq(told[c], 1, n))

\* The records an earlier process left survive everything later ones do, as
\* long as no session takes in an event while a list is reading the file.
HistoryKept == blind = {} => \A i \in OldRuns : file[i] = OldRecord

\* A call that finished is listed as finished by its session, sooner or later,
\* and recorded so in the file if no other session has made calls, unless
\* something failed, a session died or the call's session is blind.
FinishedIsIndexed ==
  \A c \in Calls :
    Has(told[c], "finished") ~>
      \/ records[Owner[c]][c].done /\ (Alone(c) => file[c].done)
      \/ faults > 0 \/ Owner[c] \in blind

\* A call the index shows as finished stops being shown so in one way only:
\* a session that shares the root writes back its older copy, or the call's
\* own session, being blind, its copy without the record.
FinishedStaysIndexed ==
  [][\A c \in Calls : file[c].done /\ ~file'[c].done =>
       \E s \in Sessions : Rename(s) /\ (s # Owner[c] \/ s \in blind)]_vars
==============================================================================
