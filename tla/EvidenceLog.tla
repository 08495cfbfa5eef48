------------------------------ MODULE EvidenceLog ------------------------------
(***************************************************************************)
(* How the events of one session reach events.jsonl and the live timeline  *)
(* (packages/core/src/evidence.ts, events.ts, the /events handler of       *)
(* server.ts, and the EventSource consumer of packages/ui).                *)
(*                                                                         *)
(* A stream is anything that emits one event after the other: a tool call, *)
(* a preflight, an HTTP request.  Streams interleave at their awaits.  A   *)
(* posted stream is a client of /api/events/ingest: its events come from   *)
(* another session and keep the number they got there.                     *)
(* appendEvent keeps the events in memory and rewrites the whole file for  *)
(* each one.  writeFile truncates the file when it opens it and writes     *)
(* the text from its start, in calls of at most ChunkSize; a call may      *)
(* write less than it was given and fail.  The text is a sequence of       *)
(* pieces, two for a line, so that a line can be torn.                     *)
(* The run index and the coverage history appendEvent also feeds are the   *)
(* subject of other modules.                                               *)
(***************************************************************************)
EXTENDS Naturals, Sequences, FiniteSets, SequencesExt, FiniteSetsExt

CONSTANTS
  Streams,   \* concurrent emitters into the log
  Posted,    \* those whose events are forwarded by another session
  Numbers,   \* the number another session gave each forwarded event
  OccurredAt,\* the time stamp of each event, by whichever clock
  Clients,   \* timelines that read /events
  Unheard,   \* ids of the events whose type the timeline does not listen for
  ChunkSize, \* pieces one write call takes, 512 KiB in Node.js
  Hole,      \* what a write beyond the end of the file leaves before it
  MaxEvents, \* bound on the events of a stream
  MaxFaults, \* bound on failing writes
  MaxDrops   \* bound on lost connections

EventIds == Streams \X (1 .. MaxEvents)

ASSUME LogAssumption ==
  /\ IsFiniteSet(Streams)
  /\ Posted \subseteq Streams
  /\ Numbers \in [EventIds -> Nat]
  /\ OccurredAt \in [EventIds -> Nat]
  /\ Unheard \subseteq EventIds
  /\ ChunkSize \in Nat \ {0}
  /\ MaxEvents \in Nat
  /\ MaxFaults \in Nat
  /\ MaxDrops \in Nat

VARIABLES
  sequence,  \* CoreSession.#sequence
  log,       \* EvidenceRecorder.#events
  file,      \* the pieces in events.jsonl
  phase,     \* what each stream waits for
  current,   \* the event each stream emits, or emitted last
  snapshot,  \* the events whose text each stream writes to the file
  offset,    \* how many pieces of it are written
  published, \* ids of the events given to the bus
  connected, \* clients with an open /events response
  wire,      \* events sent to each client, not received yet
  view,      \* the timeline each client shows
  faults,    \* failing writes so far
  drops      \* lost connections so far

recorderVars == <<sequence, log, file, phase, current, snapshot, offset>>
clientVars == <<connected, wire, view>>
vars == <<recorderVars, clientVars, published, faults, drops>>

CoreEvents ==
  [id : Streams \X (0 .. MaxEvents), sequence : Nat, occurredAt : Nat]

\* The JSON lines of events: a line is two pieces.
Pieces == [event : CoreEvents, part : {"head", "tail"}]

Text(events) ==
  [i \in 1 .. 2 * Len(events) |->
     [event |-> events[(i + 1) \div 2],
      part |-> IF i % 2 = 1 THEN "head" ELSE "tail"]]

Ids(s) == {e.id : e \in ToSet(s)}

TypeOK ==
  /\ sequence \in Nat
  /\ log \in Seq(CoreEvents)
  /\ file \in Seq(Pieces \cup {Hole})
  /\ phase \in [Streams -> {"idle", "mkdir", "open", "write", "publish"}]
  /\ current \in [Streams -> CoreEvents]
  /\ snapshot \in [Streams -> Seq(CoreEvents)]
  /\ offset \in [Streams -> Nat]
  /\ published \subseteq EventIds
  /\ connected \subseteq Clients
  /\ wire \in [Clients -> Seq(CoreEvents)]
  /\ view \in [Clients -> Seq(CoreEvents)]
  /\ faults \in 0 .. MaxFaults
  /\ drops \in 0 .. MaxDrops

Init ==
  /\ sequence = 0
  /\ log = <<>>
  /\ file = <<>>
  /\ phase = [s \in Streams |-> "idle"]
  /\ current =
       [s \in Streams |-> [id |-> <<s, 0>>, sequence |-> 0, occurredAt |-> 0]]
  /\ snapshot = [s \in Streams |-> <<>>]
  /\ offset = [s \in Streams |-> 0]
  /\ published = {}
  /\ connected = {}
  /\ wire = [c \in Clients |-> <<>>]
  /\ view = [c \in Clients |-> <<>>]
  /\ faults = 0
  /\ drops = 0

-----------------------------------------------------------------------------
(* #emit and appendEvent.                                                  *)

Await(s, from, to) ==
  /\ phase[s] = from
  /\ phase' = [phase EXCEPT ![s] = to]

\* The n-th event of a stream.
EventOf(s, n, number) ==
  [id |-> <<s, n>>, sequence |-> number, occurredAt |-> OccurredAt[<<s, n>>]]

\* The event gets its number when #emit is called, before the first await.
Emit(s) ==
  /\ s \notin Posted
  /\ Await(s, "idle", "mkdir")
  /\ current[s].id[2] < MaxEvents
  /\ sequence' = sequence + 1
  /\ current' = [current EXCEPT ![s] = EventOf(s, @.id[2] + 1, sequence')]
  /\ UNCHANGED <<log, file, snapshot, offset, clientVars, published, faults,
                 drops>>

\* POST /api/events/ingest: the event comes with its number.
Ingest(s) ==
  /\ s \in Posted
  /\ Await(s, "idle", "mkdir")
  /\ current[s].id[2] < MaxEvents
  /\ LET n == current[s].id[2] + 1
     IN current' = [current EXCEPT ![s] = EventOf(s, n, Numbers[<<s, n>>])]
  /\ UNCHANGED <<sequence, log, file, snapshot, offset, clientVars, published,
                 faults, drops>>

\* The directory exists; the event enters the log, the text is made.
Push(s) ==
  /\ Await(s, "mkdir", "open")
  /\ log' = Append(log, current[s])
  /\ snapshot' = [snapshot EXCEPT ![s] = log']
  /\ UNCHANGED <<sequence, file, current, offset, clientVars, published,
                 faults, drops>>

\* writeFile opens with flag "w".
OpenFile(s) ==
  /\ Await(s, "open", "write")
  /\ file' = <<>>
  /\ offset' = [offset EXCEPT ![s] = 0]
  /\ UNCHANGED <<sequence, log, current, snapshot, clientVars, published,
                 faults, drops>>

\* Slip: the file is opened for appending.
PutAtEnd(old, text, at, n) == old \o SubSeq(text, at + 1, at + n)

\* n pieces of text written at their place in a file that holds old.
Put(old, text, at, n) ==
  [i \in 1 .. (IF at + n > Len(old) THEN at + n ELSE Len(old)) |->
     IF at < i /\ i <= at + n THEN text[i]
     ELSE IF i <= Len(old) THEN old[i]
     ELSE Hole]

Rest(s) == Len(Text(snapshot[s])) - offset[s]

\* Slip: one call for each line.
LineByLine(s) == 2

\* What a stream gives to its next write call.
Chunk(s) == IF Rest(s) > ChunkSize THEN ChunkSize ELSE Rest(s)

\* A write call takes all it was given; after the last one the emit goes on.
WriteChunk(s) ==
  LET n == Chunk(s)
  IN /\ Await(s, "write", IF n = Rest(s) THEN "publish" ELSE "write")
     /\ file' = Put(file, Text(snapshot[s]), offset[s], n)
     /\ offset' = [offset EXCEPT ![s] = @ + n]
     /\ UNCHANGED <<sequence, log, current, snapshot, clientVars, published,
                    faults, drops>>

\* Slip: the failed append is tried again from its start.
AppendRetried(s) ==
  /\ faults < MaxFaults
  /\ phase[s] \in {"mkdir", "open"}
  /\ phase' = [phase EXCEPT ![s] = "mkdir"]
  /\ faults' = faults + 1
  /\ UNCHANGED <<sequence, log, file, current, snapshot, offset, clientVars,
                 published, drops>>

\* mkdir or open fails and the promise of the emit rejects.  Its caller may
\* go on (executeAttempt records a failure) or give up.
AppendFails(s) ==
  /\ faults < MaxFaults
  /\ phase[s] \in {"mkdir", "open"}
  /\ phase' = [phase EXCEPT ![s] = "idle"]
  /\ faults' = faults + 1
  /\ UNCHANGED <<sequence, log, file, current, snapshot, offset, clientVars,
                 published, drops>>

\* So does a write, of which a part may have reached the file: the disk is
\* full, and the text stays as short as it is.
WriteFails(s) ==
  /\ faults < MaxFaults
  /\ Await(s, "write", "idle")
  /\ faults' = faults + 1
  /\ \/ UNCHANGED file
     \/ \E n \in 1 .. Chunk(s) - 1 :
          file' = Put(file, Text(snapshot[s]), offset[s], n)
  /\ UNCHANGED <<sequence, log, current, snapshot, offset, clientVars,
                 published, drops>>

\* Slip: the bus gets the event before the one just written.
PublishPrevious(s) ==
  /\ Await(s, "publish", "idle")
  /\ published' = published \cup {<<s, current[s].id[2] - 1>>}
  /\ UNCHANGED <<sequence, log, file, current, snapshot, offset, clientVars,
                 faults, drops>>

\* EventBus.publish: every open /events response gets the event.
Publish(s) ==
  /\ Await(s, "publish", "idle")
  /\ published' = published \cup {current[s].id}
  /\ wire' = [c \in Clients |->
                IF c \in connected THEN Append(wire[c], current[s]) ELSE wire[c]]
  /\ UNCHANGED <<sequence, log, file, current, snapshot, offset, connected,
                 view, faults, drops>>

-----------------------------------------------------------------------------
(* GET /events and the timeline.                                           *)

\* Slip: the response joins the clients, earlier events are not replayed.
ConnectWithoutReplay(c) ==
  /\ c \notin connected
  /\ connected' = connected \cup {c}
  /\ UNCHANGED <<recorderVars, wire, view, published, faults, drops>>

\* The response joins the clients and gets the log replayed; an event that
\* is in the log but not published yet will be sent again.
Connect(c) ==
  /\ c \notin connected
  /\ connected' = connected \cup {c}
  /\ wire' = [wire EXCEPT ![c] = log]
  /\ UNCHANGED <<recorderVars, view, published, faults, drops>>

\* The connection breaks; what was under way is lost.
Drop(c) ==
  /\ drops < MaxDrops
  /\ c \in connected
  /\ connected' = connected \ {c}
  /\ wire' = [wire EXCEPT ![c] = <<>>]
  /\ drops' = drops + 1
  /\ UNCHANGED <<recorderVars, view, published, faults>>

\* Slip: events are shown as they arrive.
ShowArrival(shown, e) ==
  IF e.id \in Ids(shown) THEN shown ELSE Append(shown, e)

\* The order of the timeline: by number, then by time stamp.
Later(e, f) ==
  \/ e.sequence > f.sequence
  \/ e.sequence = f.sequence /\ e.occurredAt > f.occurredAt

\* onEvent: keep the first copy and sort.  What is shown is in order already
\* and the sort is stable, so it puts the event before the first later one.
PlaceOf(shown, e) ==
  Min({i \in DOMAIN shown : Later(shown[i], e)} \cup {Len(shown) + 1})

Show(shown, e) ==
  IF e.id \in Ids(shown) THEN shown ELSE InsertAt(shown, PlaceOf(shown, e), e)

\* An event of a type nobody listens for is dropped by the EventSource.
Receive(c) ==
  /\ wire[c] # <<>>
  /\ wire' = [wire EXCEPT ![c] = Tail(@)]
  /\ view' = IF Head(wire[c]).id \in Unheard
               THEN view
               ELSE [view EXCEPT ![c] = Show(@, Head(wire[c]))]
  /\ UNCHANGED <<recorderVars, connected, published, faults, drops>>

-----------------------------------------------------------------------------
Next ==
  \/ \E s \in Streams :
       Emit(s) \/ Ingest(s) \/ Push(s) \/ OpenFile(s) \/ WriteChunk(s)
         \/ AppendFails(s) \/ WriteFails(s) \/ Publish(s)
  \/ \E c \in Clients : Connect(c) \/ Drop(c) \/ Receive(c)

Spec == Init /\ [][Next]_vars

\* The event loop and the file system finish what they began, an EventSource
\* reconnects by itself, and what is on the wire arrives or is dropped.
FairSpec ==
  /\ Spec
  /\ \A s \in Streams :
       WF_vars(Push(s)) /\ WF_vars(OpenFile(s)) /\ WF_vars(WriteChunk(s))
         /\ WF_vars(Publish(s))
  /\ \A c \in Clients : WF_vars(Connect(c)) /\ WF_vars(Receive(c))
-----------------------------------------------------------------------------
(* Properties.                                                             *)

\* However rewrites of different streams overlap, and wherever one fails,
\* events.jsonl holds at each place what the log has there or a hole: a line
\* may be torn, but none comes twice, out of its order or from nowhere.
NothingMisplaced ==
  /\ Len(file) <= Len(Text(log))
  /\ \A i \in DOMAIN file : file[i] \in {Text(log)[i], Hole}

\* While the text fits into one write call and no write has failed,
\* events.jsonl is what the log says up to some line, whole and without holes.
SmallFileIsPrefix ==
  faults = 0 /\ Len(Text(log)) <= ChunkSize =>
    \E n \in 0 .. Len(log) : file = Text(SubSeq(log, 1, n))

\* The log keeps each stream's own order and has no event twice, although
\* streams overtake each other between the number and the push.
StreamOrder ==
  \A i, j \in 1 .. Len(log) :
    i < j /\ log[i].id[1] = log[j].id[1] => log[i].id[2] < log[j].id[2]

\* A connected timeline misses nothing that was published, whether it was
\* connected at the time or not and however often it reconnected.
NoGap ==
  \A c \in connected :
    published \ Unheard \subseteq Ids(wire[c]) \cup Ids(view[c])

\* Whatever order live events, replays and second copies arrive in, and with
\* events of other sessions among them, the timeline shows each event once and
\* none after a later one; the session's own events are in the order in which
\* they were emitted.
ViewInOrder ==
  \A c \in Clients : \A i, j \in 1 .. Len(view[c]) :
    i < j =>
      /\ view[c][i].id # view[c][j].id
      /\ ~Later(view[c][i], view[c][j])
      /\ view[c][i].id[1] \notin Posted /\ view[c][j].id[1] \notin Posted
           => view[c][i].sequence < view[c][j].sequence

\* The events a reader of events.jsonl can parse.
Saved ==
  {e \in ToSet(log) : {[event |-> e, part |-> "head"],
                       [event |-> e, part |-> "tail"]} \subseteq ToSet(file)}

\* While no write is under way, every event whose emit was acknowledged to its
\* caller is in events.jsonl.
AcknowledgedOnDisk ==
  (\A s \in Streams : phase[s] \notin {"open", "write"})
    => published \subseteq {e.id : e \in Saved}

\* Every published event of a type a timeline listens for is shown by it in
\* the end, whatever connections break.
HeardIsShown ==
  \A c \in Clients : \A id \in EventIds \ Unheard :
    id \in published ~> id \in Ids(view[c])
==============================================================================
