--------------------------- MODULE EvidenceLogProofs ---------------------------
(***************************************************************************)
(* Theorems about EvidenceLog for any emitters, timelines and bounds: what *)
(* overlapping and failing rewrites can do to events.jsonl, and the order  *)
(* of the log.                                                             *)
(***************************************************************************)
EXTENDS EvidenceLog, SequenceTheorems, WellFoundedInduction, TLAPS

\* IsPrefix, event by event.
LEMMA PrefixPointwise ==
  ASSUME NEW S, NEW s \in Seq(S), NEW t \in Seq(S)
  PROVE  IsPrefix(s, t)
           <=> Len(s) <= Len(t) /\ \A i \in 1 .. Len(s) : s[i] = t[i]
<1>1. Len(s) \in Nat /\ Len(t) \in Nat
  BY LenProperties
<1>2. ASSUME Len(s) <= Len(t)
      PROVE  /\ SubSeq(s, 1, Len(s)) \in Seq(S)
             /\ SubSeq(t, 1, Len(s)) \in Seq(S)
             /\ Len(SubSeq(s, 1, Len(s))) = Len(s)
             /\ Len(SubSeq(t, 1, Len(s))) = Len(s)
             /\ \A i \in 1 .. Len(s) : SubSeq(s, 1, Len(s))[i] = s[i]
             /\ \A i \in 1 .. Len(s) : SubSeq(t, 1, Len(s))[i] = t[i]
  <2>1. /\ \A i \in 1 .. Len(s) : s[i] \in S
        /\ \A i \in 1 .. Len(s) : t[i] \in S
    BY <1>1, <1>2, ElementOfSeq
  <2>2. QED BY <1>1, <2>1, SubSeqProperties
<1>3. ASSUME IsPrefix(s, t)
      PROVE  Len(s) <= Len(t) /\ \A i \in 1 .. Len(s) : s[i] = t[i]
  <2>1. Len(s) <= Len(t) /\ SubSeq(s, 1, Len(s)) = SubSeq(t, 1, Len(s))
    BY <1>3 DEF IsPrefix
  <2>2. QED BY <1>2, <2>1
<1>4. ASSUME Len(s) <= Len(t), \A i \in 1 .. Len(s) : s[i] = t[i]
      PROVE  IsPrefix(s, t)
  <2>1. SubSeq(s, 1, Len(s)) = SubSeq(t, 1, Len(s))
    BY <1>1, <1>2, <1>4, SeqEqual
  <2>2. QED BY <1>4, <2>1 DEF IsPrefix
<1>5. QED BY <1>3, <1>4

\* What was a prefix stays one when the sequence grows.
LEMMA PrefixOfAppend ==
  ASSUME NEW S, NEW s \in Seq(S), NEW t \in Seq(S), NEW e \in S, IsPrefix(s, t)
  PROVE  IsPrefix(s, Append(t, e))
<1>1. /\ Append(t, e) \in Seq(S)
      /\ Len(Append(t, e)) = Len(t) + 1
      /\ \A i \in 1 .. Len(t) : Append(t, e)[i] = t[i]
      /\ Len(s) \in Nat /\ Len(t) \in Nat
  BY AppendProperties, LenProperties
<1>2. Len(s) <= Len(t) /\ \A i \in 1 .. Len(s) : s[i] = t[i]
  BY PrefixPointwise
<1>3. Len(s) <= Len(t) + 1 /\ \A i \in 1 .. Len(s) : s[i] = Append(t, e)[i]
  BY <1>1, <1>2
<1>4. QED BY <1>1, <1>3, PrefixPointwise

LEMMA PrefixReflexive ==
  ASSUME NEW S, NEW s \in Seq(S)
  PROVE  IsPrefix(s, s)
BY PrefixPointwise, LenProperties

LEMMA EmptyIsPrefix ==
  ASSUME NEW S, NEW s \in Seq(S)
  PROVE  <<>> \in Seq(S) /\ IsPrefix(<<>>, s)
<1>1. <<>> \in Seq(S) /\ Len(<<>>) = 0 /\ Len(s) \in Nat
  BY EmptySeq, LenProperties
<1>2. Len(<<>>) <= Len(s) /\ \A i \in 1 .. Len(<<>>) : <<>>[i] = s[i]
  BY <1>1
<1>3. QED BY <1>1, <1>2, PrefixPointwise

\* The pieces of a text, one by one.
LEMMA TextProperties ==
  ASSUME NEW events \in Seq(CoreEvents)
  PROVE  /\ Text(events) \in Seq(Pieces)
         /\ Len(Text(events)) = 2 * Len(events)
         /\ Len(events) \in Nat
         /\ \A i \in 1 .. 2 * Len(events) :
              /\ (i + 1) \div 2 \in 1 .. Len(events)
              /\ Text(events)[i] =
                   [event |-> events[(i + 1) \div 2],
                    part |-> IF i % 2 = 1 THEN "head" ELSE "tail"]
<1> DEFINE n == Len(events)
<1>1. n \in Nat
  BY LenProperties
<1>2. \A i \in 1 .. 2 * n : (i + 1) \div 2 \in 1 .. n
  BY <1>1
<1>3. \A i \in 1 .. 2 * n : events[(i + 1) \div 2] \in CoreEvents
  BY <1>2, ElementOfSeq
<1>4. \A i \in 1 .. 2 * n :
        [event |-> events[(i + 1) \div 2],
         part |-> IF i % 2 = 1 THEN "head" ELSE "tail"] \in Pieces
  BY <1>3 DEF Pieces
<1>5. Text(events) \in [1 .. 2 * n -> Pieces]
  BY <1>4 DEF Text
<1>6. 2 * n \in Nat
  BY <1>1
<1> HIDE DEF n
<1>7. Text(events) \in Seq(Pieces) /\ Len(Text(events)) = 2 * n
  <2>1. Text(events) \in Seq(Pieces)
    BY <1>5, <1>6, SeqDef
  <2>2. DOMAIN Text(events) = 1 .. 2 * n
    BY <1>5
  <2>3. DOMAIN Text(events) = 1 .. Len(Text(events)) /\ Len(Text(events)) \in Nat
    BY <2>1, LenProperties
  <2> QED BY <1>6, <2>1, <2>2, <2>3
<1>8. \A i \in 1 .. 2 * n : Text(events)[i] =
        [event |-> events[(i + 1) \div 2],
         part |-> IF i % 2 = 1 THEN "head" ELSE "tail"]
  BY DEF Text, n
<1> QED BY <1>1, <1>2, <1>7, <1>8 DEF n

\* The text of the first events is the first part of the text of all.
LEMMA TextOfPrefix ==
  ASSUME NEW some \in Seq(CoreEvents), NEW all \in Seq(CoreEvents),
         IsPrefix(some, all)
  PROVE  /\ Len(Text(some)) <= Len(Text(all))
         /\ \A i \in 1 .. Len(Text(some)) : Text(some)[i] = Text(all)[i]
<1>1. Len(some) <= Len(all) /\ \A i \in 1 .. Len(some) : some[i] = all[i]
  BY PrefixPointwise
<1>2. /\ Len(Text(some)) = 2 * Len(some) /\ Len(Text(all)) = 2 * Len(all)
      /\ Len(some) \in Nat /\ Len(all) \in Nat
  BY TextProperties
<1>3. ASSUME NEW i \in 1 .. 2 * Len(some)
      PROVE  Text(some)[i] = Text(all)[i]
  <2>1. i \in 1 .. 2 * Len(all)
    BY <1>1, <1>2
  <2>2. (i + 1) \div 2 \in 1 .. Len(some)
    BY TextProperties
  <2>3. some[(i + 1) \div 2] = all[(i + 1) \div 2]
    BY <1>1, <2>2
  <2> QED BY <2>1, <2>3, TextProperties
<1> QED BY <1>1, <1>2, <1>3

\* Writing in the middle of a file.
LEMMA PutProperties ==
  ASSUME NEW old \in Seq(Pieces \cup {Hole}), NEW text \in Seq(Pieces),
         NEW at \in Nat, NEW n \in Nat, at + n <= Len(text)
  PROVE  /\ Put(old, text, at, n) \in Seq(Pieces \cup {Hole})
         /\ Len(Put(old, text, at, n)) =
              IF at + n > Len(old) THEN at + n ELSE Len(old)
         /\ \A i \in 1 .. Len(Put(old, text, at, n)) :
              Put(old, text, at, n)[i] =
                IF at < i /\ i <= at + n THEN text[i]
                ELSE IF i <= Len(old) THEN old[i] ELSE Hole
<1> DEFINE m == IF at + n > Len(old) THEN at + n ELSE Len(old)
           all == Put(old, text, at, n)
<1>1. m \in Nat /\ Len(old) \in Nat /\ Len(text) \in Nat
  BY LenProperties
<1>2. \A i \in 1 .. m :
        (IF at < i /\ i <= at + n THEN text[i]
         ELSE IF i <= Len(old) THEN old[i] ELSE Hole) \in Pieces \cup {Hole}
  <2> TAKE i \in 1 .. m
  <2>1. at < i /\ i <= at + n => text[i] \in Pieces
    <3>1. at < i /\ i <= at + n => i \in 1 .. Len(text)
      BY <1>1
    <3> QED BY <3>1, ElementOfSeq
  <2>2. i <= Len(old) => old[i] \in Pieces \cup {Hole}
    <3>1. i <= Len(old) => i \in 1 .. Len(old)
      BY <1>1
    <3> QED BY <3>1, ElementOfSeq
  <2> QED BY <2>1, <2>2
<1>3. all = [i \in 1 .. m |->
               IF at < i /\ i <= at + n THEN text[i]
               ELSE IF i <= Len(old) THEN old[i] ELSE Hole]
  BY DEF Put
<1> HIDE DEF m, all
<1>4. all \in [1 .. m -> Pieces \cup {Hole}]
  BY <1>2, <1>3
<1>5. all \in Seq(Pieces \cup {Hole}) /\ Len(all) = m
  <2>1. all \in Seq(Pieces \cup {Hole})
    BY <1>1, <1>4, SeqDef
  <2>2. DOMAIN all = 1 .. m /\ DOMAIN all = 1 .. Len(all) /\ Len(all) \in Nat
    BY <1>4, <2>1, LenProperties
  <2> QED BY <1>1, <2>1, <2>2
<1> QED BY <1>3, <1>5 DEF m, all
-----------------------------------------------------------------------------
(* The file.                                                               *)

Steps == {"idle", "mkdir", "open", "write", "publish"}

\* The part of TypeOK the recorder needs, and whose event a stream emits.
RecorderType ==
  /\ sequence \in Nat
  /\ log \in Seq(CoreEvents)
  /\ phase \in [Streams -> Steps]
  /\ current \in [Streams -> CoreEvents]
  /\ snapshot \in [Streams -> Seq(CoreEvents)]
  /\ offset \in [Streams -> Nat]
  /\ file \in Seq(Pieces \cup {Hole})
  /\ \A s \in Streams : current[s].id[1] = s

\* Every text made for the file is that of a prefix of the log, a stream
\* writes within its text, and the file has each piece at its place.
PrefixInv ==
  /\ RecorderType
  /\ \A s \in Streams : IsPrefix(snapshot[s], log)
  /\ \A s \in Streams :
       phase[s] = "write" => offset[s] <= Len(Text(snapshot[s]))
  /\ NothingMisplaced

LEMMA InitPrefixInv == Init => PrefixInv
<1> SUFFICES ASSUME Init PROVE PrefixInv
  OBVIOUS
<1>1. <<>> \in Seq(CoreEvents) /\ IsPrefix(<<>>, <<>>)
  <2>1. <<>> \in Seq(CoreEvents)
    BY EmptySeq
  <2>2. QED BY <2>1, PrefixReflexive
<1>2. \A s \in Streams :
        [id |-> <<s, 0>>, sequence |-> 0, occurredAt |-> 0] \in CoreEvents
  BY LogAssumption DEF CoreEvents
<1>3. RecorderType
  <2>1. /\ sequence \in Nat
        /\ log \in Seq(CoreEvents) /\ file \in Seq(Pieces \cup {Hole})
        /\ phase \in [Streams -> Steps]
        /\ offset \in [Streams -> Nat]
    BY <1>1, EmptySeq DEF Init, Steps
  <2>2. snapshot \in [Streams -> Seq(CoreEvents)]
    BY <1>1 DEF Init
  <2>3. current \in [Streams -> CoreEvents]
    BY <1>2 DEF Init
  <2>4. \A s \in Streams : current[s].id[1] = s
    BY DEF Init
  <2>5. QED BY <2>1, <2>2, <2>3, <2>4 DEF RecorderType
<1>4. NothingMisplaced
  <2>1. Len(file) = 0 /\ DOMAIN file = {} /\ Len(Text(log)) \in Nat
    BY <1>1, TextProperties, LenProperties DEF Init
  <2> QED BY <2>1 DEF NothingMisplaced
<1>5. QED BY <1>1, <1>3, <1>4 DEF Init, PrefixInv

\* A log that grows leaves the file in place.
LEMMA StillInPlace ==
  ASSUME log \in Seq(CoreEvents), log' \in Seq(CoreEvents), IsPrefix(log, log'),
         file \in Seq(Pieces \cup {Hole}), UNCHANGED file, NothingMisplaced
  PROVE  NothingMisplaced'
<1>1. /\ Len(Text(log)) <= Len(Text(log'))
      /\ \A i \in 1 .. Len(Text(log)) : Text(log)[i] = Text(log')[i]
  BY TextOfPrefix
<1>2. Len(Text(log)) \in Nat /\ Len(Text(log')) \in Nat
  BY TextProperties, LenProperties
<1>3. Len(file) \in Nat /\ DOMAIN file = 1 .. Len(file)
  BY LenProperties
<1>4. Len(file') <= Len(Text(log'))
  BY <1>1, <1>2, <1>3 DEF NothingMisplaced
<1>5. ASSUME NEW i \in DOMAIN file'
      PROVE  file'[i] \in {Text(log')[i], Hole}
  <2>1. i \in DOMAIN file /\ i \in 1 .. Len(Text(log))
    BY <1>2, <1>3, <1>5 DEF NothingMisplaced
  <2>2. file[i] \in {Text(log)[i], Hole}
    BY <2>1 DEF NothingMisplaced
  <2>3. Text(log)[i] = Text(log')[i]
    BY <1>1, <2>1
  <2> QED BY <2>2, <2>3
<1> QED BY <1>4, <1>5 DEF NothingMisplaced

LEMMA PushPrefix ==
  ASSUME PrefixInv, NEW s \in Streams, Push(s)
  PROVE  PrefixInv'
<1> USE DEF PrefixInv, RecorderType, Push, Await, Steps
<1>1. /\ current[s] \in CoreEvents
      /\ log' = Append(log, current[s])
      /\ log' \in Seq(CoreEvents)
  BY AppendProperties
<1>2. RecorderType'
  BY <1>1
<1>3. \A t \in Streams : IsPrefix(snapshot[t], log')
  BY <1>1, PrefixOfAppend
<1>4. IsPrefix(log', log')
  BY <1>1, PrefixReflexive
<1>5. \A t \in Streams : IsPrefix(snapshot'[t], log')
  BY <1>3, <1>4
<1>6. \A t \in Streams :
        phase'[t] = "write" => offset'[t] <= Len(Text(snapshot'[t]))
  OBVIOUS
<1>7. NothingMisplaced'
  <2>1. IsPrefix(log, log')
    BY <1>1, PrefixOfAppend, PrefixReflexive
  <2> QED BY <1>1, <2>1, StillInPlace
<1>8. QED BY <1>2, <1>5, <1>6, <1>7

\* The event of an emit, or of an ingestion, is one of the stream.
LEMMA NextEvent ==
  ASSUME RecorderType, NEW s \in Streams, current[s].id[2] < MaxEvents,
         NEW number \in Nat
  PROVE  LET e == EventOf(s, current[s].id[2] + 1, number)
         IN /\ e \in CoreEvents /\ e.id \in EventIds
            /\ e.id[1] = s /\ e.id[2] = current[s].id[2] + 1
            /\ e.sequence = number
<1>1. current[s].id \in Streams \X (0 .. MaxEvents)
  BY DEF RecorderType, CoreEvents
<1>2. current[s].id[2] + 1 \in 1 .. MaxEvents
  BY <1>1, LogAssumption
<1>3. <<s, current[s].id[2] + 1>> \in EventIds
  BY <1>2 DEF EventIds
<1>4. OccurredAt[<<s, current[s].id[2] + 1>>] \in Nat
  BY <1>3, LogAssumption
<1>5. <<s, current[s].id[2] + 1>> \in Streams \X (0 .. MaxEvents)
  BY <1>2, LogAssumption
<1> QED BY <1>2, <1>3, <1>4, <1>5 DEF EventOf, CoreEvents

LEMMA EmitPrefix ==
  ASSUME PrefixInv, NEW s \in Streams, Emit(s) \/ Ingest(s)
  PROVE  PrefixInv'
<1> USE DEF PrefixInv, RecorderType, Await, Steps
<1>1. \E number \in Nat :
        /\ current[s].id[2] < MaxEvents
        /\ current' =
             [current EXCEPT ![s] = EventOf(s, current[s].id[2] + 1, number)]
  <2>1. CASE Emit(s)
    <3>1. /\ sequence + 1 \in Nat /\ sequence' = sequence + 1
          /\ current[s].id[2] < MaxEvents
          /\ current' = [current EXCEPT
                           ![s] = EventOf(s, current[s].id[2] + 1, sequence + 1)]
      BY <2>1 DEF Emit
    <3> QED BY <3>1
  <2>2. CASE Ingest(s)
    <3>1. current[s].id[2] < MaxEvents
      BY <2>2 DEF Ingest
    <3>2. EventOf(s, current[s].id[2] + 1, 0).id \in EventIds
      BY <3>1, NextEvent
    <3>3. Numbers[<<s, current[s].id[2] + 1>>] \in Nat
      BY <3>2, LogAssumption DEF EventOf
    <3> QED BY <2>2, <3>1, <3>3 DEF Ingest
  <2> QED BY <2>1, <2>2
<1>2. current' \in [Streams -> CoreEvents] /\ \A t \in Streams : current'[t].id[1] = t
  BY <1>1, NextEvent
<1>3. /\ phase' = [phase EXCEPT ![s] = "mkdir"]
      /\ UNCHANGED <<log, file, snapshot, offset>>
      /\ sequence' \in Nat
  BY DEF Emit, Ingest
<1> QED BY <1>2, <1>3 DEF NothingMisplaced

\* A stream that writes some of what it has left keeps the file in place.
LEMMA WritePrefix ==
  ASSUME PrefixInv, NEW s \in Streams, phase[s] = "write",
         NEW n \in Nat, n <= Rest(s),
         file' = Put(file, Text(snapshot[s]), offset[s], n),
         UNCHANGED log
  PROVE  /\ file' \in Seq(Pieces \cup {Hole})
         /\ NothingMisplaced'
<1> USE DEF PrefixInv, RecorderType
<1> DEFINE text == Text(snapshot[s])
<1>1. /\ text \in Seq(Pieces) /\ Len(text) \in Nat
      /\ Len(Text(log)) \in Nat /\ Len(file) \in Nat /\ offset[s] \in Nat
      /\ DOMAIN file = 1 .. Len(file)
  BY TextProperties, LenProperties
<1>2. /\ Len(text) <= Len(Text(log))
      /\ \A i \in 1 .. Len(text) : text[i] = Text(log)[i]
  BY TextOfPrefix
<1>3. offset[s] + n <= Len(text)
  BY <1>1 DEF Rest
<1> HIDE DEF text
<1>0. file \in Seq(Pieces \cup {Hole}) /\ file' = Put(file, text, offset[s], n)
  BY DEF text
<1> HIDE DEF PrefixInv, RecorderType
<1>4. /\ file' \in Seq(Pieces \cup {Hole})
      /\ Len(file') = IF offset[s] + n > Len(file) THEN offset[s] + n ELSE Len(file)
      /\ \A i \in 1 .. Len(file') :
           file'[i] = IF offset[s] < i /\ i <= offset[s] + n THEN text[i]
                      ELSE IF i <= Len(file) THEN file[i] ELSE Hole
  <2> DEFINE at == offset[s]
             new == Put(file, text, at, n)
  <2>1. at \in Nat /\ at + n <= Len(text) /\ text \in Seq(Pieces)
    BY <1>1, <1>3
  <2> HIDE DEF at
  <2>2. /\ new \in Seq(Pieces \cup {Hole})
        /\ Len(new) = IF at + n > Len(file) THEN at + n ELSE Len(file)
        /\ \A i \in 1 .. Len(new) :
             new[i] = IF at < i /\ i <= at + n THEN text[i]
                      ELSE IF i <= Len(file) THEN file[i] ELSE Hole
    BY <1>0, <2>1, PutProperties
  <2>3. file' = new
    BY <1>0 DEF at
  <2> HIDE DEF new
  <2> QED BY <2>2, <2>3 DEF at
<1>5. DOMAIN file' = 1 .. Len(file') /\ Len(file') \in Nat
  BY <1>4, LenProperties
<1> USE DEF PrefixInv, RecorderType
<1>6. Len(file') <= Len(Text(log))
  BY <1>1, <1>2, <1>3, <1>4 DEF NothingMisplaced
<1>7. ASSUME NEW i \in 1 .. Len(file')
      PROVE  file'[i] \in {Text(log)[i], Hole}
  <2>1. CASE offset[s] < i /\ i <= offset[s] + n
    <3>1. i \in 1 .. Len(text)
      BY <1>1, <1>3, <2>1
    <3> QED BY <1>2, <1>4, <2>1, <3>1
  <2>2. CASE ~(offset[s] < i /\ i <= offset[s] + n) /\ i <= Len(file)
    <3>1. i \in DOMAIN file
      BY <1>1, <2>2
    <3> QED BY <1>4, <2>2, <3>1 DEF NothingMisplaced
  <2>3. CASE ~(offset[s] < i /\ i <= offset[s] + n) /\ ~(i <= Len(file))
    BY <1>4, <2>3
  <2> QED BY <2>1, <2>2, <2>3
<1> QED BY <1>4, <1>5, <1>6, <1>7 DEF NothingMisplaced

\* What one write call takes is left of the text, and is all of it if it fits.
LEMMA ChunkProperties ==
  ASSUME PrefixInv, NEW s \in Streams, phase[s] = "write"
  PROVE  /\ Rest(s) \in Nat /\ Chunk(s) \in Nat /\ Chunk(s) <= Rest(s)
         /\ Rest(s) <= ChunkSize => Chunk(s) = Rest(s)
         /\ offset[s] + Rest(s) = Len(Text(snapshot[s]))
         /\ Len(Text(snapshot[s])) \in Nat
<1>1. Len(Text(snapshot[s])) \in Nat /\ offset[s] \in Nat
  BY TextProperties, LenProperties DEF PrefixInv, RecorderType
<1>2. offset[s] <= Len(Text(snapshot[s]))
  BY DEF PrefixInv
<1> QED BY <1>1, <1>2, LogAssumption DEF Rest, Chunk

LEMMA WriteChunkPrefix ==
  ASSUME PrefixInv, NEW s \in Streams, WriteChunk(s)
  PROVE  PrefixInv'
<1> USE DEF PrefixInv, RecorderType, Steps
<1>1. /\ phase[s] = "write"
      /\ phase' = [phase EXCEPT ![s] =
                     IF Chunk(s) = Rest(s) THEN "publish" ELSE "write"]
      /\ file' = Put(file, Text(snapshot[s]), offset[s], Chunk(s))
      /\ offset' = [offset EXCEPT ![s] = offset[s] + Chunk(s)]
      /\ UNCHANGED <<sequence, log, current, snapshot>>
  BY DEF WriteChunk, Await
<1>2. /\ Rest(s) \in Nat /\ Chunk(s) \in Nat /\ Chunk(s) <= Rest(s)
      /\ offset[s] + Rest(s) = Len(Text(snapshot[s]))
  BY <1>1, ChunkProperties
<1>3. file' \in Seq(Pieces \cup {Hole}) /\ NothingMisplaced'
  BY <1>1, <1>2, WritePrefix
<1>4. offset' \in [Streams -> Nat] /\ offset'[s] <= Len(Text(snapshot[s]))
  <2>1. offset[s] \in Nat /\ Len(Text(snapshot[s])) \in Nat
    BY TextProperties, LenProperties
  <2> QED BY <1>1, <1>2, <2>1
<1>5. \A t \in Streams :
        phase'[t] = "write" => offset'[t] <= Len(Text(snapshot[t]))
  BY <1>1, <1>4
<1> QED BY <1>1, <1>3, <1>4, <1>5

LEMMA WriteFailsPrefix ==
  ASSUME PrefixInv, NEW s \in Streams, WriteFails(s)
  PROVE  PrefixInv'
<1> USE DEF PrefixInv, RecorderType, Steps
<1>1. /\ phase[s] = "write"
      /\ phase' = [phase EXCEPT ![s] = "idle"]
      /\ UNCHANGED <<sequence, log, current, snapshot, offset>>
      /\ \/ UNCHANGED file
         \/ \E n \in 1 .. Chunk(s) - 1 :
              file' = Put(file, Text(snapshot[s]), offset[s], n)
  BY DEF WriteFails, Await
<1>2. file' \in Seq(Pieces \cup {Hole}) /\ NothingMisplaced'
  <2>1. CASE UNCHANGED file
    BY <1>1, <2>1 DEF NothingMisplaced
  <2>2. ASSUME NEW n \in 1 .. Chunk(s) - 1,
               file' = Put(file, Text(snapshot[s]), offset[s], n)
        PROVE  file' \in Seq(Pieces \cup {Hole}) /\ NothingMisplaced'
    <3>1. n \in Nat /\ n <= Rest(s)
      BY <1>1, ChunkProperties
    <3> QED BY <1>1, <2>2, <3>1, WritePrefix
  <2> QED BY <1>1, <2>1, <2>2
<1> QED BY <1>1, <1>2

LEMMA NextPrefixInv == PrefixInv /\ [Next]_vars => PrefixInv'
<1> SUFFICES ASSUME PrefixInv, [Next]_vars
             PROVE  PrefixInv'
  OBVIOUS
<1> USE DEF PrefixInv, RecorderType, Steps
<1>1. ASSUME NEW s \in Streams, Emit(s) \/ Ingest(s) PROVE PrefixInv'
  BY <1>1, EmitPrefix
<1>2. ASSUME NEW s \in Streams, Push(s) PROVE PrefixInv'
  BY <1>2, PushPrefix
<1>3. ASSUME NEW s \in Streams, OpenFile(s) PROVE PrefixInv'
  <2>1. file' = <<>> /\ offset' = [offset EXCEPT ![s] = 0]
    BY <1>3 DEF OpenFile
  <2>2. file' \in Seq(Pieces \cup {Hole}) /\ DOMAIN file' = {} /\ Len(file') = 0
    BY <2>1, EmptySeq
  <2>3. Len(Text(log)) \in Nat /\ \A t \in Streams : Len(Text(snapshot[t])) \in Nat
    BY TextProperties, LenProperties
  <2>4. NothingMisplaced'
    BY <1>3, <2>2, <2>3 DEF OpenFile, NothingMisplaced
  <2>5. QED BY <1>3, <2>1, <2>2, <2>3, <2>4 DEF OpenFile, Await
<1>4. ASSUME NEW s \in Streams, WriteChunk(s) PROVE PrefixInv'
  BY <1>4, WriteChunkPrefix
<1>5. ASSUME NEW s \in Streams, WriteFails(s) PROVE PrefixInv'
  BY <1>5, WriteFailsPrefix
<1>6. ASSUME NEW s \in Streams, AppendFails(s) \/ Publish(s) PROVE PrefixInv'
  BY <1>6 DEF AppendFails, Publish, Await, NothingMisplaced
<1>7. ASSUME NEW c \in Clients, Connect(c) \/ Drop(c) \/ Receive(c)
      PROVE  PrefixInv'
  BY <1>7 DEF Connect, Drop, Receive, recorderVars, NothingMisplaced
<1>8. CASE UNCHANGED vars
  BY <1>8 DEF vars, recorderVars, NothingMisplaced
<1>9. QED
  BY <1>1, <1>2, <1>3, <1>4, <1>5, <1>6, <1>7, <1>8 DEF Next

LEMMA PrefixInvariant == Spec => []PrefixInv
  BY InitPrefixInv, NextPrefixInv, PTL DEF Spec

\* However many emitters rewrite events.jsonl at the same time, in how many
\* calls, and whichever of them fails halfway: each place of the file holds
\* what the log has there, or a hole.
THEOREM PiecesInPlace == Spec => []NothingMisplaced
<1>1. PrefixInv => NothingMisplaced
  BY DEF PrefixInv
<1>2. QED BY <1>1, PrefixInvariant, PTL

-----------------------------------------------------------------------------
(* The order of the log.                                                   *)

\* A stream has emitted what the log holds of it, and its present event is not
\* there before the push.
EmittedInv ==
  \A i \in 1 .. Len(log) : \A s \in Streams :
    log[i].id[1] = s =>
      /\ log[i].id[2] <= current[s].id[2]
      /\ phase[s] = "mkdir" => log[i].id[2] < current[s].id[2]

OrderInv == RecorderType /\ EmittedInv /\ StreamOrder

LEMMA InitOrderInv == Init => OrderInv
<1> SUFFICES ASSUME Init PROVE OrderInv
  OBVIOUS
<1>1. RecorderType
  BY InitPrefixInv DEF PrefixInv
<1>2. Len(log) = 0
  BY EmptySeq DEF Init
<1>3. QED BY <1>1, <1>2 DEF OrderInv, EmittedInv, StreamOrder

LEMMA PushOrder ==
  ASSUME OrderInv, NEW s \in Streams, Push(s), RecorderType'
  PROVE  OrderInv'
<1> DEFINE n == Len(log)
<1>1. /\ current[s] \in CoreEvents /\ current' = current
      /\ current[s].id[1] = s
      /\ log' = Append(log, current[s])
      /\ phase[s] = "mkdir" /\ phase' = [phase EXCEPT ![s] = "open"]
  BY DEF OrderInv, RecorderType, Push, Await
<1>2. /\ n \in Nat /\ Len(log') = n + 1
      /\ \A i \in 1 .. n : log'[i] = log[i]
      /\ log'[n + 1] = current[s]
  BY <1>1, AppendProperties, LenProperties DEF OrderInv, RecorderType
<1>3. \A i \in 1 .. n : log[i] \in CoreEvents
  BY ElementOfSeq DEF OrderInv, RecorderType
<1>4. \A t \in Streams : current[t].id[2] \in Nat
  BY DEF OrderInv, RecorderType, CoreEvents
<1>5. EmittedInv'
  <2>1. SUFFICES ASSUME NEW i \in 1 .. n + 1, NEW t \in Streams,
                        log'[i].id[1] = t
                 PROVE  /\ log'[i].id[2] <= current[t].id[2]
                        /\ phase'[t] = "mkdir"
                             => log'[i].id[2] < current[t].id[2]
    BY <1>1, <1>2 DEF EmittedInv
  <2>2. CASE i \in 1 .. n
    <3>1. phase'[t] = "mkdir" => phase[t] = "mkdir"
      BY <1>1 DEF OrderInv, RecorderType
    <3>2. QED BY <1>2, <2>1, <2>2, <3>1 DEF OrderInv, EmittedInv
  <2>3. CASE i = n + 1
    <3>1. t = s /\ log'[i] = current[s]
      BY <1>1, <1>2, <2>1, <2>3
    <3>2. phase'[s] = "open"
      BY <1>1 DEF OrderInv, RecorderType
    <3>3. QED BY <1>4, <3>1, <3>2
  <2>4. QED BY <1>2, <2>2, <2>3
<1>6. StreamOrder'
  <2>1. SUFFICES ASSUME NEW i \in 1 .. n + 1, NEW j \in 1 .. n + 1, i < j,
                        log'[i].id[1] = log'[j].id[1]
                 PROVE  log'[i].id[2] < log'[j].id[2]
    BY <1>2 DEF StreamOrder
  <2>2. i \in 1 .. n
    BY <1>2, <2>1
  <2>3. CASE j \in 1 .. n
    BY <1>2, <2>1, <2>2, <2>3 DEF OrderInv, StreamOrder
  <2>4. CASE j = n + 1
    BY <1>1, <1>2, <2>1, <2>2, <2>4 DEF OrderInv, EmittedInv
  <2>5. QED BY <1>2, <2>3, <2>4
<1>7. QED BY <1>5, <1>6 DEF OrderInv

LEMMA EmitOrder ==
  ASSUME OrderInv, NEW s \in Streams, Emit(s) \/ Ingest(s), RecorderType'
  PROVE  OrderInv'
<1>1. /\ phase' = [phase EXCEPT ![s] = "mkdir"]
      /\ \A t \in Streams \ {s} : current'[t] = current[t]
      /\ current'[s].id[2] = current[s].id[2] + 1
      /\ log' = log
  BY DEF OrderInv, RecorderType, Emit, Ingest, Await, EventOf
<1>2. \A t \in Streams : current[t].id[2] \in Nat
  BY DEF OrderInv, RecorderType, CoreEvents
<1>3. \A i \in 1 .. Len(log) : log[i].id[2] \in Nat
  <2>1. \A i \in 1 .. Len(log) : log[i] \in CoreEvents
    BY ElementOfSeq DEF OrderInv, RecorderType
  <2>2. QED BY <2>1 DEF CoreEvents
<1>4. EmittedInv'
  <2>1. SUFFICES ASSUME NEW i \in 1 .. Len(log), NEW t \in Streams,
                        log[i].id[1] = t
                 PROVE  /\ log[i].id[2] <= current'[t].id[2]
                        /\ phase'[t] = "mkdir"
                             => log[i].id[2] < current'[t].id[2]
    BY <1>1 DEF EmittedInv
  <2>2. /\ log[i].id[2] <= current[t].id[2]
        /\ phase[t] = "mkdir" => log[i].id[2] < current[t].id[2]
    BY <2>1 DEF OrderInv, EmittedInv
  <2>3. CASE t = s
    BY <1>1, <1>2, <1>3, <2>2, <2>3
  <2>4. CASE t # s
    BY <1>1, <2>2, <2>4 DEF OrderInv, RecorderType
  <2>5. QED BY <2>3, <2>4
<1>5. StreamOrder'
  BY <1>1 DEF OrderInv, StreamOrder
<1>6. QED BY <1>4, <1>5 DEF OrderInv

\* Whoever leaves the log and the events alone and moves past the push.
LEMMA OtherOrder ==
  ASSUME OrderInv, RecorderType', UNCHANGED <<log, current>>,
         \A s \in Streams : phase'[s] = "mkdir" => phase[s] = "mkdir"
  PROVE  OrderInv'
  BY DEF OrderInv, EmittedInv, StreamOrder

LEMMA NextOrderInv == OrderInv /\ PrefixInv' /\ [Next]_vars => OrderInv'
<1> SUFFICES ASSUME OrderInv, PrefixInv', [Next]_vars
             PROVE  OrderInv'
  OBVIOUS
<1>0. RecorderType'
  BY DEF PrefixInv
<1>1. ASSUME NEW s \in Streams, Emit(s) \/ Ingest(s) PROVE OrderInv'
  BY <1>0, <1>1, EmitOrder
<1>2. ASSUME NEW s \in Streams, Push(s) PROVE OrderInv'
  BY <1>0, <1>2, PushOrder
<1>3. ASSUME NEW s \in Streams,
             OpenFile(s) \/ WriteChunk(s) \/ WriteFails(s) \/ AppendFails(s)
               \/ Publish(s)
      PROVE  OrderInv'
  <2>1. UNCHANGED <<log, current>>
    BY <1>3 DEF OpenFile, WriteChunk, WriteFails, AppendFails, Publish
  <2>2. \A t \in Streams : phase'[t] = "mkdir" => phase[t] = "mkdir"
    BY <1>3 DEF OpenFile, WriteChunk, WriteFails, AppendFails, Publish, Await,
                OrderInv, RecorderType
  <2>3. QED BY <1>0, <2>1, <2>2, OtherOrder
<1>4. ASSUME NEW c \in Clients, Connect(c) \/ Drop(c) \/ Receive(c)
      PROVE  OrderInv'
  <2>1. UNCHANGED recorderVars
    BY <1>4 DEF Connect, Drop, Receive
  <2>2. QED BY <1>0, <2>1, OtherOrder DEF recorderVars
<1>5. CASE UNCHANGED vars
  BY <1>0, <1>5, OtherOrder DEF vars, recorderVars
<1>6. QED BY <1>1, <1>2, <1>3, <1>4, <1>5 DEF Next

\* The log keeps the order of every emitter and has no event twice, although
\* emitters overtake each other on the way to it.
THEOREM LogKeepsOrder == Spec => []StreamOrder
<1>1. OrderInv => StreamOrder
  BY DEF OrderInv
<1>2. QED
  BY <1>1, InitOrderInv, NextOrderInv, PrefixInvariant, PTL DEF Spec
-----------------------------------------------------------------------------
(* The timeline: lemmas about the sequences it is made of.                 *)

LEMMA SetOfAppend ==
  ASSUME NEW S, NEW s \in Seq(S), NEW e \in S
  PROVE  ToSet(Append(s, e)) = ToSet(s) \cup {e}
<1>1. /\ DOMAIN Append(s, e) = 1 .. Len(s) + 1 /\ DOMAIN s = 1 .. Len(s)
      /\ Len(s) \in Nat
  BY AppendProperties, LenProperties
<1>2. \A i \in 1 .. Len(s) : Append(s, e)[i] = s[i]
  BY AppendProperties
<1>3. Append(s, e)[Len(s) + 1] = e
  BY AppendProperties
<1>4. QED BY <1>1, <1>2, <1>3 DEF ToSet

LEMMA SetOfTail ==
  ASSUME NEW S, NEW s \in Seq(S), s # <<>>
  PROVE  /\ Head(s) \in S /\ Tail(s) \in Seq(S)
         /\ ToSet(s) = ToSet(Tail(s)) \cup {Head(s)}
<1>1. /\ Tail(s) \in Seq(S) /\ Head(s) \in S
      /\ Len(Tail(s)) = Len(s) - 1
      /\ \A i \in 1 .. Len(Tail(s)) : Tail(s)[i] = s[i + 1]
  BY HeadTailProperties
<1>2. /\ Len(s) \in Nat \ {0} /\ DOMAIN s = 1 .. Len(s)
      /\ DOMAIN Tail(s) = 1 .. Len(s) - 1
  BY <1>1, EmptySeq, LenProperties
<1>3. Head(s) = s[1]
  BY <1>2, HeadTailOfSubSeq, SubSeqFull
<1>4. ToSet(s) \subseteq ToSet(Tail(s)) \cup {Head(s)}
  <2>1. SUFFICES ASSUME NEW i \in 1 .. Len(s)
                 PROVE  s[i] \in ToSet(Tail(s)) \cup {Head(s)}
    BY <1>2 DEF ToSet
  <2>2. CASE i = 1
    BY <1>3, <2>2
  <2>3. CASE i # 1
    <3>1. i - 1 \in 1 .. Len(s) - 1 /\ (i - 1) + 1 = i
      BY <1>2, <2>3
    <3>2. Tail(s)[i - 1] = s[i]
      BY <1>1, <3>1
    <3>3. QED BY <1>2, <3>1, <3>2 DEF ToSet
  <2>4. QED BY <2>2, <2>3
<1>5. ToSet(Tail(s)) \cup {Head(s)} \subseteq ToSet(s)
  <2>1. \A i \in 1 .. Len(s) - 1 : i + 1 \in 1 .. Len(s) /\ Tail(s)[i] = s[i + 1]
    BY <1>1, <1>2
  <2>2. 1 \in 1 .. Len(s)
    BY <1>2
  <2>3. QED BY <1>2, <1>3, <2>1, <2>2 DEF ToSet
<1>6. QED BY <1>1, <1>4, <1>5

LEMMA InsertAtProperties ==
  ASSUME NEW S, NEW s \in Seq(S), NEW e \in S, NEW i \in 1 .. Len(s) + 1
  PROVE  /\ InsertAt(s, i, e) \in Seq(S)
         /\ Len(InsertAt(s, i, e)) = Len(s) + 1
         /\ \A j \in 1 .. Len(s) + 1 :
              InsertAt(s, i, e)[j] = IF j < i THEN s[j]
                                     ELSE IF j = i THEN e ELSE s[j - 1]
<1> DEFINE n == Len(s)
           head == SubSeq(s, 1, i - 1)
           rest == SubSeq(s, i, n)
<1>1. n \in Nat /\ i \in Int /\ i - 1 \in Int /\ n \in Int
  BY LenProperties
<1>2. \A j \in 1 .. n : s[j] \in S
  BY ElementOfSeq
<1>3. /\ head \in Seq(S) /\ Len(head) = i - 1
      /\ \A j \in 1 .. i - 1 : head[j] = s[j]
  <2>1. \A j \in 1 .. i - 1 : s[j] \in S
    BY <1>1, <1>2
  <2>2. /\ head \in Seq(S)
        /\ Len(head) = IF 1 <= i - 1 THEN (i - 1) - 1 + 1 ELSE 0
        /\ \A j \in 1 .. (i - 1) - 1 + 1 : head[j] = s[1 + j - 1]
    BY <1>1, <2>1, SubSeqProperties
  <2>3. (i - 1) - 1 + 1 = i - 1 /\ \A j \in 1 .. i - 1 : 1 + j - 1 = j
    BY <1>1
  <2>4. QED BY <1>1, <2>2, <2>3
<1>4. /\ rest \in Seq(S) /\ Len(rest) = n - i + 1
      /\ \A j \in 1 .. n - i + 1 : rest[j] = s[i + j - 1]
  <2>1. \A j \in i .. n : s[j] \in S
    BY <1>1, <1>2
  <2>2. /\ rest \in Seq(S)
        /\ Len(rest) = IF i <= n THEN n - i + 1 ELSE 0
        /\ \A j \in 1 .. n - i + 1 : rest[j] = s[i + j - 1]
    BY <1>1, <2>1, SubSeqProperties
  <2>3. QED BY <1>1, <2>2
<1>5. <<e>> \in Seq(S) /\ Len(<<e>>) = 1 /\ <<e>>[1] = e
  OBVIOUS
<1> DEFINE front == head \o <<e>>
<1> HIDE DEF head, rest, n
<1>6. /\ front \in Seq(S) /\ Len(front) = i
      /\ \A j \in 1 .. i : front[j] = IF j < i THEN s[j] ELSE e
  <2>1. /\ front \in Seq(S) /\ Len(front) = Len(head) + Len(<<e>>)
        /\ \A j \in 1 .. Len(head) + Len(<<e>>) :
             front[j] = IF j <= Len(head) THEN head[j] ELSE <<e>>[j - Len(head)]
    BY <1>3, <1>5, ConcatProperties
  <2>2. Len(head) + Len(<<e>>) = i
    BY <1>1, <1>3, <1>5
  <2>3. \A j \in 1 .. i : front[j] = IF j < i THEN s[j] ELSE e
    <3>1. \A j \in 1 .. i :
            (j < i => j \in 1 .. i - 1) /\ (~(j < i) => j - (i - 1) = 1)
      BY <1>1
    <3>2. \A j \in 1 .. i : j <= i - 1 <=> j < i
      BY <1>1
    <3>3. \A j \in 1 .. i :
            front[j] = IF j < i THEN head[j] ELSE <<e>>[j - (i - 1)]
      BY <1>3, <2>1, <2>2, <3>2
    <3>4. QED BY <1>3, <1>5, <3>1, <3>3
  <2>4. QED BY <2>1, <2>2, <2>3
<1> HIDE DEF front
<1>7. /\ front \o rest \in Seq(S)
      /\ Len(front \o rest) = i + (n - i + 1)
      /\ \A j \in 1 .. i + (n - i + 1) :
           (front \o rest)[j] = IF j <= i THEN front[j] ELSE rest[j - i]
  <2>1. /\ front \o rest \in Seq(S)
        /\ Len(front \o rest) = Len(front) + Len(rest)
        /\ \A j \in 1 .. Len(front) + Len(rest) :
             (front \o rest)[j] = IF j <= Len(front) THEN front[j]
                                  ELSE rest[j - Len(front)]
    BY <1>4, <1>6, ConcatProperties
  <2>2. Len(front) = i /\ Len(rest) = n - i + 1
    BY <1>4, <1>6
  <2>3. QED BY <2>1, <2>2
<1>8. i + (n - i + 1) = n + 1
  BY <1>1
<1>9. \A j \in 1 .. n + 1 :
        (front \o rest)[j] = IF j < i THEN s[j] ELSE IF j = i THEN e ELSE s[j - 1]
  <2>1. \A j \in 1 .. n + 1 : j > i =>
          j - i \in 1 .. n - i + 1 /\ i + (j - i) - 1 = j - 1
    BY <1>1
  <2>2. \A j \in 1 .. n + 1 : j > i => rest[j - i] = s[j - 1]
    BY <1>4, <2>1
  <2>3. QED BY <1>1, <1>6, <1>7, <1>8, <2>2
<1>10. InsertAt(s, i, e) = front \o rest
  BY DEF InsertAt, front, head, rest, n
<1>11. QED BY <1>7, <1>8, <1>9, <1>10 DEF n

\* A set of numbers that is not empty has a least one.
LEMMA LeastNumber ==
  ASSUME NEW S \in SUBSET Nat, S # {}
  PROVE  Min(S) \in S /\ \A m \in S : Min(S) <= m
<1>1. PICK n \in S : \A m \in S : ~(<<m, n>> \in OpToRel(<, Nat))
  BY NatLessThanWellFounded, WFMin
<1>2. \A m \in S : ~(m < n)
  BY <1>1 DEF OpToRel
<1>3. \A m \in S : n <= m
  BY <1>2
<1>4. QED BY <1>3 DEF Min

\* Whether two events are the session's own.
Own(e, f) == e.id[1] \notin Posted /\ f.id[1] \notin Posted

InOrder(shown) ==
  \A i, j \in 1 .. Len(shown) :
    i < j =>
      /\ shown[i].id # shown[j].id
      /\ ~Later(shown[i], shown[j])
      /\ Own(shown[i], shown[j]) => shown[i].sequence < shown[j].sequence

\* The order of the timeline is a total one, up to ties.
LEMMA LaterProperties ==
  ASSUME NEW e \in CoreEvents, NEW f \in CoreEvents, NEW g \in CoreEvents
  PROVE  /\ Later(e, f) => ~Later(f, e) /\ e.sequence >= f.sequence
         /\ ~Later(e, f) => e.sequence <= f.sequence
         /\ Later(e, f) /\ ~Later(e, g) => Later(g, f)
<1>1. /\ e.sequence \in Nat /\ f.sequence \in Nat /\ g.sequence \in Nat
      /\ e.occurredAt \in Nat /\ f.occurredAt \in Nat /\ g.occurredAt \in Nat
  BY DEF CoreEvents
<1> QED BY <1>1 DEF Later

LEMMA PlaceOfProperties ==
  ASSUME NEW shown \in Seq(CoreEvents), NEW e \in CoreEvents, InOrder(shown)
  PROVE  /\ PlaceOf(shown, e) \in 1 .. Len(shown) + 1
         /\ \A i \in 1 .. Len(shown) :
              i < PlaceOf(shown, e) <=> ~Later(shown[i], e)
<1> DEFINE n == Len(shown)
           later == {i \in DOMAIN shown : Later(shown[i], e)} \cup {n + 1}
<1>1. n \in Nat /\ DOMAIN shown = 1 .. n
  BY LenProperties
<1>2. \A i \in 1 .. n : shown[i] \in CoreEvents
  BY ElementOfSeq
<1>3. PlaceOf(shown, e) \in later /\ \A m \in later : PlaceOf(shown, e) <= m
  <2>1. later \in SUBSET Nat /\ later # {}
    BY <1>1
  <2>2. QED BY <2>1, LeastNumber DEF PlaceOf
<1> DEFINE p == PlaceOf(shown, e)
<1>4. p \in 1 .. n + 1
  BY <1>1, <1>3
<1>5. ASSUME NEW i \in 1 .. n, i < p PROVE ~Later(shown[i], e)
  <2>1. i \notin later
    BY <1>1, <1>3, <1>4, <1>5
  <2>2. QED BY <1>1, <1>5, <2>1
<1>6. ASSUME NEW i \in 1 .. n, ~(i < p) PROVE Later(shown[i], e)
  <2>1. p \in 1 .. n
    BY <1>1, <1>4, <1>6
  <2>2. Later(shown[p], e)
    BY <1>1, <1>3, <2>1
  <2>3. p < i \/ p = i
    BY <1>4, <1>6
  <2>4. CASE p = i
    BY <2>2, <2>4
  <2>5. CASE p < i
    <3>1. ~Later(shown[p], shown[i])
      BY <1>6, <2>1, <2>5 DEF InOrder
    <3>2. shown[p] \in CoreEvents /\ shown[i] \in CoreEvents
      BY <1>2, <1>6, <2>1
    <3>3. QED BY <2>2, <3>1, <3>2, LaterProperties
  <2>6. QED BY <2>3, <2>4, <2>5
<1>7. QED BY <1>4, <1>5, <1>6

\* Showing an event adds it and nothing else, in its place.
LEMMA ShowProperties ==
  ASSUME NEW shown \in Seq(CoreEvents), NEW e \in CoreEvents, InOrder(shown)
  PROVE  /\ Show(shown, e) \in Seq(CoreEvents)
         /\ ToSet(Show(shown, e)) \subseteq ToSet(shown) \cup {e}
         /\ Ids(shown) \cup {e.id} \subseteq Ids(Show(shown, e))
         /\ (\A i \in 1 .. Len(shown) :
               Own(shown[i], e) /\ shown[i].sequence = e.sequence => shown[i] = e)
              => InOrder(Show(shown, e))
<1>1. CASE e.id \in Ids(shown)
  BY <1>1 DEF Show
<1>2. CASE e.id \notin Ids(shown)
  <2> DEFINE n == Len(shown)
             p == PlaceOf(shown, e)
             t == Show(shown, e)
  <2>1. /\ n \in Nat /\ DOMAIN shown = 1 .. n
        /\ p \in 1 .. n + 1
        /\ \A i \in 1 .. n : i < p <=> ~Later(shown[i], e)
    BY LenProperties, PlaceOfProperties
  <2>2. t = InsertAt(shown, p, e)
    BY <1>2 DEF Show
  <2>3. /\ t \in Seq(CoreEvents) /\ Len(t) = n + 1
        /\ \A j \in 1 .. n + 1 :
             t[j] = IF j < p THEN shown[j] ELSE IF j = p THEN e ELSE shown[j - 1]
    <3>1. p \in 1 .. Len(shown) + 1
      BY <2>1
    <3>2. QED BY <2>2, <3>1, InsertAtProperties
  <2>4. DOMAIN t = 1 .. n + 1
    BY <2>3, LenProperties
  <2> HIDE DEF n, p, t
  <2>5. ToSet(t) \subseteq ToSet(shown) \cup {e}
    <3>1. \A j \in 1 .. n + 1 :
            (j < p => j \in 1 .. n) /\ (j > p => j - 1 \in 1 .. n)
      BY <2>1
    <3>2. SUFFICES ASSUME NEW j \in 1 .. n + 1
                   PROVE  t[j] \in ToSet(shown) \cup {e}
      BY <2>4 DEF ToSet
    <3>3. t[j] = e \/ \E i \in 1 .. n : t[j] = shown[i]
      <4>1. CASE j < p
        BY <2>3, <3>1, <4>1
      <4>2. CASE j = p
        BY <2>3, <4>2
      <4>3. CASE j > p
        BY <2>1, <2>3, <3>1, <4>3
      <4>4. QED BY <2>1, <4>1, <4>2, <4>3
    <3>4. QED BY <2>1, <3>3 DEF ToSet
  <2>6. ToSet(shown) \cup {e} \subseteq ToSet(t)
    <3>1. ASSUME NEW i \in 1 .. n PROVE \E j \in 1 .. n + 1 : t[j] = shown[i]
      <4>1. CASE i < p
        <5>1. i \in 1 .. n + 1 /\ t[i] = shown[i]
          BY <2>1, <2>3, <3>1, <4>1
        <5>2. QED BY <5>1
      <4>2. CASE ~(i < p)
        <5>1. i + 1 \in 1 .. n + 1 /\ ~(i + 1 < p) /\ i + 1 # p /\ (i + 1) - 1 = i
          BY <2>1, <3>1, <4>2
        <5>2. t[i + 1] = shown[i]
          BY <2>3, <5>1
        <5>3. QED BY <5>1, <5>2
      <4>3. QED BY <4>1, <4>2
    <3>2. p \in 1 .. n + 1 /\ t[p] = e
      BY <2>1, <2>3
    <3>3. QED BY <2>1, <2>4, <3>1, <3>2 DEF ToSet
  <2>7. Ids(shown) \cup {e.id} \subseteq Ids(t)
    BY <2>6 DEF Ids
  <2>8. ASSUME \A i \in 1 .. n :
                 Own(shown[i], e) /\ shown[i].sequence = e.sequence => shown[i] = e
        PROVE  InOrder(t)
    <3>1. /\ e.sequence \in Nat
          /\ \A i \in 1 .. n : shown[i] \in CoreEvents /\ shown[i].sequence \in Nat
      <4>1. \A i \in 1 .. n : shown[i] \in CoreEvents
        BY ElementOfSeq DEF n
      <4>2. QED BY <4>1 DEF CoreEvents
    <3>2. \A i \in 1 .. n : shown[i].id # e.id
      BY <1>2, <2>1 DEF Ids, ToSet
    <3>3. \A i \in 1 .. n : Own(shown[i], e) => shown[i].sequence # e.sequence
      BY <2>8, <3>2
    <3>4. ASSUME NEW i \in 1 .. n, i < p
          PROVE  /\ shown[i].id # e.id /\ ~Later(shown[i], e)
                 /\ Own(shown[i], e) => shown[i].sequence < e.sequence
      <4>1. ~Later(shown[i], e)
        BY <2>1, <3>4
      <4>2. shown[i].sequence <= e.sequence
        BY <3>1, <4>1, LaterProperties
      <4> QED BY <3>1, <3>2, <3>3, <4>1, <4>2
    <3>5. ASSUME NEW i \in 1 .. n, ~(i < p)
          PROVE  /\ e.id # shown[i].id /\ ~Later(e, shown[i])
                 /\ Own(e, shown[i]) => e.sequence < shown[i].sequence
      <4>1. Later(shown[i], e)
        BY <2>1, <3>5
      <4>2. shown[i].sequence >= e.sequence /\ ~Later(e, shown[i])
        BY <3>1, <4>1, LaterProperties
      <4>3. Own(e, shown[i]) => shown[i].sequence # e.sequence
        BY <3>3 DEF Own
      <4> QED BY <3>1, <3>2, <4>2, <4>3
    <3>6. \A i, j \in 1 .. n :
            i < j =>
              /\ shown[i].id # shown[j].id
              /\ ~Later(shown[i], shown[j])
              /\ Own(shown[i], shown[j]) => shown[i].sequence < shown[j].sequence
      BY DEF InOrder, n
    <3>7. SUFFICES ASSUME NEW i \in 1 .. n + 1, NEW j \in 1 .. n + 1, i < j
                   PROVE  /\ t[i].id # t[j].id
                          /\ ~Later(t[i], t[j])
                          /\ Own(t[i], t[j]) => t[i].sequence < t[j].sequence
      BY <2>3 DEF InOrder
    <3>8. CASE j < p
      <4>1. i \in 1 .. n /\ j \in 1 .. n /\ t[i] = shown[i] /\ t[j] = shown[j]
        BY <2>1, <2>3, <3>7, <3>8
      <4>2. QED BY <3>6, <3>7, <4>1
    <3>9. CASE j = p
      <4>1. i \in 1 .. n /\ i < p /\ t[i] = shown[i] /\ t[j] = e
        BY <2>1, <2>3, <3>7, <3>9
      <4>2. QED BY <3>4, <4>1
    <3>10. CASE j > p
      <4>1. j - 1 \in 1 .. n /\ ~(j - 1 < p) /\ t[j] = shown[j - 1]
        BY <2>1, <2>3, <3>10
      <4>2. CASE i < p
        <5>1. i \in 1 .. n /\ t[i] = shown[i] /\ i < j - 1
          BY <2>1, <2>3, <3>10, <4>2
        <5>2. QED BY <3>6, <4>1, <5>1
      <4>3. CASE i = p
        <5>1. t[i] = e
          BY <2>3, <4>3
        <5> QED BY <3>5, <4>1, <5>1
      <4>4. CASE i > p
        <5>1. i - 1 \in 1 .. n /\ t[i] = shown[i - 1] /\ i - 1 < j - 1
          BY <2>1, <2>3, <3>7, <4>4
        <5>2. QED BY <3>6, <4>1, <5>1
      <4>5. QED BY <2>1, <4>2, <4>3, <4>4
    <3>11. QED BY <2>1, <3>8, <3>9, <3>10
  <2>9. QED BY <2>3, <2>5, <2>7, <2>8 DEF n, t
<1>3. QED BY <1>1, <1>2
-----------------------------------------------------------------------------
(* The timeline: what it shows.                                            *)

\* What clients hold comes from the log, and so does what was published.
ClientInv ==
  /\ published \subseteq EventIds \cap Ids(log)
  /\ connected \subseteq Clients
  /\ wire \in [Clients -> Seq(CoreEvents)]
  /\ view \in [Clients -> Seq(CoreEvents)]
  /\ faults \in 0 .. MaxFaults
  /\ drops \in 0 .. MaxDrops
  /\ \A c \in Clients : ToSet(wire[c]) \cup ToSet(view[c]) \subseteq ToSet(log)

\* An event waiting for its write or for the bus is in the log.
UnderWay ==
  \A s \in Streams :
    /\ phase[s] # "idle" => current[s].id \in EventIds
    /\ phase[s] \in {"open", "write", "publish"} => current[s] \in ToSet(log)

\* No two events of the session have one number, the next number is free.
NumberedEvents ==
  {e \in ToSet(log) \cup {current[s] : s \in {t \in Streams : phase[t] = "mkdir"}} :
     e.id[1] \notin Posted}

NumberInv ==
  /\ \A e \in NumberedEvents : e.sequence <= sequence
  /\ \A e, f \in NumberedEvents : e.sequence = f.sequence => e = f

TimelineInv == ClientInv /\ UnderWay /\ NumberInv /\ ViewInOrder /\ NoGap

LEMMA InitTimelineInv == Init => TimelineInv
<1> SUFFICES ASSUME Init PROVE TimelineInv
  OBVIOUS
<1>1. <<>> \in Seq(CoreEvents) /\ ToSet(<<>>) = {} /\ Len(<<>>) = 0
  BY EmptySeq DEF ToSet
<1>2. ClientInv
  BY <1>1, LogAssumption DEF Init, ClientInv
<1>3. UnderWay
  BY DEF Init, UnderWay
<1>4. NumberInv
  BY <1>1 DEF Init, NumberInv, NumberedEvents
<1>5. ViewInOrder /\ NoGap
  BY <1>1 DEF Init, ViewInOrder, NoGap
<1>6. QED BY <1>2, <1>3, <1>4, <1>5 DEF TimelineInv

\* Views that stay as they are stay in order.
LEMMA ViewsKept ==
  ASSUME UNCHANGED view, ViewInOrder
  PROVE  ViewInOrder'
BY DEF ViewInOrder

LEMMA OrderedViews ==
  /\ ViewInOrder <=> \A c \in Clients : InOrder(view[c])
  /\ ViewInOrder' <=> \A c \in Clients : InOrder(view'[c])
BY DEF ViewInOrder, InOrder, Own

\* An emit takes the next number.
LEMMA EmitTimeline ==
  ASSUME TimelineInv, RecorderType, NEW s \in Streams, Emit(s)
  PROVE  TimelineInv'
<1> USE DEF RecorderType, Steps
<1>1. /\ phase' = [phase EXCEPT ![s] = "mkdir"]
      /\ current' = [current EXCEPT ![s] = current'[s]]
      /\ current'[s] = EventOf(s, current[s].id[2] + 1, sequence + 1)
      /\ sequence' = sequence + 1
      /\ current[s].id[2] < MaxEvents
      /\ UNCHANGED <<log, clientVars, published, faults, drops>>
  BY DEF Emit, Await
<1>2. current'[s].id \in EventIds /\ current'[s].sequence = sequence + 1
  <2>1. sequence + 1 \in Nat
    OBVIOUS
  <2> QED BY <1>1, <2>1, NextEvent
<1>3. ClientInv' /\ ViewInOrder' /\ NoGap'
  <2>1. ViewInOrder'
    BY <1>1, ViewsKept DEF TimelineInv, clientVars
  <2> QED BY <1>1, <2>1 DEF TimelineInv, ClientInv, NoGap, clientVars
<1>4. UnderWay'
  BY <1>1, <1>2 DEF TimelineInv, UnderWay
<1>5. NumberedEvents' \subseteq NumberedEvents \cup {current'[s]}
  BY <1>1 DEF NumberedEvents
<1>6. \A e \in NumberedEvents : e.sequence \in Nat
  <2>1. \A e \in ToSet(log) : e \in CoreEvents
    <3>1. DOMAIN log = 1 .. Len(log)
      BY LenProperties
    <3>2. \A i \in 1 .. Len(log) : log[i] \in CoreEvents
      BY ElementOfSeq
    <3>3. QED BY <3>1, <3>2 DEF ToSet
  <2>2. \A e \in NumberedEvents : e \in CoreEvents
    BY <2>1 DEF NumberedEvents
  <2>3. QED BY <2>2 DEF CoreEvents
<1>7. \A e \in NumberedEvents : e.sequence < sequence'
  BY <1>1, <1>6 DEF TimelineInv, NumberInv
<1>8. NumberInv'
  <2>1. current'[s].sequence = sequence' /\ sequence' \in Nat
    BY <1>1, <1>2
  <2>2. \A e \in NumberedEvents' : e.sequence <= sequence'
    <3>1. SUFFICES ASSUME NEW e \in NumberedEvents' PROVE e.sequence <= sequence'
      OBVIOUS
    <3>2. CASE e \in NumberedEvents
      BY <1>6, <1>7, <2>1, <3>2
    <3>3. CASE e = current'[s]
      BY <2>1, <3>3
    <3> QED BY <1>5, <3>2, <3>3
  <2>3. ASSUME NEW e \in NumberedEvents', NEW f \in NumberedEvents',
               e.sequence = f.sequence
        PROVE  e = f
    <3>1. CASE e \in NumberedEvents /\ f \in NumberedEvents
      BY <2>3, <3>1 DEF TimelineInv, NumberInv
    <3>2. CASE e = current'[s] /\ f = current'[s]
      BY <3>2
    <3>3. CASE e = current'[s] /\ f \in NumberedEvents
      BY <1>6, <1>7, <2>1, <2>3, <3>3
    <3>4. CASE f = current'[s] /\ e \in NumberedEvents
      BY <1>6, <1>7, <2>1, <2>3, <3>4
    <3>5. QED BY <1>5, <3>1, <3>2, <3>3, <3>4
  <2>4. QED BY <2>2, <2>3 DEF NumberInv
<1>9. QED BY <1>3, <1>4, <1>8 DEF TimelineInv

\* An ingested event brings its number, the session's own are as they were.
LEMMA IngestTimeline ==
  ASSUME TimelineInv, RecorderType, NEW s \in Streams, Ingest(s)
  PROVE  TimelineInv'
<1> USE DEF RecorderType, Steps
<1>1. /\ s \in Posted
      /\ phase' = [phase EXCEPT ![s] = "mkdir"]
      /\ current' = [current EXCEPT ![s] = current'[s]]
      /\ current'[s] = EventOf(s, current[s].id[2] + 1,
                               Numbers[<<s, current[s].id[2] + 1>>])
      /\ current[s].id[2] < MaxEvents
      /\ UNCHANGED <<sequence, log, clientVars, published, faults, drops>>
  BY DEF Ingest, Await
<1>2. current'[s].id \in EventIds /\ current'[s].id[1] = s
  <2>1. EventOf(s, current[s].id[2] + 1, 0).id \in EventIds
    BY <1>1, NextEvent
  <2> QED BY <1>1, <2>1 DEF EventOf
<1>3. ClientInv' /\ ViewInOrder' /\ NoGap'
  <2>1. ViewInOrder'
    BY <1>1, ViewsKept DEF TimelineInv, clientVars
  <2> QED BY <1>1, <2>1 DEF TimelineInv, ClientInv, NoGap, clientVars
<1>4. UnderWay'
  BY <1>1, <1>2 DEF TimelineInv, UnderWay
<1>5. NumberedEvents' \subseteq NumberedEvents
  BY <1>1, <1>2 DEF NumberedEvents
<1>6. NumberInv'
  BY <1>1, <1>5 DEF TimelineInv, NumberInv
<1>7. QED BY <1>3, <1>4, <1>6 DEF TimelineInv

LEMMA PushTimeline ==
  ASSUME TimelineInv, RecorderType, NEW s \in Streams, Push(s)
  PROVE  TimelineInv'
<1> USE DEF RecorderType, Steps
<1>1. /\ phase[s] = "mkdir" /\ phase' = [phase EXCEPT ![s] = "open"]
      /\ log' = Append(log, current[s])
      /\ UNCHANGED <<sequence, current, clientVars, published, faults, drops>>
  BY DEF Push, Await
<1>2. ToSet(log') = ToSet(log) \cup {current[s]}
  BY <1>1, SetOfAppend
<1>3. ClientInv' /\ ViewInOrder' /\ NoGap'
  <2>1. UNCHANGED <<connected, wire, view, published, faults, drops>>
    BY <1>1 DEF clientVars
  <2>2. ToSet(log) \subseteq ToSet(log') /\ Ids(log) \subseteq Ids(log')
    BY <1>2 DEF Ids
  <2>3. ClientInv'
    BY <2>1, <2>2 DEF TimelineInv, ClientInv
  <2>4. QED BY <2>1, <2>3 DEF TimelineInv, ViewInOrder, NoGap
<1>4. UnderWay'
  BY <1>1, <1>2 DEF TimelineInv, UnderWay
<1>5. NumberedEvents' \subseteq NumberedEvents
  BY <1>1, <1>2 DEF NumberedEvents
<1>6. NumberInv'
  BY <1>1, <1>5 DEF TimelineInv, NumberInv
<1>7. QED BY <1>3, <1>4, <1>6 DEF TimelineInv

\* File operations and their failures touch neither log nor clients.
LEMMA FileTimeline ==
  ASSUME TimelineInv, RecorderType, NEW s \in Streams,
         OpenFile(s) \/ WriteChunk(s) \/ AppendFails(s) \/ WriteFails(s)
  PROVE  TimelineInv'
<1> USE DEF RecorderType, Steps
<1>1. /\ UNCHANGED <<sequence, log, current, clientVars, published, drops>>
      /\ faults' \in 0 .. MaxFaults
      /\ \A t \in Streams :
           \/ phase'[t] = phase[t]
           \/ phase'[t] = "idle"
           \/ phase[t] \in {"open", "write"} /\ phase'[t] \in {"write", "publish"}
  BY LogAssumption DEF OpenFile, WriteChunk, AppendFails, WriteFails, Await,
                       TimelineInv, ClientInv
<1>2. ClientInv' /\ ViewInOrder' /\ NoGap'
  BY <1>1 DEF TimelineInv, ClientInv, ViewInOrder, NoGap, clientVars
<1>3. UnderWay'
  BY <1>1 DEF TimelineInv, UnderWay
<1>4. NumberedEvents' \subseteq NumberedEvents
  <2>1. \A t \in Streams : phase'[t] = "mkdir" => phase[t] = "mkdir"
    BY <1>1
  <2>2. log' = log /\ current' = current
    BY <1>1
  <2>3. QED BY <2>1, <2>2 DEF NumberedEvents
<1>5. NumberInv'
  BY <1>1, <1>4 DEF TimelineInv, NumberInv
<1>6. QED BY <1>2, <1>3, <1>5 DEF TimelineInv

LEMMA PublishTimeline ==
  ASSUME TimelineInv, RecorderType, NEW s \in Streams, Publish(s)
  PROVE  TimelineInv'
<1> USE DEF RecorderType, Steps
<1>1. /\ phase[s] = "publish" /\ phase' = [phase EXCEPT ![s] = "idle"]
      /\ published' = published \cup {current[s].id}
      /\ \A c \in Clients : wire'[c] = IF c \in connected
                                         THEN Append(wire[c], current[s])
                                         ELSE wire[c]
      /\ wire' = [c \in Clients |-> wire'[c]]
      /\ UNCHANGED <<sequence, log, current, connected, view, faults, drops>>
  BY DEF Publish, Await
<1>2. current[s] \in ToSet(log) /\ current[s].id \in EventIds
  BY <1>1 DEF TimelineInv, UnderWay
<1>3. \A c \in Clients :
        /\ wire'[c] \in Seq(CoreEvents)
        /\ ToSet(wire[c]) \subseteq ToSet(wire'[c])
        /\ ToSet(wire'[c]) \subseteq ToSet(wire[c]) \cup {current[s]}
        /\ c \in connected => current[s] \in ToSet(wire'[c])
  <2> TAKE c \in Clients
  <2>1. wire[c] \in Seq(CoreEvents) /\ current[s] \in CoreEvents
    BY DEF TimelineInv, ClientInv
  <2>2. /\ Append(wire[c], current[s]) \in Seq(CoreEvents)
        /\ ToSet(Append(wire[c], current[s])) = ToSet(wire[c]) \cup {current[s]}
    BY <2>1, AppendProperties, SetOfAppend
  <2>3. QED BY <1>1, <2>1, <2>2
<1>4. ClientInv'
  <2>1. wire' \in [Clients -> Seq(CoreEvents)]
    BY <1>1, <1>3
  <2>2. \A c \in Clients : ToSet(wire'[c]) \cup ToSet(view[c]) \subseteq ToSet(log)
    BY <1>2, <1>3 DEF TimelineInv, ClientInv
  <2>3. published' \subseteq EventIds \cap Ids(log)
    BY <1>1, <1>2 DEF TimelineInv, ClientInv, Ids
  <2>4. QED BY <1>1, <2>1, <2>2, <2>3 DEF TimelineInv, ClientInv
<1>5. NoGap'
  <2>1. SUFFICES ASSUME NEW c \in connected, NEW id \in published' \ Unheard
                 PROVE  id \in Ids(wire'[c]) \cup Ids(view[c])
    BY <1>1 DEF NoGap
  <2>2. c \in Clients
    BY DEF TimelineInv, ClientInv
  <2>3. CASE id \in published
    <3>1. id \in Ids(wire[c]) \cup Ids(view[c])
      BY <2>3 DEF TimelineInv, NoGap
    <3>2. QED BY <1>3, <2>2, <3>1 DEF Ids
  <2>4. CASE id = current[s].id
    BY <1>3, <2>2, <2>4 DEF Ids
  <2>5. QED BY <1>1, <2>3, <2>4
<1>6. UnderWay' /\ ViewInOrder'
  BY <1>1 DEF TimelineInv, UnderWay, ViewInOrder
<1>7. NumberedEvents' \subseteq NumberedEvents
  BY <1>1 DEF NumberedEvents
<1>8. NumberInv'
  BY <1>1, <1>7 DEF TimelineInv, NumberInv
<1>9. QED BY <1>4, <1>5, <1>6, <1>8 DEF TimelineInv

\* What a client receives is shown in its place, or not listened for.
LEMMA ReceiveTimeline ==
  ASSUME TimelineInv, RecorderType, NEW c \in Clients, Receive(c)
  PROVE  TimelineInv'
<1> DEFINE e == Head(wire[c])
<1>1. /\ wire[c] # <<>> /\ wire' = [wire EXCEPT ![c] = Tail(wire[c])]
      /\ view' = IF e.id \in Unheard THEN view
                 ELSE [view EXCEPT ![c] = Show(view[c], e)]
      /\ UNCHANGED <<recorderVars, connected, published, faults, drops>>
  BY DEF Receive
<1>2. wire[c] \in Seq(CoreEvents) /\ view[c] \in Seq(CoreEvents) /\ InOrder(view[c])
  BY DEF TimelineInv, ClientInv, ViewInOrder, InOrder, Own
<1>3. /\ e \in CoreEvents /\ Tail(wire[c]) \in Seq(CoreEvents)
      /\ ToSet(wire[c]) = ToSet(Tail(wire[c])) \cup {e}
  BY <1>1, <1>2, SetOfTail
<1> HIDE DEF e
<1>4. \A i \in 1 .. Len(view[c]) :
        Own(view[c][i], e) /\ view[c][i].sequence = e.sequence
          => view[c][i] = e
  <2>1. \A i \in 1 .. Len(view[c]) : view[c][i] \in ToSet(view[c])
    <3>1. DOMAIN view[c] = 1 .. Len(view[c])
      BY <1>2, LenProperties
    <3>2. QED BY <3>1 DEF ToSet
  <2>2. ToSet(view[c]) \cup {e} \subseteq ToSet(log)
    BY <1>3 DEF TimelineInv, ClientInv
  <2>3. \A i \in 1 .. Len(view[c]) :
          Own(view[c][i], e) => {view[c][i], e} \subseteq NumberedEvents
    BY <2>1, <2>2 DEF NumberedEvents, Own
  <2>4. QED BY <2>3 DEF TimelineInv, NumberInv
<1> DEFINE shown == Show(view[c], e)
<1>5. /\ shown \in Seq(CoreEvents)
      /\ ToSet(shown) \subseteq ToSet(view[c]) \cup {e}
      /\ Ids(view[c]) \cup {e.id} \subseteq Ids(shown)
      /\ InOrder(shown)
  BY <1>2, <1>3, <1>4, ShowProperties
<1> HIDE DEF shown
<1>6. /\ view' \in [Clients -> Seq(CoreEvents)]
      /\ \A d \in Clients : d # c => view'[d] = view[d] /\ wire'[d] = wire[d]
      /\ view'[c] = IF e.id \in Unheard THEN view[c] ELSE shown
      /\ wire' \in [Clients -> Seq(CoreEvents)] /\ wire'[c] = Tail(wire[c])
  BY <1>1, <1>3, <1>5 DEF TimelineInv, ClientInv, shown
<1>7. ClientInv'
  <2>1. \A d \in Clients : ToSet(wire'[d]) \cup ToSet(view'[d]) \subseteq ToSet(log)
    <3> TAKE d \in Clients
    <3>1. CASE d = c
      BY <1>3, <1>5, <1>6, <3>1 DEF TimelineInv, ClientInv
    <3>2. CASE d # c
      BY <1>6, <3>2 DEF TimelineInv, ClientInv
    <3>3. QED BY <3>1, <3>2
  <2>2. QED BY <1>1, <1>6, <2>1 DEF TimelineInv, ClientInv, recorderVars
<1>8. ViewInOrder'
  <2>1. SUFFICES ASSUME NEW d \in Clients PROVE InOrder(view'[d])
    BY OrderedViews
  <2>2. CASE d = c
    BY <1>2, <1>5, <1>6, <2>2
  <2>3. CASE d # c
    BY <1>6, <2>3, OrderedViews DEF TimelineInv
  <2>4. QED BY <2>2, <2>3
<1>9. NoGap'
  <2>1. SUFFICES ASSUME NEW d \in connected, NEW id \in published \ Unheard
                 PROVE  id \in Ids(wire'[d]) \cup Ids(view'[d])
    BY <1>1 DEF NoGap
  <2>2. d \in Clients /\ id \in Ids(wire[d]) \cup Ids(view[d])
    BY DEF TimelineInv, ClientInv, NoGap
  <2>3. CASE d # c
    BY <1>6, <2>2, <2>3
  <2>4. CASE d = c
    <3>1. Ids(wire[c]) = Ids(Tail(wire[c])) \cup {e.id}
      BY <1>3 DEF Ids
    <3>2. Ids(view[c]) \subseteq Ids(view'[c])
      BY <1>5, <1>6
    <3>3. e.id \notin Unheard => e.id \in Ids(view'[c])
      BY <1>5, <1>6
    <3>4. QED BY <1>6, <2>1, <2>2, <2>4, <3>1, <3>2, <3>3
  <2>5. QED BY <2>3, <2>4
<1>10. UnderWay' /\ NumberInv'
  <2>1. UNCHANGED <<sequence, log, phase, current>>
    BY <1>1 DEF recorderVars
  <2>2. NumberedEvents' = NumberedEvents
    BY <2>1 DEF NumberedEvents
  <2>3. QED BY <2>1, <2>2 DEF TimelineInv, UnderWay, NumberInv
<1>11. QED BY <1>7, <1>8, <1>9, <1>10 DEF TimelineInv

\* A connection that is made gets the whole log, one that breaks holds nothing.
LEMMA ConnectionTimeline ==
  ASSUME TimelineInv, RecorderType, NEW c \in Clients, Connect(c) \/ Drop(c)
  PROVE  TimelineInv'
<1>1. /\ UNCHANGED <<recorderVars, view, published, faults>>
      /\ drops' \in 0 .. MaxDrops
      /\ \/ connected' = connected \cup {c} /\ wire' = [wire EXCEPT ![c] = log]
         \/ connected' = connected \ {c} /\ wire' = [wire EXCEPT ![c] = <<>>]
  BY LogAssumption DEF Connect, Drop, TimelineInv, ClientInv
<1>2. /\ UnderWay' /\ NumberInv' /\ ViewInOrder'
  <2>1. UNCHANGED <<sequence, log, phase, current, view>>
    BY <1>1 DEF recorderVars
  <2>2. NumberedEvents' = NumberedEvents
    BY <2>1 DEF NumberedEvents
  <2>3. QED BY <2>1, <2>2 DEF TimelineInv, UnderWay, NumberInv, ViewInOrder
<1>3. <<>> \in Seq(CoreEvents) /\ ToSet(<<>>) = {} /\ log \in Seq(CoreEvents)
  BY EmptySeq DEF ToSet, RecorderType
<1>4. ClientInv' /\ NoGap'
  <2>1. CASE /\ connected' = connected \cup {c}
             /\ wire' = [wire EXCEPT ![c] = log]
    BY <1>1, <1>3, <2>1 DEF TimelineInv, ClientInv, NoGap, recorderVars
  <2>2. CASE /\ connected' = connected \ {c}
             /\ wire' = [wire EXCEPT ![c] = <<>>]
    BY <1>1, <1>3, <2>2 DEF TimelineInv, ClientInv, NoGap, recorderVars
  <2>3. QED BY <1>1, <2>1, <2>2
<1>5. QED BY <1>2, <1>4 DEF TimelineInv

LEMMA NextTimelineInv == TimelineInv /\ PrefixInv /\ [Next]_vars => TimelineInv'
<1> SUFFICES ASSUME TimelineInv, PrefixInv, [Next]_vars
             PROVE  TimelineInv'
  OBVIOUS
<1>1. RecorderType
  BY DEF PrefixInv
<1>2. ASSUME NEW s \in Streams,
             Emit(s) \/ Ingest(s) \/ Push(s) \/ OpenFile(s) \/ WriteChunk(s)
               \/ AppendFails(s) \/ WriteFails(s) \/ Publish(s)
      PROVE  TimelineInv'
  BY <1>1, <1>2, EmitTimeline, IngestTimeline, PushTimeline, FileTimeline,
     PublishTimeline
<1>3. ASSUME NEW c \in Clients, Connect(c) \/ Drop(c) \/ Receive(c)
      PROVE  TimelineInv'
  BY <1>1, <1>3, ConnectionTimeline, ReceiveTimeline
<1>4. CASE UNCHANGED vars
  BY <1>4 DEF vars, recorderVars, clientVars, TimelineInv, ClientInv, UnderWay,
              NumberInv, NumberedEvents, ViewInOrder, NoGap
<1>5. QED BY <1>2, <1>3, <1>4 DEF Next

LEMMA TimelineInvariant == Spec => []TimelineInv
  BY InitTimelineInv, NextTimelineInv, PrefixInvariant, PTL DEF Spec

\* Every variable of the recorder and of the timelines stays in its set.
THEOREM LogTypeCorrect == Spec => []TypeOK
<1>1. PrefixInv /\ TimelineInv => TypeOK
  BY DEF PrefixInv, RecorderType, Steps, TimelineInv, ClientInv, TypeOK
<1>2. QED BY <1>1, PrefixInvariant, TimelineInvariant, PTL

\* A connected timeline misses nothing that was published and that it listens
\* for, however often it was connected and whatever was sent twice.
THEOREM TimelineComplete == Spec => []NoGap
<1>1. TimelineInv => NoGap
  BY DEF TimelineInv
<1>2. QED BY <1>1, TimelineInvariant, PTL

\* Whatever order replays, live events and second copies arrive in, and with
\* events of other sessions among them, a timeline shows each event once and
\* none after a later one, and the session's own as they were emitted.
THEOREM TimelineOrdered == Spec => []ViewInOrder
<1>1. TimelineInv => ViewInOrder
  BY DEF TimelineInv
<1>2. QED BY <1>1, TimelineInvariant, PTL
-----------------------------------------------------------------------------
(* A text that fits into one write call.                                   *)

Fits == faults = 0 /\ Len(Text(log)) <= ChunkSize

\* The first n lines of the log, piece by piece.
Lines(n) ==
  /\ Len(file) = 2 * n
  /\ \A i \in 1 .. 2 * n : file[i] = Text(log)[i]

\* While the text is written by one call, the file holds whole lines.
SmallInv ==
  Fits =>
    /\ \E n \in 0 .. Len(log) : Lines(n)
    /\ \A s \in Streams : phase[s] = "write" => offset[s] = 0

LEMMA InitSmall == Init => SmallInv
<1> SUFFICES ASSUME Init PROVE SmallInv
  OBVIOUS
<1>1. Len(log) = 0 /\ Len(file) = 0
  BY EmptySeq DEF Init
<1>2. Lines(0)
  BY <1>1 DEF Lines
<1> QED BY <1>1, <1>2 DEF Init, SmallInv

\* Whoever leaves file and log alone and begins no write.
LEMMA SmallKept ==
  ASSUME SmallInv, UNCHANGED <<file, log, offset>>, Fits' => Fits,
         \A s \in Streams : phase'[s] = "write" => phase[s] = "write"
  PROVE  SmallInv'
BY DEF SmallInv, Lines

LEMMA PushSmall ==
  ASSUME SmallInv, PrefixInv, NEW s \in Streams, Push(s), faults \in Nat
  PROVE  SmallInv'
<1> USE DEF PrefixInv, RecorderType
<1>1. /\ log' = Append(log, current[s]) /\ UNCHANGED <<file, offset, faults>>
      /\ phase' = [phase EXCEPT ![s] = "open"]
  BY DEF Push, Await
<1>2. log' \in Seq(CoreEvents) /\ IsPrefix(log, log') /\ Len(log') = Len(log) + 1
  BY <1>1, AppendProperties, PrefixOfAppend, PrefixReflexive
<1>3. /\ Len(Text(log)) <= Len(Text(log'))
      /\ \A i \in 1 .. Len(Text(log)) : Text(log)[i] = Text(log')[i]
      /\ Len(Text(log)) = 2 * Len(log) /\ Len(log) \in Nat
      /\ Len(Text(log')) \in Nat
  BY <1>2, TextOfPrefix, TextProperties, LenProperties
<1>4. SUFFICES ASSUME Fits' PROVE SmallInv'
  BY DEF SmallInv
<1>5. Fits
  BY <1>1, <1>3, <1>4, LogAssumption DEF Fits
<1>6. PICK n \in 0 .. Len(log) : Lines(n)
  BY <1>5 DEF SmallInv
<1>7. n \in 0 .. Len(log') /\ Lines(n)'
  BY <1>1, <1>2, <1>3, <1>6 DEF Lines
<1>8. \A t \in Streams : phase'[t] = "write" => offset'[t] = 0
  BY <1>1, <1>5 DEF SmallInv, Steps
<1> QED BY <1>7, <1>8 DEF SmallInv

LEMMA OpenSmall ==
  ASSUME SmallInv, PrefixInv, NEW s \in Streams, OpenFile(s)
  PROVE  SmallInv'
<1>1. /\ file' = <<>> /\ offset' = [offset EXCEPT ![s] = 0]
      /\ phase' = [phase EXCEPT ![s] = "write"] /\ UNCHANGED <<log, faults>>
  BY DEF OpenFile, Await
<1>2. Len(log) \in Nat /\ Len(file') = 0
  BY <1>1, EmptySeq, LenProperties DEF PrefixInv, RecorderType
<1>3. Lines(0)'
  BY <1>2 DEF Lines
<1> QED BY <1>1, <1>2, <1>3 DEF SmallInv, Fits, PrefixInv, RecorderType

\* The one call of a stream lays its lines over those the file has.
LEMMA WriteSmall ==
  ASSUME SmallInv, PrefixInv, NEW s \in Streams, WriteChunk(s)
  PROVE  SmallInv'
<1> USE DEF PrefixInv, RecorderType
<1>1. /\ phase[s] = "write" /\ UNCHANGED <<log, snapshot, faults>>
      /\ phase' = [phase EXCEPT ![s] =
                     IF Chunk(s) = Rest(s) THEN "publish" ELSE "write"]
      /\ file' = Put(file, Text(snapshot[s]), offset[s], Chunk(s))
      /\ offset' = [offset EXCEPT ![s] = offset[s] + Chunk(s)]
  BY DEF WriteChunk, Await
<1>2. SUFFICES ASSUME Fits PROVE SmallInv'
  BY <1>1 DEF SmallInv, Fits
<1> DEFINE m == Len(snapshot[s])
           text == Text(snapshot[s])
<1>3. /\ Len(text) = 2 * m /\ m \in Nat /\ m <= Len(log) /\ Len(log) \in Nat
      /\ text \in Seq(Pieces) /\ Len(Text(log)) = 2 * Len(log)
      /\ \A i \in 1 .. 2 * m : text[i] = Text(log)[i]
  BY TextProperties, TextOfPrefix, PrefixPointwise
<1>4. offset[s] = 0
  BY <1>1, <1>2 DEF SmallInv
<1>5. Chunk(s) = Rest(s) /\ Rest(s) = 2 * m
  <2>1. Rest(s) = 2 * m
    BY <1>3, <1>4 DEF Rest
  <2>2. Rest(s) <= ChunkSize
    BY <1>2, <1>3, <2>1, LogAssumption DEF Fits
  <2> QED BY <1>1, <2>1, <2>2, ChunkProperties
<1> HIDE DEF m, text
<1>6. PICK k \in 0 .. Len(log) : Lines(k)
  BY <1>2 DEF SmallInv
<1>7. /\ Len(file') = IF 2 * m > 2 * k THEN 2 * m ELSE 2 * k
      /\ \A i \in 1 .. Len(file') :
           file'[i] = IF 0 < i /\ i <= 2 * m THEN text[i]
                      ELSE IF i <= 2 * k THEN file[i] ELSE Hole
  <2>1. /\ 0 \in Nat /\ 2 * m \in Nat /\ 0 + 2 * m = 2 * m
        /\ 0 + 2 * m <= Len(text)
    BY <1>3
  <2>2. file' = Put(file, text, 0, 2 * m)
    BY <1>1, <1>4, <1>5 DEF text
  <2>3. Len(file) = 2 * k /\ file \in Seq(Pieces \cup {Hole})
    BY <1>6 DEF Lines
  <2>4. /\ Len(file') = IF 0 + 2 * m > Len(file) THEN 0 + 2 * m ELSE Len(file)
        /\ \A i \in 1 .. Len(file') :
             file'[i] = IF 0 < i /\ i <= 0 + 2 * m THEN text[i]
                        ELSE IF i <= Len(file) THEN file[i] ELSE Hole
    <3> HIDE DEF PrefixInv, RecorderType
    <3> QED BY <1>3, <2>1, <2>2, <2>3, PutProperties
  <2> QED BY <2>1, <2>3, <2>4
<1> DEFINE n == IF m > k THEN m ELSE k
<1>8. n \in 0 .. Len(log) /\ Len(file') = 2 * n
  BY <1>3, <1>6, <1>7
<1>9. ASSUME NEW i \in 1 .. 2 * n PROVE file'[i] = Text(log)[i]
  <2>1. i \in 1 .. Len(file') /\ 0 < i
    BY <1>3, <1>8
  <2>2. CASE i <= 2 * m
    <3>1. i \in 1 .. 2 * m
      BY <1>3, <1>8, <2>2
    <3> QED BY <1>3, <1>7, <2>1, <2>2, <3>1
  <2>3. CASE ~(i <= 2 * m)
    <3>1. i \in 1 .. 2 * k
      BY <1>3, <1>6, <2>3
    <3>2. file'[i] = file[i]
      <4>1. i <= 2 * k /\ ~(0 < i /\ i <= 2 * m)
        BY <1>3, <1>6, <2>3, <3>1
      <4>2. file'[i] = IF 0 < i /\ i <= 2 * m THEN text[i]
                       ELSE IF i <= 2 * k THEN file[i] ELSE Hole
        BY <1>7, <2>1
      <4> QED BY <4>1, <4>2
    <3> QED BY <1>6, <3>1, <3>2 DEF Lines
  <2> QED BY <2>2, <2>3
<1>10. PICK lines \in 0 .. Len(log) : lines = n
  BY <1>8
<1> HIDE DEF n
<1>11. Lines(lines)'
  <2>1. \A i \in 1 .. 2 * lines : file'[i] = Text(log')[i]
    BY <1>1, <1>9, <1>10
  <2>2. Len(file') = 2 * lines
    BY <1>8, <1>10
  <2> QED BY <2>1, <2>2 DEF Lines
<1>12. \A t \in Streams : phase'[t] = "write" => offset'[t] = 0
  BY <1>1, <1>2, <1>5 DEF SmallInv
<1>13. lines \in 0 .. Len(log')
  BY <1>1
<1> QED BY <1>11, <1>12, <1>13 DEF SmallInv

LEMMA NextSmall ==
  SmallInv /\ PrefixInv /\ TimelineInv /\ [Next]_vars => SmallInv'
<1> SUFFICES ASSUME SmallInv, PrefixInv, TimelineInv, [Next]_vars
             PROVE  SmallInv'
  OBVIOUS
<1>0. faults \in Nat /\ phase \in [Streams -> Steps]
  BY LogAssumption DEF TimelineInv, ClientInv, PrefixInv, RecorderType
<1>1. ASSUME NEW s \in Streams, Push(s) PROVE SmallInv'
  BY <1>0, <1>1, PushSmall
<1>2. ASSUME NEW s \in Streams, OpenFile(s) PROVE SmallInv'
  BY <1>2, OpenSmall
<1>3. ASSUME NEW s \in Streams, WriteChunk(s) PROVE SmallInv'
  BY <1>3, WriteSmall
<1>4. ASSUME NEW s \in Streams, WriteFails(s) PROVE SmallInv'
  <2>1. ~Fits'
    BY <1>0, <1>4 DEF WriteFails, Fits
  <2> QED BY <2>1 DEF SmallInv
<1>5. ASSUME NEW s \in Streams,
             Emit(s) \/ Ingest(s) \/ AppendFails(s) \/ Publish(s)
      PROVE  SmallInv'
  <2>1. UNCHANGED <<file, log, offset>> /\ (Fits' => Fits)
    BY <1>0, <1>5 DEF Emit, Ingest, AppendFails, Publish, Fits
  <2>2. \A t \in Streams : phase'[t] = "write" => phase[t] = "write"
    BY <1>0, <1>5 DEF Emit, Ingest, AppendFails, Publish, Await
  <2> QED BY <2>1, <2>2, SmallKept
<1>6. ASSUME NEW c \in Clients, Connect(c) \/ Drop(c) \/ Receive(c)
      PROVE  SmallInv'
  <2>1. UNCHANGED <<file, log, offset, phase, faults>>
    BY <1>6 DEF Connect, Drop, Receive, recorderVars
  <2> QED BY <2>1, SmallKept DEF Fits
<1>7. CASE UNCHANGED vars
  BY <1>7, SmallKept DEF vars, recorderVars, Fits
<1> QED BY <1>1, <1>2, <1>3, <1>4, <1>5, <1>6, <1>7 DEF Next

LEMMA SmallInvariant == Spec => []SmallInv
  BY InitSmall, NextSmall, PrefixInvariant, TimelineInvariant, PTL DEF Spec

\* As long as the text fits into one write call and no write has failed,
\* events.jsonl is the text of a prefix of the log, whole and without holes,
\* however many emitters rewrite it at the same time.
THEOREM SmallFileWhole == Spec => []SmallFileIsPrefix
<1>1. SmallInv /\ PrefixInv => SmallFileIsPrefix
  <2> SUFFICES ASSUME SmallInv, PrefixInv, Fits
               PROVE  \E n \in 0 .. Len(log) : file = Text(SubSeq(log, 1, n))
    BY DEF SmallFileIsPrefix, Fits
  <2>1. PICK n \in 0 .. Len(log) : Lines(n)
    BY DEF SmallInv
  <2> DEFINE some == SubSeq(log, 1, n)
  <2>2. log \in Seq(CoreEvents) /\ Len(log) \in Nat
    BY LenProperties DEF PrefixInv, RecorderType
  <2>3. /\ some \in Seq(CoreEvents) /\ Len(some) = n
        /\ \A i \in 1 .. n : some[i] = log[i]
    <3>1. \A i \in 1 .. n : log[i] \in CoreEvents
      BY <2>2, ElementOfSeq
    <3>2. /\ some \in Seq(CoreEvents)
          /\ Len(some) = IF 1 <= n THEN n - 1 + 1 ELSE 0
          /\ \A i \in 1 .. n - 1 + 1 : some[i] = log[1 + i - 1]
      BY <2>1, <3>1, SubSeqProperties
    <3>3. n - 1 + 1 = n /\ \A i \in 1 .. n : 1 + i - 1 = i
      BY <2>1
    <3> QED BY <2>1, <3>2, <3>3
  <2> HIDE DEF some
  <2>4. IsPrefix(some, log)
    BY <2>1, <2>2, <2>3, PrefixPointwise
  <2>5. /\ Text(some) \in Seq(Pieces) /\ Len(Text(some)) = 2 * n
        /\ \A i \in 1 .. 2 * n : Text(some)[i] = Text(log)[i]
    BY <2>2, <2>3, <2>4, TextProperties, TextOfPrefix
  <2>6. Text(some) \in Seq(Pieces \cup {Hole})
    <3>1. DOMAIN Text(some) = 1 .. 2 * n /\ 2 * n \in Nat
      BY <2>1, <2>5, LenProperties
    <3>2. \A i \in 1 .. 2 * n : Text(some)[i] \in Pieces \cup {Hole}
      BY <2>5, ElementOfSeq
    <3>3. Text(some) = [i \in 1 .. 2 * n |-> Text(some)[i]]
      BY <3>1 DEF Text
    <3>4. Text(some) \in [1 .. 2 * n -> Pieces \cup {Hole}]
      BY <3>2, <3>3
    <3> QED BY <3>1, <3>4, SeqDef
  <2>7. file \in Seq(Pieces \cup {Hole}) /\ Len(file) = 2 * n
    BY <2>1 DEF PrefixInv, RecorderType, Lines
  <2>8. \A i \in 1 .. Len(file) : file[i] = Text(some)[i]
    BY <2>1, <2>5, <2>7 DEF Lines
  <2>9. file = Text(some)
    BY <2>5, <2>6, <2>7, <2>8, SeqEqual
  <2> QED BY <2>1, <2>9 DEF some
<1>2. QED BY <1>1, SmallInvariant, PrefixInvariant, PTL
-----------------------------------------------------------------------------
(* One emitter.                                                            *)

\* The first pieces of the text of the log.
Written(n) ==
  /\ Len(file) = n
  /\ \A i \in 1 .. n : file[i] = Text(log)[i]

\* How far the file is behind the log while a lone emitter's event goes its
\* way, as long as no write has failed.
LoneInv(s) ==
  faults = 0 =>
    /\ phase[s] \in {"idle", "mkdir", "publish"} => Written(Len(Text(log)))
    /\ phase[s] = "open" => snapshot[s] = log
    /\ phase[s] = "write" => snapshot[s] = log /\ Written(offset[s])

LEMMA LoneWrite ==
  ASSUME NEW s, Streams = {s}, PrefixInv, LoneInv(s), WriteChunk(s)
  PROVE  LoneInv(s)'
<1> USE DEF PrefixInv, RecorderType
<1>1. /\ phase[s] = "write" /\ UNCHANGED <<log, snapshot, faults>>
      /\ phase' = [phase EXCEPT ![s] =
                     IF Chunk(s) = Rest(s) THEN "publish" ELSE "write"]
      /\ file' = Put(file, Text(snapshot[s]), offset[s], Chunk(s))
      /\ offset' = [offset EXCEPT ![s] = offset[s] + Chunk(s)]
  BY DEF WriteChunk, Await
<1>2. SUFFICES ASSUME faults = 0 PROVE LoneInv(s)'
  BY <1>1 DEF LoneInv
<1>3. snapshot[s] = log /\ Written(offset[s])
  BY <1>1, <1>2 DEF LoneInv
<1>4. /\ Rest(s) \in Nat /\ Chunk(s) \in Nat /\ Chunk(s) <= Rest(s)
      /\ offset[s] + Rest(s) = Len(Text(log)) /\ Len(Text(log)) \in Nat
      /\ Text(log) \in Seq(Pieces) /\ offset[s] \in Nat
  BY <1>1, <1>3, ChunkProperties, TextProperties
<1>5. /\ Len(file') = IF offset[s] + Chunk(s) > Len(file)
                        THEN offset[s] + Chunk(s) ELSE Len(file)
      /\ \A i \in 1 .. Len(file') :
           file'[i] =
             IF offset[s] < i /\ i <= offset[s] + Chunk(s) THEN Text(log)[i]
             ELSE IF i <= Len(file) THEN file[i] ELSE Hole
  <2>1. offset[s] + Chunk(s) <= Len(Text(log))
    BY <1>4
  <2>2. file' = Put(file, Text(log), offset[s], Chunk(s))
    BY <1>1, <1>3
  <2>3. file \in Seq(Pieces \cup {Hole})
    OBVIOUS
  <2> HIDE DEF PrefixInv, RecorderType
  <2> QED BY <1>4, <2>1, <2>2, <2>3, PutProperties
<1>6. Len(file') = offset[s] + Chunk(s) /\ Len(file) = offset[s]
  BY <1>3, <1>4, <1>5 DEF Written
<1>7. ASSUME NEW i \in 1 .. offset[s] + Chunk(s)
      PROVE  file'[i] = Text(log)[i]
  <2>1. CASE offset[s] < i
    BY <1>4, <1>5, <1>6, <2>1
  <2>2. CASE ~(offset[s] < i)
    <3>1. i \in 1 .. offset[s]
      BY <1>4, <2>2
    <3> QED BY <1>3, <1>5, <1>6, <2>2, <3>1 DEF Written
  <2> QED BY <2>1, <2>2
<1>8. (offset[s] + Chunk(s) = Len(Text(log))) <=> (Chunk(s) = Rest(s))
  BY <1>4
<1> DEFINE end == offset[s] + Chunk(s)
<1>9. /\ Len(file') = end
      /\ \A i \in 1 .. end : file'[i] = Text(log')[i]
  BY <1>1, <1>6, <1>7
<1>10. CASE Chunk(s) = Rest(s)
  <2>1. end = Len(Text(log'))
    BY <1>1, <1>8, <1>10
  <2>2. Written(Len(Text(log)))'
    BY <1>9, <2>1 DEF Written
  <2>3. phase'[s] = "publish"
    BY <1>1, <1>10
  <2> QED BY <2>2, <2>3 DEF LoneInv
<1>11. CASE Chunk(s) # Rest(s)
  <2>1. offset'[s] = end
    BY <1>1
  <2>2. Written(offset[s])'
    BY <1>9, <2>1 DEF Written
  <2>3. phase'[s] = "write" /\ snapshot'[s] = log'
    BY <1>1, <1>3, <1>11
  <2> QED BY <2>2, <2>3 DEF LoneInv
<1> QED BY <1>10, <1>11

LEMMA LoneStep ==
  ASSUME NEW s, Streams = {s}, PrefixInv, TimelineInv, LoneInv(s), [Next]_vars
  PROVE  LoneInv(s)'
<1>1. RecorderType /\ faults \in Nat
  BY LogAssumption DEF PrefixInv, TimelineInv, ClientInv
<1> USE DEF RecorderType
<1>2. CASE Emit(s) \/ Ingest(s)
  BY <1>1, <1>2 DEF Emit, Ingest, Await, LoneInv, Written
<1>3. CASE Push(s)
  BY <1>1, <1>3 DEF Push, Await, LoneInv
<1>4. CASE OpenFile(s)
  <2>1. Len(file') = 0 /\ offset'[s] = 0
    BY <1>1, <1>4, EmptySeq DEF OpenFile
  <2>2. Written(0)'
    BY <2>1 DEF Written
  <2>3. phase[s] = "open" /\ phase'[s] = "write" /\ UNCHANGED <<log, snapshot, faults>>
    BY <1>1, <1>4 DEF OpenFile, Await
  <2> QED BY <2>1, <2>2, <2>3 DEF LoneInv
<1>5. CASE WriteChunk(s)
  BY <1>5, LoneWrite
<1>6. CASE WriteFails(s) \/ AppendFails(s)
  <2>1. faults' # 0
    BY <1>1, <1>6 DEF WriteFails, AppendFails
  <2> QED BY <2>1 DEF LoneInv
<1>7. CASE Publish(s)
  BY <1>1, <1>7 DEF Publish, Await, LoneInv, Written
<1>8. ASSUME NEW c \in Clients, Connect(c) \/ Drop(c) \/ Receive(c) PROVE LoneInv(s)'
  <2>1. UNCHANGED <<log, file, phase, snapshot, offset, faults>>
    BY <1>8 DEF Connect, Drop, Receive, recorderVars
  <2> QED BY <2>1 DEF LoneInv, Written
<1>9. CASE UNCHANGED vars
  BY <1>9 DEF vars, recorderVars, LoneInv, Written
<1> QED BY <1>2, <1>3, <1>4, <1>5, <1>6, <1>7, <1>8, <1>9 DEF Next

\* A reader of a file that holds the whole text can parse every event.
LEMMA AllSaved ==
  ASSUME PrefixInv, Written(Len(Text(log)))
  PROVE  Saved = ToSet(log)
<1> DEFINE n == Len(log)
<1>1. /\ log \in Seq(CoreEvents) /\ n \in Nat /\ DOMAIN log = 1 .. n
      /\ Len(Text(log)) = 2 * n /\ Len(file) = 2 * n
      /\ DOMAIN file = 1 .. 2 * n
  <2>1. log \in Seq(CoreEvents) /\ file \in Seq(Pieces \cup {Hole})
    BY DEF PrefixInv, RecorderType
  <2> QED BY <2>1, TextProperties, LenProperties DEF Written
<1>2. \A i \in 1 .. 2 * n :
        file[i] = [event |-> log[(i + 1) \div 2],
                   part |-> IF i % 2 = 1 THEN "head" ELSE "tail"]
  BY <1>1, TextProperties DEF Written
<1> HIDE DEF n
<1>3. ASSUME NEW k \in 1 .. n
      PROVE  /\ [event |-> log[k], part |-> "head"] \in ToSet(file)
             /\ [event |-> log[k], part |-> "tail"] \in ToSet(file)
  <2>1. /\ 2 * k - 1 \in 1 .. 2 * n /\ ((2 * k - 1) + 1) \div 2 = k
        /\ (2 * k - 1) % 2 = 1
    BY <1>1
  <2>2. /\ 2 * k \in 1 .. 2 * n /\ (2 * k + 1) \div 2 = k
        /\ (2 * k) % 2 # 1
    BY <1>1
  <2>3. file[2 * k - 1] = [event |-> log[k], part |-> "head"]
    BY <1>2, <2>1
  <2>4. file[2 * k] = [event |-> log[k], part |-> "tail"]
    BY <1>2, <2>2
  <2> QED BY <1>1, <2>1, <2>2, <2>3, <2>4 DEF ToSet
<1>4. \A e \in ToSet(log) : \E k \in 1 .. n : e = log[k]
  BY <1>1 DEF ToSet
<1> QED BY <1>3, <1>4 DEF Saved

\* Where one emitter goes after the other and no write fails, an acknowledged
\* event is in events.jsonl: it takes overlapping or failing rewrites to lose
\* one, as evidence_log_overlap shows they do.
THEOREM LoneEmitterOnDisk ==
  ASSUME NEW CONSTANT s, Streams = {s}
  PROVE  Spec => [](faults = 0 => AcknowledgedOnDisk)
<1>1. Init => LoneInv(s)
  <2> SUFFICES ASSUME Init PROVE LoneInv(s)
    OBVIOUS
  <2>1. Len(log) = 0 /\ Len(file) = 0 /\ log \in Seq(CoreEvents)
    BY EmptySeq DEF Init
  <2>2. Len(Text(log)) = 0
    <3>1. Len(Text(log)) = 2 * Len(log)
      BY <2>1, TextProperties
    <3> QED BY <2>1, <3>1
  <2>3. Written(Len(Text(log)))
    BY <2>1, <2>2 DEF Written
  <2> QED BY <2>3 DEF Init, LoneInv
<1>2. LoneInv(s) /\ PrefixInv /\ TimelineInv /\ [Next]_vars => LoneInv(s)'
  BY LoneStep
<1>3. LoneInv(s) /\ PrefixInv /\ TimelineInv => (faults = 0 => AcknowledgedOnDisk)
  <2> SUFFICES ASSUME LoneInv(s), PrefixInv, TimelineInv, faults = 0,
                      \A t \in Streams : phase[t] \notin {"open", "write"}
               PROVE  published \subseteq {e.id : e \in Saved}
    BY DEF AcknowledgedOnDisk
  <2>1. phase[s] \in {"idle", "mkdir", "publish"}
    BY DEF PrefixInv, RecorderType, Steps
  <2>2. Saved = ToSet(log)
    BY <2>1, AllSaved DEF LoneInv
  <2> QED BY <2>2 DEF TimelineInv, ClientInv, Ids
<1> QED BY <1>1, <1>2, <1>3, PrefixInvariant, TimelineInvariant, PTL DEF Spec
================================================================================
