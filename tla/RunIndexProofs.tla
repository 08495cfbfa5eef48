---------------------------- MODULE RunIndexProofs ----------------------------
(***************************************************************************)
(* Theorems about RunIndex for any sessions, calls, failures and bounds:   *)
(* what the index may say of a call, whichever sessions write and are      *)
(* listed.  What the code does not promise of a session that took events   *)
(* in while a list was reading the file is an exception in the properties. *)
(***************************************************************************)
EXTENDS RunIndex, SequenceTheorems, FiniteSetTheorems, TLAPS

-----------------------------------------------------------------------------
(* What a history says.                                                    *)

\* The record of the first n events of a call.
RecordUpTo(kinds, n) == RecordOf(SubSeq(kinds, 1, n))

\* Histories a call can have.
Lawful(kinds) ==
  \A i \in 1 .. Len(kinds) :
    /\ kinds[i] = "started" <=> i = 1
    /\ kinds[i] = "finished" =>
         \E j \in 1 .. i - 1 : kinds[j] \in {"failed", "completed"}

LEMMA PrefixFacts ==
  ASSUME NEW kinds \in Seq(Kinds), NEW n \in 0 .. Len(kinds)
  PROVE  /\ SubSeq(kinds, 1, n) \in Seq(Kinds)
         /\ Len(SubSeq(kinds, 1, n)) = n
         /\ DOMAIN SubSeq(kinds, 1, n) = 1 .. n
         /\ \A i \in 1 .. n : SubSeq(kinds, 1, n)[i] = kinds[i]
         /\ SubSeq(kinds, 1, n) = <<>> <=> n = 0
         /\ \A k : Has(SubSeq(kinds, 1, n), k) <=> \E i \in 1 .. n : kinds[i] = k
<1> DEFINE s == SubSeq(kinds, 1, n)
<1>1. Len(kinds) \in Nat /\ \A i \in 1 .. Len(kinds) : kinds[i] \in Kinds
  BY LenProperties, ElementOfSeq
<1>2. /\ s \in Seq(Kinds) /\ Len(s) = n
      /\ \A i \in 1 .. n : s[i] = kinds[i]
  <2>1. \A i \in 1 .. n : kinds[i] \in Kinds
    BY <1>1
  <2>2. /\ s \in Seq(Kinds)
        /\ Len(s) = IF 1 <= n THEN n - 1 + 1 ELSE 0
        /\ \A i \in 1 .. n - 1 + 1 : s[i] = kinds[1 + i - 1]
    BY <1>1, <2>1, SubSeqProperties
  <2>3. n - 1 + 1 = n /\ \A i \in 1 .. n : 1 + i - 1 = i
    BY <1>1
  <2>4. QED BY <1>1, <2>2, <2>3
<1>3. DOMAIN s = 1 .. n
  BY <1>2, LenProperties
<1>4. s = <<>> <=> n = 0
  <2>1. s = <<>> => n = 0
    BY <1>2, EmptySeq
  <2>2. s # <<>> => n # 0
    BY <1>2, EmptySeq
  <2>3. QED BY <2>1, <2>2
<1>5. \A k : Has(s, k) <=> \E i \in 1 .. n : kinds[i] = k
  BY <1>2, <1>3 DEF Has, ToSet
<1>6. QED BY <1>2, <1>3, <1>4, <1>5

LEMMA RecordValue ==
  ASSUME NEW kinds \in Seq(Kinds), NEW n \in 0 .. Len(kinds)
  PROVE  RecordUpTo(kinds, n) =
           [ status |-> IF n = 0 THEN "absent"
                        ELSE IF \E i \in 1 .. n : kinds[i] = "failed" THEN "failed"
                        ELSE IF \E i \in 1 .. n : kinds[i] = "completed"
                               THEN "succeeded"
                        ELSE "running",
             first |-> IF \E i \in 1 .. n : kinds[i] = "failed" THEN 1 ELSE 0,
             done |-> \E i \in 1 .. n : kinds[i] = "finished" ]
<1>1. /\ SubSeq(kinds, 1, n) = <<>> <=> n = 0
      /\ \A k : Has(SubSeq(kinds, 1, n), k) <=> \E i \in 1 .. n : kinds[i] = k
  BY PrefixFacts
<1>2. /\ Has(SubSeq(kinds, 1, n), "failed") = (\E i \in 1 .. n : kinds[i] = "failed")
      /\ Has(SubSeq(kinds, 1, n), "completed")
           = (\E i \in 1 .. n : kinds[i] = "completed")
      /\ Has(SubSeq(kinds, 1, n), "finished")
           = (\E i \in 1 .. n : kinds[i] = "finished")
  <2>1. ASSUME NEW k
        PROVE  Has(SubSeq(kinds, 1, n), k) = (\E i \in 1 .. n : kinds[i] = k)
    <3>1. Has(SubSeq(kinds, 1, n), k) \in BOOLEAN
      BY DEF Has
    <3>2. Has(SubSeq(kinds, 1, n), k) <=> \E i \in 1 .. n : kinds[i] = k
      BY <1>1
    <3>3. QED BY <3>1, <3>2
  <2>2. QED BY <2>1
<1> DEFINE s == SubSeq(kinds, 1, n)
<1> HIDE DEF s
<1>3. RecordUpTo(kinds, n) =
        [ status |-> IF s = <<>> THEN "absent"
                     ELSE IF Has(s, "failed") THEN "failed"
                     ELSE IF Has(s, "completed") THEN "succeeded"
                     ELSE "running",
          first |-> IF Has(s, "failed") THEN 1 ELSE 0,
          done |-> Has(s, "finished") ]
  BY DEF RecordUpTo, RecordOf, s
<1>4. (s = <<>>) = (n = 0)
  BY <1>1 DEF s
<1>5. QED BY <1>2, <1>3, <1>4 DEF s

LEMMA NothingToSay ==
  ASSUME NEW kinds \in Seq(Kinds)
  PROVE  0 \in 0 .. Len(kinds) /\ RecordUpTo(kinds, 0) = NoRecord
<1>1. 0 \in 0 .. Len(kinds)
  BY LenProperties
<1>2. QED BY <1>1, RecordValue DEF NoRecord

\* The events counted so far.
LEMMA FailuresFacts ==
  ASSUME NEW kinds \in Seq(Kinds)
  PROVE  /\ Failures(kinds) \in Nat
         /\ \A n \in 0 .. Len(kinds) :
              /\ Failures(SubSeq(kinds, 1, n)) \in Nat
              /\ Failures(SubSeq(kinds, 1, n)) <= Failures(kinds)
<1> DEFINE F == {i \in DOMAIN kinds : kinds[i] = "failed"}
<1>1. DOMAIN kinds = 1 .. Len(kinds) /\ Len(kinds) \in Nat
  BY LenProperties
<1>2. IsFiniteSet(1 .. Len(kinds))
  BY <1>1, FS_Interval
<1>3. IsFiniteSet(F)
  <2>1. F \in SUBSET (1 .. Len(kinds))
    BY <1>1
  <2>2. QED BY <1>2, <2>1, FS_Subset
<1>4. Failures(kinds) \in Nat
  BY <1>3, FS_CardinalityType DEF Failures
<1>5. ASSUME NEW n \in 0 .. Len(kinds)
      PROVE  /\ Failures(SubSeq(kinds, 1, n)) \in Nat
             /\ Failures(SubSeq(kinds, 1, n)) <= Failures(kinds)
  <2> DEFINE G == {i \in DOMAIN SubSeq(kinds, 1, n) :
                     SubSeq(kinds, 1, n)[i] = "failed"}
  <2>1. G \in SUBSET F
    <3>1. /\ DOMAIN SubSeq(kinds, 1, n) = 1 .. n
          /\ \A i \in 1 .. n : SubSeq(kinds, 1, n)[i] = kinds[i]
      BY PrefixFacts
    <3>2. 1 .. n \subseteq 1 .. Len(kinds)
      BY <1>1
    <3>3. QED BY <1>1, <3>1, <3>2
  <2>2. IsFiniteSet(G) /\ Cardinality(G) <= Cardinality(F)
    BY <1>3, <2>1, FS_Subset
  <2>3. QED BY <2>2, FS_CardinalityType DEF Failures
<1>6. QED BY <1>4, <1>5

\* The first failed attempt of a call is its first.
LEMMA FirstFailure ==
  ASSUME NEW kinds \in Seq(Kinds), NEW n \in 0 .. Len(kinds), n + 1 <= Len(kinds),
         kinds[n + 1] = "failed", \A i \in 1 .. n : kinds[i] # "failed"
  PROVE  Failures(SubSeq(kinds, 1, n + 1)) = 1
<1>1. n + 1 \in 0 .. Len(kinds) /\ Len(kinds) \in Nat
  BY LenProperties
<1>2. /\ DOMAIN SubSeq(kinds, 1, n + 1) = 1 .. n + 1
      /\ \A i \in 1 .. n + 1 : SubSeq(kinds, 1, n + 1)[i] = kinds[i]
  BY <1>1, PrefixFacts
<1>3. {i \in DOMAIN SubSeq(kinds, 1, n + 1) :
         SubSeq(kinds, 1, n + 1)[i] = "failed"} = {n + 1}
  <2>1. \A i \in 1 .. n + 1 : i \in 1 .. n \/ i = n + 1
    BY <1>1
  <2>2. n + 1 \in 1 .. n + 1
    BY <1>1
  <2>3. QED BY <1>2, <2>1, <2>2
<1>4. QED BY <1>3, FS_Singleton DEF Failures

\* Taking one event after the other into a record gives the record of the
\* history, and no event of a lawful history is ignored.
LEMMA UpdatedFollows ==
  ASSUME NEW kinds \in Seq(Kinds), Lawful(kinds),
         NEW n \in 0 .. Len(kinds), n + 1 <= Len(kinds),
         NEW e, e = [ kind |-> kinds[n + 1],
                      attempt |-> Failures(SubSeq(kinds, 1, n + 1)) ]
  PROVE  /\ Updated(RecordUpTo(kinds, n), e) = RecordUpTo(kinds, n + 1)
         /\ ~(RecordUpTo(kinds, n) = NoRecord /\ e.kind # "started")
<1>1. /\ Len(kinds) \in Nat /\ n \in Nat
      /\ n + 1 \in 0 .. Len(kinds) /\ n + 1 \in 1 .. Len(kinds)
      /\ kinds[n + 1] \in Kinds
  BY LenProperties, ElementOfSeq
<1>2. \A k : (\E i \in 1 .. n + 1 : kinds[i] = k)
               <=> kinds[n + 1] = k \/ \E i \in 1 .. n : kinds[i] = k
  <2>1. \A i : i \in 1 .. n + 1 <=> i \in 1 .. n \/ i = n + 1
    BY <1>1
  <2>2. QED BY <2>1
<1> DEFINE Ever(k, m) == \E i \in 1 .. m : kinds[i] = k
           status(m) == IF m = 0 THEN "absent"
                        ELSE IF Ever("failed", m) THEN "failed"
                        ELSE IF Ever("completed", m) THEN "succeeded"
                        ELSE "running"
           first(m) == IF Ever("failed", m) THEN 1 ELSE 0
           done(m) == Ever("finished", m)
           old == [status |-> status(n), first |-> first(n), done |-> done(n)]
           new == [status |-> status(n + 1), first |-> first(n + 1), done |-> done(n + 1)]
<1>3. RecordUpTo(kinds, n) = old /\ RecordUpTo(kinds, n + 1) = new
  BY <1>1, RecordValue
<1>4. \A k : Ever(k, n + 1) = (kinds[n + 1] = k \/ Ever(k, n))
  BY <1>2
<1>5. /\ kinds[n + 1] = "started" <=> n = 0
      /\ kinds[n + 1] = "finished" => Ever("failed", n) \/ Ever("completed", n)
  <2>1. /\ kinds[n + 1] = "started" <=> n + 1 = 1
        /\ kinds[n + 1] = "finished" =>
             \E j \in 1 .. (n + 1) - 1 : kinds[j] \in {"failed", "completed"}
    BY <1>1 DEF Lawful
  <2>2. (n + 1) - 1 = n
    BY <1>1
  <2>3. QED BY <1>1, <2>1, <2>2
<1>6. kinds[n + 1] = "failed" /\ ~Ever("failed", n) => e.attempt = 1
  BY FirstFailure
<1>7. n = 0 => \A k : Ever(k, n) = FALSE
  OBVIOUS
<1>8. e.kind = kinds[n + 1]
  OBVIOUS
<1>9. n + 1 # 0
  BY <1>1
<1>10. \A k : Ever(k, n) \in BOOLEAN
  OBVIOUS
<1> HIDE DEF Ever
<1>11. old.status = "absent" <=> n = 0
  OBVIOUS
<1>12. CASE e.kind = "started"
  <2>1. n = 0 /\ kinds[n + 1] = "started"
    BY <1>5, <1>8, <1>12
  <2>2. old = NoRecord
    BY <1>7, <2>1 DEF NoRecord
  <2>3. /\ status(n + 1) = "running" /\ first(n + 1) = 0 /\ done(n + 1) = FALSE
    BY <1>4, <1>7, <1>9, <2>1
  <2>4. Updated(NoRecord, e) = [status |-> "running", first |-> 0, done |-> FALSE]
    BY <1>12 DEF Updated, NoRecord
  <2>5. QED BY <1>3, <1>12, <2>2, <2>3, <2>4
<1>13. CASE e.kind = "failed"
  <2>1. n # 0 /\ kinds[n + 1] = "failed"
    BY <1>5, <1>8, <1>13
  <2>2. status(n + 1) = "failed" /\ first(n + 1) = 1
    BY <1>4, <1>9, <2>1
  <2>3. done(n + 1) = done(n)
    BY <1>4, <1>10, <2>1
  <2>4. (IF first(n) = 0 THEN e.attempt ELSE first(n)) = 1
    BY <1>6, <2>1
  <2> HIDE DEF status, first, done
  <2>5. Updated(old, e) = [ status |-> "failed",
                            first |-> IF first(n) = 0 THEN e.attempt ELSE first(n),
                            done |-> done(n) ]
    BY <1>13 DEF Updated
  <2>6. QED BY <1>3, <1>11, <1>13, <2>1, <2>2, <2>3, <2>4, <2>5 DEF NoRecord
<1>14. CASE e.kind = "completed"
  <2>1. n # 0 /\ kinds[n + 1] = "completed"
    BY <1>5, <1>8, <1>14
  <2>2. /\ status(n + 1) = IF status(n) = "failed" THEN status(n) ELSE "succeeded"
        /\ first(n + 1) = first(n)
    BY <1>4, <1>9, <2>1
  <2>3. done(n + 1) = done(n)
    BY <1>4, <1>10, <2>1
  <2> HIDE DEF status, first, done
  <2>4. Updated(old, e) = [ status |-> IF status(n) = "failed" THEN status(n)
                                       ELSE "succeeded",
                            first |-> first(n), done |-> done(n) ]
    BY <1>14 DEF Updated
  <2>5. QED BY <1>3, <1>11, <1>14, <2>1, <2>2, <2>3, <2>4 DEF NoRecord
<1>15. CASE e.kind = "finished"
  <2>1. n # 0 /\ kinds[n + 1] = "finished"
    BY <1>5, <1>8, <1>15
  <2>2. /\ status(n + 1) = IF status(n) = "failed" THEN status(n) ELSE "succeeded"
        /\ first(n + 1) = first(n)
    BY <1>4, <1>5, <1>9, <2>1
  <2>3. done(n + 1) = TRUE
    BY <1>4, <1>10, <2>1
  <2> HIDE DEF status, first, done
  <2>4. Updated(old, e) = [ status |-> IF status(n) = "failed" THEN status(n)
                                       ELSE "succeeded",
                            first |-> first(n), done |-> TRUE ]
    BY <1>15 DEF Updated
  <2>5. new = [ status |-> IF status(n) = "failed" THEN status(n) ELSE "succeeded",
                first |-> first(n), done |-> TRUE ]
    BY <2>2, <2>3
  <2>6. Updated(old, e) = new
    BY <2>4, <2>5
  <2>7. old # NoRecord
    BY <1>11, <2>1 DEF NoRecord
  <2>8. QED BY <1>3, <2>6, <2>7
<1>16. QED BY <1>1, <1>8, <1>12, <1>13, <1>14, <1>15 DEF Kinds

\* A history that grows keeps its beginnings.
LEMMA GrowingHistory ==
  ASSUME NEW kinds \in Seq(Kinds), NEW k \in Kinds
  PROVE  /\ Append(kinds, k) \in Seq(Kinds)
         /\ Len(Append(kinds, k)) = Len(kinds) + 1
         /\ \A n \in 0 .. Len(kinds) :
              /\ n \in 0 .. Len(Append(kinds, k))
              /\ SubSeq(Append(kinds, k), 1, n) = SubSeq(kinds, 1, n)
<1>1. /\ Append(kinds, k) \in Seq(Kinds)
      /\ Len(Append(kinds, k)) = Len(kinds) + 1
      /\ \A i \in 1 .. Len(kinds) : Append(kinds, k)[i] = kinds[i]
      /\ Len(kinds) \in Nat
  BY AppendProperties, LenProperties
<1>2. ASSUME NEW n \in 0 .. Len(kinds)
      PROVE  /\ n \in 0 .. Len(Append(kinds, k))
             /\ SubSeq(Append(kinds, k), 1, n) = SubSeq(kinds, 1, n)
  <2>1. n \in 0 .. Len(Append(kinds, k)) /\ 1 .. n \subseteq 1 .. Len(kinds)
    BY <1>1
  <2>2. /\ SubSeq(Append(kinds, k), 1, n) \in Seq(Kinds)
        /\ Len(SubSeq(Append(kinds, k), 1, n)) = n
        /\ \A i \in 1 .. n : SubSeq(Append(kinds, k), 1, n)[i] = Append(kinds, k)[i]
    BY <1>1, <2>1, PrefixFacts
  <2>3. /\ SubSeq(kinds, 1, n) \in Seq(Kinds)
        /\ Len(SubSeq(kinds, 1, n)) = n
        /\ \A i \in 1 .. n : SubSeq(kinds, 1, n)[i] = kinds[i]
    BY PrefixFacts
  <2>4. QED BY <1>1, <2>1, <2>2, <2>3, SeqEqual
<1>3. QED BY <1>1, <1>2
-----------------------------------------------------------------------------
(* Types, histories and queues.                                            *)

ToldInv ==
  \A c \in Calls : Lawful(told[c]) /\ Failures(told[c]) <= MaxFailures

\* A queue holds events of the session's own calls, in their order.
QueueInv ==
  \A s \in Sessions : \A i \in 1 .. Len(queue[s]) :
    /\ Owner[queue[s][i].call] = s
    /\ queue[s][i].nr <= Len(told[queue[s][i].call])
    /\ \A j \in 1 .. i - 1 :
         queue[s][j].call = queue[s][i].call => queue[s][j].nr < queue[s][i].nr

\* The ingestion that loads the file has its event still in the queue.
LoadInv == \A s \in Sessions : store[s] = "loading" => queue[s] # <<>>

BaseInv == TypeOK /\ ToldInv /\ QueueInv /\ LoadInv

LEMMA UpdatedType ==
  ASSUME NEW r \in Records \cup {NoRecord}, NEW e,
         e.kind \in Kinds, e.attempt \in 0 .. MaxFailures,
         ~(r = NoRecord /\ e.kind # "started")
  PROVE  /\ Updated(r, e) \in Records
         /\ r.done => Updated(r, e).done
<1>1. CASE r = NoRecord
  <2>1. e.kind = "started"
    BY <1>1
  <2>2. Updated(r, e) = [status |-> "running", first |-> 0, done |-> FALSE]
    BY <1>1, <2>1 DEF Updated, NoRecord
  <2>3. [status |-> "running", first |-> 0, done |-> FALSE] \in Records
    BY IndexAssumption DEF Records
  <2>4. QED BY <1>1, <2>2, <2>3 DEF NoRecord
<1>2. CASE r \in Records
  <2> DEFINE ended == IF r.status = "failed" THEN r.status ELSE "succeeded"
  <2>1. /\ r = [status |-> r.status, first |-> r.first, done |-> r.done]
        /\ r.status \in {"running", "succeeded", "failed"}
        /\ r.first \in 0 .. MaxFailures /\ r.done \in BOOLEAN
    BY <1>2 DEF Records
  <2>2. CASE e.kind = "started"
    <3>1. Updated(r, e) = r
      BY <1>2, <2>1, <2>2 DEF Updated, NoRecord
    <3>2. QED BY <1>2, <3>1
  <2>3. CASE e.kind = "failed"
    <3>1. Updated(r, e) = [ status |-> "failed",
                            first |-> IF r.first = 0 THEN e.attempt ELSE r.first,
                            done |-> r.done ]
      BY <2>1, <2>3 DEF Updated
    <3>2. (IF r.first = 0 THEN e.attempt ELSE r.first) \in 0 .. MaxFailures
      BY <2>1
    <3>3. QED BY <2>1, <3>1, <3>2 DEF Records
  <2>4. CASE e.kind = "completed"
    <3>1. Updated(r, e) = [status |-> ended, first |-> r.first, done |-> r.done]
      BY <2>1, <2>4 DEF Updated
    <3>2. ended \in {"running", "succeeded", "failed"}
      BY <2>1
    <3> HIDE DEF ended
    <3>3. QED BY <2>1, <3>1, <3>2 DEF Records
  <2>5. CASE e.kind = "finished"
    <3>1. Updated(r, e) = [status |-> ended, first |-> r.first, done |-> TRUE]
      BY <2>1, <2>5 DEF Updated
    <3>2. ended \in {"running", "succeeded", "failed"}
      BY <2>1
    <3> HIDE DEF ended
    <3>3. QED BY <2>1, <3>1, <3>2 DEF Records
  <2>6. QED BY <2>2, <2>3, <2>4, <2>5 DEF Kinds
<1>3. QED BY <1>1, <1>2

\* The event that comes next is one of the call's.
LEMMA EventType ==
  ASSUME BaseInv, NEW s \in Sessions, queue[s] # <<>>
  PROVE  LET p == Head(queue[s]) IN
         /\ p = queue[s][1] /\ 1 \in 1 .. Len(queue[s])
         /\ p.call \in Calls /\ Owner[p.call] = s
         /\ p.nr \in 1 .. Len(told[p.call])
         /\ EventAt(p).kind \in Kinds
         /\ EventAt(p).attempt \in 0 .. MaxFailures
<1> DEFINE p == Head(queue[s])
<1>1. queue[s] \in Seq(Places)
  BY DEF BaseInv, TypeOK
<1>2. p \in Places /\ p = queue[s][1] /\ 1 \in 1 .. Len(queue[s])
  <2>1. Len(queue[s]) \in Nat \ {0}
    BY <1>1, EmptySeq
  <2>2. p \in Places
    BY <1>1, HeadTailProperties
  <2>3. p = queue[s][1]
    BY <1>1, <2>1, HeadTailOfSubSeq, SubSeqFull
  <2>4. QED BY <2>1, <2>2, <2>3
<1> HIDE DEF p
<1>3. /\ p.call \in Calls /\ p.nr \in Nat \ {0}
      /\ Owner[p.call] = s /\ p.nr <= Len(told[p.call])
  BY <1>2 DEF BaseInv, QueueInv, Places
<1>4. /\ told[p.call] \in Seq(Kinds) /\ Len(told[p.call]) \in Nat
      /\ Failures(told[p.call]) <= MaxFailures
  BY <1>3, LenProperties DEF BaseInv, TypeOK, ToldInv
<1>5. p.nr \in 1 .. Len(told[p.call]) /\ p.nr \in 0 .. Len(told[p.call])
  BY <1>3, <1>4
<1>6. told[p.call][p.nr] \in Kinds
  BY <1>4, <1>5, ElementOfSeq
<1>7. /\ Failures(SubSeq(told[p.call], 1, p.nr)) \in Nat
      /\ Failures(SubSeq(told[p.call], 1, p.nr)) <= Failures(told[p.call])
      /\ Failures(told[p.call]) \in Nat
  BY <1>4, <1>5, FailuresFacts
<1>8. Failures(SubSeq(told[p.call], 1, p.nr)) \in 0 .. MaxFailures
  BY <1>4, <1>7, IndexAssumption
<1>9. /\ EventAt(p).kind = told[p.call][p.nr]
      /\ EventAt(p).attempt = Failures(SubSeq(told[p.call], 1, p.nr))
  BY DEF EventAt
<1>10. QED BY <1>2, <1>3, <1>5, <1>6, <1>8, <1>9 DEF p

\* One event less in a queue.
LEMMA QueueShrinks ==
  ASSUME BaseInv, NEW s \in Sessions, queue[s] # <<>>,
         queue' = [queue EXCEPT ![s] = Tail(queue[s])], told' = told
  PROVE  /\ queue' \in [Sessions -> Seq(Places)]
         /\ Len(queue'[s]) = Len(queue[s]) - 1
         /\ \A i \in 1 .. Len(queue'[s]) : queue'[s][i] = queue[s][i + 1]
         /\ QueueInv'
<1>1. /\ queue \in [Sessions -> Seq(Places)]
      /\ queue[s] \in Seq(Places) /\ Len(queue[s]) \in Nat \ {0}
  BY EmptySeq DEF BaseInv, TypeOK
<1>2. /\ Tail(queue[s]) \in Seq(Places)
      /\ Len(Tail(queue[s])) = Len(queue[s]) - 1
      /\ \A i \in 1 .. Len(Tail(queue[s])) : Tail(queue[s])[i] = queue[s][i + 1]
  BY <1>1, HeadTailProperties
<1>3. /\ queue' \in [Sessions -> Seq(Places)]
      /\ queue'[s] = Tail(queue[s])
      /\ \A t \in Sessions : t # s => queue'[t] = queue[t]
  BY <1>1, <1>2
<1>4. QueueInv'
  <2>1. SUFFICES ASSUME NEW t \in Sessions, NEW i \in 1 .. Len(queue'[t])
                 PROVE  /\ Owner[queue'[t][i].call] = t
                        /\ queue'[t][i].nr <= Len(told[queue'[t][i].call])
                        /\ \A j \in 1 .. i - 1 :
                             queue'[t][j].call = queue'[t][i].call
                               => queue'[t][j].nr < queue'[t][i].nr
    BY DEF QueueInv
  <2>2. CASE t # s
    <3>1. queue'[t] = queue[t]
      BY <1>3, <2>2
    <3>2. QED BY <2>1, <3>1 DEF BaseInv, QueueInv
  <2>3. CASE t = s
    <3>1. /\ i + 1 \in 1 .. Len(queue[s])
          /\ queue'[s][i] = queue[s][i + 1]
      BY <1>1, <1>2, <1>3, <2>1, <2>3
    <3>2. \A j \in 1 .. i - 1 :
            /\ j + 1 \in 1 .. (i + 1) - 1
            /\ queue'[s][j] = queue[s][j + 1]
      BY <1>1, <1>2, <1>3, <2>1, <2>3
    <3>3. /\ Owner[queue[s][i + 1].call] = s
          /\ queue[s][i + 1].nr <= Len(told[queue[s][i + 1].call])
          /\ \A j \in 1 .. (i + 1) - 1 :
               queue[s][j].call = queue[s][i + 1].call
                 => queue[s][j].nr < queue[s][i + 1].nr
      BY <3>1 DEF BaseInv, QueueInv
    <3>4. /\ Owner[queue'[s][i].call] = s
          /\ queue'[s][i].nr <= Len(told[queue'[s][i].call])
      BY <3>1, <3>3
    <3>5. ASSUME NEW j \in 1 .. i - 1, queue'[s][j].call = queue'[s][i].call
          PROVE  queue'[s][j].nr < queue'[s][i].nr
      BY <3>1, <3>2, <3>3, <3>5
    <3>6. QED BY <2>3, <3>4, <3>5
  <2>4. QED BY <2>2, <2>3
<1>5. QED BY <1>2, <1>3, <1>4

\* A call emits: its history and the queue of its session grow.
LEMMA EmitFacts ==
  ASSUME BaseInv, NEW c \in Calls, NEW kind \in Kinds, Emit(c, kind)
  PROVE  LET s == Owner[c]
             place == [call |-> c, nr |-> Len(told[c]) + 1] IN
         /\ s \in Sessions
         /\ told[c] \in Seq(Kinds) /\ Len(told[c]) \in Nat
         /\ told' \in [Calls -> Seq(Kinds)]
         /\ told'[c] = Append(told[c], kind)
         /\ \A d \in Calls : d # c => told'[d] = told[d]
         /\ queue' \in [Sessions -> Seq(Places)]
         /\ Len(queue'[s]) = Len(queue[s]) + 1 /\ Len(queue[s]) \in Nat
         /\ \A i \in 1 .. Len(queue[s]) : queue'[s][i] = queue[s][i]
         /\ queue'[s][Len(queue[s]) + 1] = place
         /\ \A t \in Sessions : t # s => queue'[t] = queue[t]
<1> DEFINE s == Owner[c]
           place == [call |-> c, nr |-> Len(told[c]) + 1]
<1>1. /\ s \in Sessions
      /\ told \in [Calls -> Seq(Kinds)] /\ queue \in [Sessions -> Seq(Places)]
      /\ told[c] \in Seq(Kinds) /\ queue[s] \in Seq(Places)
      /\ Len(told[c]) \in Nat /\ Len(queue[s]) \in Nat
  BY IndexAssumption, LenProperties DEF BaseInv, TypeOK
<1>2. place \in Places
  BY <1>1 DEF Places
<1>3. /\ told' = [told EXCEPT ![c] = Append(told[c], kind)]
      /\ queue' = [queue EXCEPT ![s] = Append(queue[s], place)]
  BY DEF Emit
<1>4. /\ Append(told[c], kind) \in Seq(Kinds)
      /\ Append(queue[s], place) \in Seq(Places)
      /\ Len(Append(queue[s], place)) = Len(queue[s]) + 1
      /\ \A i \in 1 .. Len(queue[s]) : Append(queue[s], place)[i] = queue[s][i]
      /\ Append(queue[s], place)[Len(queue[s]) + 1] = place
  BY <1>1, <1>2, AppendProperties
<1> HIDE DEF s, place
<1>5. /\ told' \in [Calls -> Seq(Kinds)] /\ told'[c] = Append(told[c], kind)
      /\ \A d \in Calls : d # c => told'[d] = told[d]
  BY <1>1, <1>3, <1>4
<1>6. /\ queue' \in [Sessions -> Seq(Places)]
      /\ queue'[s] = Append(queue[s], place)
      /\ \A t \in Sessions : t # s => queue'[t] = queue[t]
  BY <1>1, <1>3, <1>4
<1>7. QED BY <1>1, <1>4, <1>5, <1>6 DEF s, place

LEMMA EmitTold ==
  ASSUME BaseInv, NEW c \in Calls, NEW kind \in Kinds, Emit(c, kind)
  PROVE  ToldInv'
<1> DEFINE kinds == told[c]
           longer == Append(kinds, kind)
           n == Len(kinds)
<1>1. /\ kinds \in Seq(Kinds) /\ n \in Nat
      /\ told'[c] = longer /\ \A d \in Calls : d # c => told'[d] = told[d]
  BY EmitFacts
<1>2. /\ longer \in Seq(Kinds) /\ Len(longer) = n + 1
      /\ \A i \in 1 .. n : longer[i] = kinds[i]
      /\ longer[n + 1] = kind
  BY <1>1, AppendProperties
<1>3. /\ DOMAIN kinds = 1 .. n /\ DOMAIN longer = 1 .. n + 1
      /\ kinds = <<>> <=> n = 0
  BY <1>1, <1>2, LenProperties, EmptySeq
<1>4. \A k : Has(kinds, k) <=> \E i \in 1 .. n : kinds[i] = k
  BY <1>3 DEF Has, ToSet
<1>5. MayEmit(c, kind)
  BY DEF Emit
<1>6. Lawful(kinds) /\ Failures(kinds) <= MaxFailures
  BY DEF BaseInv, ToldInv
<1>7. /\ kind = "started" <=> n = 0
      /\ kind = "finished" => Has(kinds, "completed") \/ Has(kinds, "failed")
      /\ kind = "failed" => Failures(kinds) < MaxFailures
  <2>1. \A k : Has(kinds, k) => n # 0
    BY <1>4
  <2>2. CASE kind = "started"
    BY <1>3, <1>5, <2>2 DEF MayEmit
  <2>3. CASE kind = "failed"
    BY <1>3, <1>5, <2>3 DEF MayEmit
  <2>4. CASE kind = "completed"
    BY <1>3, <1>5, <2>4 DEF MayEmit
  <2>5. CASE kind = "finished"
    BY <1>5, <2>1, <2>5 DEF MayEmit
  <2>6. QED BY <2>2, <2>3, <2>4, <2>5 DEF Kinds
<1> HIDE DEF longer, n
<1>8. Lawful(longer)
  <2>1. SUFFICES ASSUME NEW i \in 1 .. n + 1
                 PROVE  /\ longer[i] = "started" <=> i = 1
                        /\ longer[i] = "finished" =>
                             \E j \in 1 .. i - 1 : longer[j] \in {"failed", "completed"}
    BY <1>2 DEF Lawful
  <2>2. CASE i \in 1 .. n
    <3>1. /\ kinds[i] = "started" <=> i = 1
          /\ kinds[i] = "finished" =>
               \E j \in 1 .. i - 1 : kinds[j] \in {"failed", "completed"}
      BY <1>6, <2>2 DEF Lawful, n
    <3>2. 1 .. i - 1 \subseteq 1 .. n
      BY <1>1, <2>2
    <3>3. QED BY <1>2, <2>2, <3>1, <3>2
  <2>3. CASE i = n + 1
    <3>1. kind = "finished" => \E j \in 1 .. n : kinds[j] \in {"failed", "completed"}
      BY <1>4, <1>7
    <3>2. (n + 1) - 1 = n /\ (n = 0 <=> n + 1 = 1)
      BY <1>1
    <3>3. QED BY <1>2, <1>7, <2>3, <3>1, <3>2
  <2>4. QED BY <1>1, <2>2, <2>3
<1>9. Failures(longer) <= MaxFailures
  <2> DEFINE F == {i \in DOMAIN kinds : kinds[i] = "failed"}
             G == {i \in DOMAIN longer : longer[i] = "failed"}
  <2>1. IsFiniteSet(F)
    <3>1. 1 \in Int /\ n \in Int
      BY <1>1
    <3>2. IsFiniteSet(1 .. n)
      BY <3>1, FS_Interval
    <3>3. F \in SUBSET (1 .. n)
      BY <1>3
    <3>4. QED BY <3>2, <3>3, FS_Subset
  <2>2. G = IF kind = "failed" THEN F \cup {n + 1} ELSE F
    <3>1. 1 .. n + 1 = (1 .. n) \cup {n + 1} /\ n + 1 \notin 1 .. n
      BY <1>1
    <3>2. QED BY <1>2, <1>3, <3>1
  <2>3. n + 1 \notin F
    BY <1>1, <1>3
  <2>4. /\ Failures(kinds) = Cardinality(F) /\ Failures(longer) = Cardinality(G)
        /\ Failures(kinds) \in Nat
    BY <1>1, FailuresFacts DEF Failures
  <2>5. Cardinality(F \cup {n + 1}) = Cardinality(F) + 1
    BY <2>1, <2>3, FS_AddElement
  <2> HIDE DEF F, G
  <2>6. QED BY <1>6, <1>7, <2>2, <2>4, <2>5, IndexAssumption
<1>10. QED BY <1>1, <1>8, <1>9 DEF BaseInv, ToldInv

LEMMA EmitQueue ==
  ASSUME BaseInv, NEW c \in Calls, NEW kind \in Kinds, Emit(c, kind)
  PROVE  QueueInv'
<1> DEFINE s == Owner[c]
           m == Len(queue[s])
           place == [call |-> c, nr |-> Len(told[c]) + 1]
<1>1. /\ s \in Sessions /\ Len(told[c]) \in Nat /\ told[c] \in Seq(Kinds)
      /\ told'[c] = Append(told[c], kind)
      /\ \A d \in Calls : d # c => told'[d] = told[d]
      /\ Len(queue'[s]) = m + 1 /\ m \in Nat
      /\ \A i \in 1 .. m : queue'[s][i] = queue[s][i]
      /\ queue'[s][m + 1] = place
      /\ \A t \in Sessions : t # s => queue'[t] = queue[t]
  BY EmitFacts
<1>2. Len(told'[c]) = Len(told[c]) + 1
  BY <1>1, AppendProperties
<1>3. \A t \in Sessions : \A i \in 1 .. Len(queue[t]) :
        queue[t][i].call \in Calls /\ queue[t][i].nr \in Nat
  <2>1. \A t \in Sessions : \A i \in 1 .. Len(queue[t]) : queue[t][i] \in Places
    BY ElementOfSeq DEF BaseInv, TypeOK
  <2>2. QED BY <2>1 DEF Places
<1>4. \A d \in Calls : Len(told[d]) \in Nat /\ Len(told[d]) <= Len(told'[d])
  <2>1. \A d \in Calls : Len(told[d]) \in Nat
    BY LenProperties DEF BaseInv, TypeOK
  <2>2. QED BY <1>1, <1>2, <2>1
<1>5. \A d \in Calls : Len(told'[d]) \in Nat
  BY <1>1, <1>2, <1>4
<1>6. \A t \in Sessions : \A i \in 1 .. Len(queue[t]) :
        /\ Owner[queue[t][i].call] = t
        /\ queue[t][i].nr <= Len(told[queue[t][i].call])
        /\ \A j \in 1 .. i - 1 :
             queue[t][j].call = queue[t][i].call => queue[t][j].nr < queue[t][i].nr
  BY DEF BaseInv, QueueInv
<1>7. SUFFICES ASSUME NEW t \in Sessions, NEW i \in 1 .. Len(queue'[t])
               PROVE  /\ Owner[queue'[t][i].call] = t
                      /\ queue'[t][i].nr <= Len(told'[queue'[t][i].call])
                      /\ \A j \in 1 .. i - 1 :
                           queue'[t][j].call = queue'[t][i].call
                             => queue'[t][j].nr < queue'[t][i].nr
  BY DEF QueueInv
<1> HIDE DEF s, m
<1>8. ASSUME i \in 1 .. Len(queue[t]), queue'[t][i] = queue[t][i],
             \A j \in 1 .. i - 1 : queue'[t][j] = queue[t][j]
      PROVE  /\ Owner[queue'[t][i].call] = t
             /\ queue'[t][i].nr <= Len(told'[queue'[t][i].call])
             /\ \A j \in 1 .. i - 1 :
                  queue'[t][j].call = queue'[t][i].call
                    => queue'[t][j].nr < queue'[t][i].nr
  <2> DEFINE p == queue[t][i]
  <2>1. p.call \in Calls /\ p.nr \in Nat /\ p.nr <= Len(told[p.call])
    BY <1>3, <1>6, <1>8
  <2>2. p.nr <= Len(told'[p.call])
    BY <1>4, <1>5, <2>1
  <2>3. QED BY <1>6, <1>8, <2>2
<1>9. CASE t # s
  BY <1>1, <1>7, <1>8, <1>9
<1>10. CASE t = s /\ i \in 1 .. m
  <2>1. \A j \in 1 .. i - 1 : j \in 1 .. m
    BY <1>1, <1>10
  <2>2. QED BY <1>1, <1>8, <1>10, <2>1 DEF m
<1>11. CASE t = s /\ i = m + 1
  <2>1. /\ queue'[t][i].call = c /\ queue'[t][i].nr = Len(told[c]) + 1
        /\ Owner[c] = s
    BY <1>1, <1>11 DEF s
  <2>2. ASSUME NEW j \in 1 .. i - 1, queue'[t][j].call = c
        PROVE  queue'[t][j].nr < Len(told[c]) + 1
    <3>1. j \in 1 .. m /\ queue'[t][j] = queue[s][j]
      BY <1>1, <1>11, <2>2
    <3>2. queue[s][j].nr \in Nat /\ queue[s][j].nr <= Len(told[c])
      BY <1>1, <1>3, <1>6, <2>2, <3>1 DEF m
    <3>3. QED BY <1>1, <3>1, <3>2
  <2>3. QED BY <1>2, <1>11, <2>1, <2>2
<1>12. QED BY <1>1, <1>7, <1>9, <1>10, <1>11

\* The next event goes into what is known: only its call's record changes.
LEMMA ApplyFacts ==
  ASSUME BaseInv, NEW s \in Sessions, queue[s] # <<>>,
         NEW known \in Indexes, Apply(s, known), told' = told
  PROVE  LET p == Head(queue[s]) IN
         /\ records' \in [Sessions -> Indexes]
         /\ store' \in [Sessions -> {"idle", "loading", "mkdir", "rename",
                                       "poisoned", "crashed"}]
         /\ store'[s] \in {"idle", "mkdir"}
         /\ \A t \in Sessions : t # s => /\ store'[t] = store[t]
                                         /\ records'[t] = records[t]
                                         /\ queue'[t] = queue[t]
         /\ \A d \in Ids : d # p.call => records'[s][d] = known[d]
         /\ IF known[p.call] = NoRecord /\ EventAt(p).kind # "started"
              THEN store'[s] = "idle" /\ records'[s] = known
              ELSE /\ store'[s] = "mkdir"
                   /\ records'[s][p.call] = Updated(known[p.call], EventAt(p))
         /\ known[p.call].done => records'[s][p.call].done
         /\ queue' = [queue EXCEPT ![s] = Tail(queue[s])]
<1> DEFINE p == Head(queue[s])
           c == p.call
           e == EventAt(p)
           ignored == known[c] = NoRecord /\ e.kind # "started"
           new == IF ignored THEN known
                  ELSE [known EXCEPT ![c] = Updated(known[c], e)]
<1>1. /\ c \in Calls /\ c \in Ids
      /\ e.kind \in Kinds /\ e.attempt \in 0 .. MaxFailures
  BY EventType DEF Ids
<1>2. /\ records \in [Sessions -> Indexes] /\ queue \in [Sessions -> Seq(Places)]
      /\ store \in [Sessions -> {"idle", "loading", "mkdir", "rename",
                                   "poisoned", "crashed"}]
  BY DEF BaseInv, TypeOK
<1>3. /\ records' = [records EXCEPT ![s] = new]
      /\ store' = [store EXCEPT ![s] = IF ignored THEN "idle" ELSE "mkdir"]
      /\ queue' = [queue EXCEPT ![s] = Tail(queue[s])]
  BY DEF Apply
<1> HIDE DEF p, c, e
<1>4. known[c] \in Records \cup {NoRecord}
  BY <1>1 DEF Indexes
<1>5. ~ignored => /\ Updated(known[c], e) \in Records
                  /\ known[c].done => Updated(known[c], e).done
  BY <1>1, <1>4, UpdatedType
<1>6. /\ new \in Indexes
      /\ \A d \in Ids : d # c => new[d] = known[d]
      /\ ~ignored => new[c] = Updated(known[c], e)
      /\ known[c].done => new[c].done
  <2>1. CASE ignored
    BY <2>1
  <2>2. CASE ~ignored
    BY <1>1, <1>5, <2>2 DEF Indexes
  <2>3. QED BY <2>1, <2>2
<1> HIDE DEF new
<1>7. /\ records' \in [Sessions -> Indexes] /\ records'[s] = new
      /\ \A t \in Sessions : t # s => records'[t] = records[t]
  BY <1>2, <1>3, <1>6
<1>8. /\ store' \in [Sessions -> {"idle", "loading", "mkdir", "rename",
                                    "poisoned", "crashed"}]
      /\ store'[s] = IF ignored THEN "idle" ELSE "mkdir"
      /\ \A t \in Sessions : t # s => store'[t] = store[t]
  BY <1>2, <1>3
<1>9. \A t \in Sessions : t # s => queue'[t] = queue[t]
  BY <1>2, <1>3
<1>10. ignored => new = known
  BY DEF new
<1>11. QED BY <1>3, <1>6, <1>7, <1>8, <1>9, <1>10 DEF p, c, e

\* What a merge returns is of the right type.
LEMMA MergedType ==
  ASSUME BaseInv, NEW s \in Sessions
  PROVE  Merged(s) \in Indexes
<1>1. content[s] \in Indexes /\ records[s] \in Indexes
  BY DEF BaseInv, TypeOK
<1>2. QED BY <1>1 DEF Merged, Indexes

LEMMA NothingRecorded == NoRecords \in Indexes
BY DEF NoRecords, Indexes

LEMMA BaseInit == Init => BaseInv
<1> SUFFICES ASSUME Init PROVE BaseInv
  OBVIOUS
<1>1. <<>> \in Seq(Kinds) /\ <<>> \in Seq(Places)
  BY EmptySeq
<1>2. OldRecord \in Records
  BY IndexAssumption DEF OldRecord, Records
<1>3. file \in Indexes
  BY <1>2 DEF Init, Indexes
<1>4. TypeOK
  <2>1. told \in [Calls -> Seq(Kinds)] /\ queue \in [Sessions -> Seq(Places)]
    BY <1>1 DEF Init
  <2>2. /\ records \in [Sessions -> Indexes] /\ content \in [Sessions -> Indexes]
        /\ temp \in [Sessions -> Indexes]
    BY NothingRecorded DEF Init
  <2>3. /\ loaded \in [Sessions -> BOOLEAN]
        /\ reading \in [Sessions -> {"none", "open", "got"}]
        /\ store \in [Sessions -> {"idle", "loading", "mkdir", "rename",
                                     "poisoned", "crashed"}]
        /\ faults \in 0 .. MaxFaults /\ blind \subseteq Sessions
    BY IndexAssumption DEF Init
  <2>4. QED BY <1>3, <2>1, <2>2, <2>3 DEF TypeOK
<1>5. ToldInv
  <2>1. SUFFICES ASSUME NEW c \in Calls
                 PROVE  Lawful(told[c]) /\ Failures(told[c]) <= MaxFailures
    BY DEF ToldInv
  <2>2. told[c] = <<>> /\ Len(told[c]) = 0
    BY EmptySeq DEF Init
  <2>3. Failures(told[c]) = 0
    <3>1. {i \in DOMAIN told[c] : told[c][i] = "failed"} = {}
      BY <2>2
    <3>2. QED BY <3>1, FS_EmptySet DEF Failures
  <2>4. QED BY <2>2, <2>3, IndexAssumption DEF Lawful
<1>6. QueueInv
  <2>1. \A s \in Sessions : Len(queue[s]) = 0
    BY EmptySeq DEF Init
  <2>2. QED BY <2>1 DEF QueueInv
<1>7. LoadInv
  BY DEF Init, LoadInv
<1>8. QED BY <1>4, <1>5, <1>6, <1>7 DEF BaseInv

LEMMA BaseStep == BaseInv /\ [Next]_vars => BaseInv'
<1> SUFFICES ASSUME BaseInv, [Next]_vars PROVE BaseInv'
  OBVIOUS
<1> USE DEF storeVars, callVars
<1>1. ASSUME NEW c \in Calls, NEW kind \in Kinds, Emit(c, kind)
      PROVE  BaseInv'
  <2>1. ToldInv' /\ QueueInv'
    BY <1>1, EmitTold, EmitQueue
  <2>2. TypeOK'
    BY <1>1, EmitFacts DEF BaseInv, TypeOK, Emit
  <2>3. LoadInv'
    <3>1. SUFFICES ASSUME NEW t \in Sessions, store[t] = "loading"
                   PROVE  queue'[t] # <<>>
      BY <1>1 DEF Emit, LoadInv
    <3>2. queue[t] # <<>>
      BY <3>1 DEF BaseInv, LoadInv
    <3>3. CASE t = Owner[c]
      <4>1. /\ queue' \in [Sessions -> Seq(Places)]
            /\ Len(queue'[Owner[c]]) = Len(queue[Owner[c]]) + 1
            /\ Len(queue[Owner[c]]) \in Nat
        BY <1>1, EmitFacts
      <4>2. Len(queue'[t]) # 0 /\ queue'[t] \in Seq(Places)
        BY <3>3, <4>1
      <4>3. QED BY <4>2, EmptySeq
    <3>4. QED BY <1>1, <3>2, <3>3, EmitFacts
  <2>4. QED BY <2>1, <2>2, <2>3 DEF BaseInv
<1>2. ASSUME NEW s \in Sessions, NEW known \in Indexes, queue[s] # <<>>,
             Apply(s, known), UNCHANGED <<told, loaded, temp, file, faults>>,
             blind' \subseteq Sessions,
             reading' \in [Sessions -> {"none", "open", "got"}],
             content' \in [Sessions -> Indexes]
      PROVE  BaseInv'
  <2>1. /\ records' \in [Sessions -> Indexes]
        /\ store' \in [Sessions -> {"idle", "loading", "mkdir", "rename",
                                      "poisoned", "crashed"}]
        /\ store'[s] \in {"idle", "mkdir"}
        /\ \A t \in Sessions : t # s => store'[t] = store[t] /\ queue'[t] = queue[t]
        /\ queue' = [queue EXCEPT ![s] = Tail(queue[s])]
    BY <1>2, ApplyFacts
  <2>2. queue' \in [Sessions -> Seq(Places)] /\ QueueInv'
    BY <1>2, <2>1, QueueShrinks
  <2>3. TypeOK'
    BY <1>2, <2>1, <2>2 DEF BaseInv, TypeOK
  <2>4. ToldInv' /\ LoadInv'
    BY <1>2, <2>1 DEF BaseInv, ToldInv, LoadInv
  <2>5. QED BY <2>2, <2>3, <2>4 DEF BaseInv
<1>3. ASSUME TypeOK', UNCHANGED callVars,
             \A t \in Sessions : store'[t] = "loading" => queue[t] # <<>>
      PROVE  BaseInv'
  BY <1>3 DEF BaseInv, ToldInv, QueueInv, LoadInv
<1>4. ASSUME NEW s \in Sessions, Ingest(s) PROVE BaseInv'
  <2>1. records[s] \in Indexes /\ reading' = reading /\ content' = content
    BY <1>4 DEF BaseInv, TypeOK, Ingest
  <2>2. QED BY <1>2, <1>4, <2>1 DEF BaseInv, TypeOK, Ingest
<1>5. ASSUME NEW s \in Sessions, FinishLoad(s) PROVE BaseInv'
  <2>1. Merged(s) \in Indexes /\ queue[s] # <<>>
    BY <1>5, MergedType DEF BaseInv, LoadInv, FinishLoad
  <2>2. /\ reading' \in [Sessions -> {"none", "open", "got"}]
        /\ content' \in [Sessions -> Indexes]
    BY <1>5, NothingRecorded DEF BaseInv, TypeOK, FinishLoad
  <2>3. blind' \subseteq Sessions
    BY <1>5 DEF BaseInv, TypeOK, FinishLoad
  <2>4. QED BY <1>2, <1>5, <2>1, <2>2, <2>3 DEF FinishLoad
<1>6. ASSUME NEW s \in Sessions, StartLoad(s) PROVE BaseInv'
  <2>1. TypeOK'
    BY <1>6 DEF BaseInv, TypeOK, StartLoad
  <2>2. QED BY <1>3, <1>6, <2>1 DEF BaseInv, TypeOK, LoadInv, StartLoad
<1>7. ASSUME NEW s \in Sessions, List(s) PROVE BaseInv'
  <2>1. TypeOK'
    BY <1>7 DEF BaseInv, TypeOK, List
  <2>2. QED BY <1>3, <1>7, <2>1 DEF BaseInv, LoadInv, List
<1>8. ASSUME NEW s \in Sessions, ReadFile(s) PROVE BaseInv'
  <2>1. TypeOK'
    BY <1>8 DEF BaseInv, TypeOK, ReadFile
  <2>2. QED BY <1>3, <1>8, <2>1 DEF BaseInv, LoadInv, ReadFile
<1>9. ASSUME NEW s \in Sessions, FinishList(s) PROVE BaseInv'
  <2>1. Merged(s) \in Indexes
    BY MergedType
  <2>2. TypeOK'
    BY <1>9, <2>1, NothingRecorded DEF BaseInv, TypeOK, FinishList
  <2>3. QED BY <1>3, <1>9, <2>2 DEF BaseInv, LoadInv, FinishList
<1>10. ASSUME NEW s \in Sessions, WriteTemp(s) PROVE BaseInv'
  <2>1. TypeOK'
    BY <1>10 DEF BaseInv, TypeOK, WriteTemp
  <2>2. QED BY <1>3, <1>10, <2>1 DEF BaseInv, TypeOK, LoadInv, WriteTemp
<1>11. ASSUME NEW s \in Sessions, Rename(s) PROVE BaseInv'
  <2>1. TypeOK'
    BY <1>11, NothingRecorded DEF BaseInv, TypeOK, Rename
  <2>2. QED BY <1>3, <1>11, <2>1 DEF BaseInv, TypeOK, LoadInv, Rename
<1>12. ASSUME NEW s \in Sessions, WriteFails(s) PROVE BaseInv'
  <2>1. faults' \in 0 .. MaxFaults
    BY <1>12, IndexAssumption DEF BaseInv, TypeOK, WriteFails
  <2>2. TypeOK'
    BY <1>12, <2>1 DEF BaseInv, TypeOK, WriteFails
  <2>3. QED BY <1>3, <1>12, <2>2 DEF BaseInv, TypeOK, LoadInv, WriteFails
<1>13. ASSUME NEW s \in Sessions, ReadFails(s) PROVE BaseInv'
  <2>1. faults' \in 0 .. MaxFaults
    BY <1>13, IndexAssumption DEF BaseInv, TypeOK, ReadFails
  <2>2. TypeOK'
    BY <1>13, <2>1 DEF BaseInv, TypeOK, ReadFails
  <2>3. QED BY <1>3, <1>13, <2>2 DEF BaseInv, TypeOK, LoadInv, ReadFails
<1>14. ASSUME NEW s \in Sessions, Crash(s) PROVE BaseInv'
  <2>1. faults' \in 0 .. MaxFaults
    BY <1>14, IndexAssumption DEF BaseInv, TypeOK, Crash
  <2>2. <<>> \in Seq(Places) /\ Len(<<>>) = 0
    BY EmptySeq
  <2>3. TypeOK'
    BY <1>14, <2>1, <2>2, NothingRecorded DEF BaseInv, TypeOK, Crash
  <2>4. /\ queue'[s] = <<>> /\ store'[s] = "crashed" /\ told' = told
        /\ \A t \in Sessions : t # s => queue'[t] = queue[t] /\ store'[t] = store[t]
    BY <1>14 DEF BaseInv, TypeOK, Crash
  <2>5. ToldInv' /\ LoadInv'
    BY <2>4 DEF BaseInv, ToldInv, LoadInv
  <2>6. QueueInv'
    <3>1. SUFFICES ASSUME NEW t \in Sessions, NEW i \in 1 .. Len(queue'[t])
                   PROVE  /\ Owner[queue'[t][i].call] = t
                          /\ queue'[t][i].nr <= Len(told'[queue'[t][i].call])
                          /\ \A j \in 1 .. i - 1 :
                               queue'[t][j].call = queue'[t][i].call
                                 => queue'[t][j].nr < queue'[t][i].nr
      BY DEF QueueInv
    <3>2. t # s
      BY <2>2, <2>4, <3>1
    <3>3. queue'[t] = queue[t] /\ told' = told
      BY <2>4, <3>2
    <3>4. QED BY <3>1, <3>3 DEF BaseInv, QueueInv
  <2>7. QED BY <2>3, <2>5, <2>6 DEF BaseInv
<1>15. ASSUME UNCHANGED vars PROVE BaseInv'
  <2>1. TypeOK'
    BY <1>15 DEF BaseInv, TypeOK, vars
  <2>2. QED BY <1>3, <1>15, <2>1 DEF BaseInv, LoadInv, vars
<1>16. QED
  BY <1>1, <1>4, <1>5, <1>6, <1>7, <1>8, <1>9, <1>10, <1>11, <1>12, <1>13, <1>14,
     <1>15 DEF Next, Work

\* The stores, their files and the queues hold what RunIndexStore's types and
\* the ingestion's call sites let them hold.
THEOREM IndexTypeCorrect == Spec => []TypeOK
<1>1. Spec => []BaseInv
  BY BaseInit, BaseStep, PTL DEF Spec
<1>2. BaseInv => TypeOK
  BY DEF BaseInv
<1>3. QED BY <1>1, <1>2, PTL
-----------------------------------------------------------------------------
(* Who reads and who writes.                                               *)

Busy == {"loading", "mkdir", "rename"}

\* Who writes has events of its own.  The file is read on behalf of the first
\* event or, of a list, before the first event is taken in, unless the session
\* is blind.
ReadInv ==
  \A s \in Sessions :
    /\ reading[s] # "none" => loaded[s]
    /\ s \notin blind /\ reading[s] # "none" => store[s] \in {"loading", "idle"}
    /\ store[s] \in Busy => \E c \in Calls : Owner[c] = s /\ told[c] # <<>>

LEMMA ReadStep ==
  ASSUME BaseInv, ReadInv, [Next]_vars
  PROVE  ReadInv'
<1> USE DEF storeVars, callVars
<1> DEFINE Spoken(t) == \E c \in Calls : Owner[c] = t /\ told'[c] # <<>>
           Safe(t) ==
             /\ reading'[t] # "none" => loaded'[t]
             /\ t \notin blind' /\ reading'[t] # "none"
                  => store'[t] \in {"loading", "idle"}
             /\ store'[t] \in Busy => Spoken(t)
           Others(s) == \A t \in Sessions :
             t # s => /\ reading'[t] = reading[t]
                      /\ loaded'[t] = loaded[t]
                      /\ store'[t] = store[t]
<1>1. SUFFICES \A t \in Sessions : Safe(t)
  BY DEF ReadInv
<1>2. /\ reading \in [Sessions -> {"none", "open", "got"}]
      /\ loaded \in [Sessions -> BOOLEAN]
      /\ store \in [Sessions -> {"idle", "loading", "mkdir", "rename",
                                   "poisoned", "crashed"}]
  BY DEF BaseInv, TypeOK
<1>3. blind \subseteq blind'
  BY DEF Next, Work, Emit, Ingest, StartLoad, List, ReadFile, FinishLoad,
         FinishList, WriteTemp, Rename, WriteFails, ReadFails, Crash, vars
<1>4. \A c \in Calls : told[c] # <<>> => told'[c] # <<>>
  <2>1. CASE \E d \in Calls, kind \in Kinds : Emit(d, kind)
    <3>1. PICK d \in Calls, kind \in Kinds : Emit(d, kind)
      BY <2>1
    <3>2. /\ told[d] \in Seq(Kinds) /\ told'[d] = Append(told[d], kind)
          /\ \A e \in Calls : e # d => told'[e] = told[e]
      BY <3>1, EmitFacts
    <3>3. Append(told[d], kind) # <<>>
      BY <3>2, AppendProperties, EmptySeq
    <3>4. QED BY <3>2, <3>3
  <2>2. CASE ~\E d \in Calls, kind \in Kinds : Emit(d, kind)
    BY <2>2 DEF Next, Work, Ingest, StartLoad, ReadFile, FinishLoad, FinishList,
                WriteTemp, Rename, List, WriteFails, ReadFails, Crash, vars
  <2>3. QED BY <2>1, <2>2
<1>5. \A t \in Sessions : store[t] \in Busy => Spoken(t)
  BY <1>4 DEF ReadInv
<1>6. ASSUME NEW s \in Sessions
      PROVE  /\ reading[s] # "none" => loaded[s]
             /\ s \notin blind /\ reading[s] # "none"
                  => store[s] \in {"loading", "idle"}
  BY DEF ReadInv
<1>7. ASSUME NEW s \in Sessions, queue[s] # <<>> PROVE Spoken(s)
  <2> DEFINE p == Head(queue[s])
  <2>1. /\ p.call \in Calls /\ Owner[p.call] = s
        /\ p.nr \in 1 .. Len(told[p.call])
    BY <1>7, EventType
  <2>2. told[p.call] # <<>>
    BY <2>1, EmptySeq
  <2>3. QED BY <1>4, <2>1, <2>2
<1> HIDE DEF Spoken
<1>8. ASSUME NEW s \in Sessions, Others(s), Safe(s)
      PROVE  \A t \in Sessions : Safe(t)
  BY <1>3, <1>5, <1>6, <1>8
<1>9. ASSUME UNCHANGED <<reading, loaded, store>>
      PROVE  \A t \in Sessions : Safe(t)
  BY <1>3, <1>5, <1>6, <1>9
<1>10. ASSUME NEW s \in Sessions, NEW known \in Indexes, queue[s] # <<>>,
              Apply(s, known), told' = told, loaded' = loaded,
              \A t \in Sessions : t # s => reading'[t] = reading[t],
              s \notin blind' => reading'[s] = "none",
              reading'[s] # "none" => reading[s] # "none"
       PROVE  \A t \in Sessions : Safe(t)
  <2>1. \A t \in Sessions : t # s => store'[t] = store[t]
    BY <1>10, ApplyFacts
  <2>2. Spoken(s)
    BY <1>7, <1>10
  <2>3. Others(s)
    BY <1>10, <2>1
  <2>4. Safe(s)
    BY <1>6, <1>10, <2>2
  <2>5. QED BY <1>8, <2>3, <2>4
<1>11. ASSUME NEW c \in Calls, NEW kind \in Kinds, Emit(c, kind)
       PROVE  \A t \in Sessions : Safe(t)
  BY <1>9, <1>11 DEF Emit
<1>12. ASSUME NEW s \in Sessions, Ingest(s) PROVE \A t \in Sessions : Safe(t)
  <2>1. records[s] \in Indexes
    BY DEF BaseInv, TypeOK
  <2>2. s \notin blind' => reading[s] = "none"
    BY <1>12 DEF Ingest
  <2>3. QED BY <1>10, <1>12, <2>1, <2>2 DEF Ingest
<1>13. ASSUME NEW s \in Sessions, FinishLoad(s) PROVE \A t \in Sessions : Safe(t)
  <2>1. Merged(s) \in Indexes /\ queue[s] # <<>>
    BY <1>13, MergedType DEF BaseInv, LoadInv, FinishLoad
  <2>2. reading'[s] = "none" /\ \A t \in Sessions : t # s => reading'[t] = reading[t]
    BY <1>2, <1>13 DEF FinishLoad
  <2>3. QED BY <1>10, <1>13, <2>1, <2>2 DEF FinishLoad
<1>14. ASSUME NEW s \in Sessions, StartLoad(s) PROVE \A t \in Sessions : Safe(t)
  <2>1. queue[s] # <<>> /\ Others(s)
    BY <1>2, <1>14 DEF StartLoad
  <2>2. reading'[s] = "open" /\ loaded'[s] /\ store'[s] = "loading"
    BY <1>2, <1>14 DEF StartLoad
  <2>3. QED BY <1>7, <1>8, <2>1, <2>2
<1>15. ASSUME NEW s \in Sessions, List(s) PROVE \A t \in Sessions : Safe(t)
  <2>1. /\ Others(s) /\ loaded'[s] /\ store'[s] = store[s]
        /\ store[s] = "idle"
    BY <1>2, <1>15 DEF List
  <2>2. QED BY <1>8, <2>1 DEF Busy
<1>16. ASSUME NEW s \in Sessions, ReadFile(s) PROVE \A t \in Sessions : Safe(t)
  <2>1. /\ reading[s] = "open" /\ reading'[s] = "got" /\ Others(s)
        /\ loaded'[s] = loaded[s] /\ store'[s] = store[s]
    BY <1>2, <1>16 DEF ReadFile
  <2>2. QED BY <1>3, <1>5, <1>6, <1>8, <2>1
<1>17. ASSUME NEW s \in Sessions, FinishList(s) PROVE \A t \in Sessions : Safe(t)
  <2>1. /\ reading'[s] = "none" /\ Others(s) /\ store'[s] = store[s]
    BY <1>2, <1>17 DEF FinishList
  <2>2. QED BY <1>5, <1>8, <2>1
<1>18. ASSUME NEW s \in Sessions, WriteTemp(s) PROVE \A t \in Sessions : Safe(t)
  <2>1. /\ store[s] = "mkdir" /\ store'[s] = "rename" /\ Others(s)
        /\ reading'[s] = reading[s] /\ loaded'[s] = loaded[s]
    BY <1>2, <1>18 DEF WriteTemp
  <2>2. QED BY <1>3, <1>5, <1>6, <1>8, <2>1 DEF Busy
<1>19. ASSUME NEW s \in Sessions, Rename(s) PROVE \A t \in Sessions : Safe(t)
  <2>1. /\ store[s] = "rename" /\ store'[s] = "idle" /\ Others(s)
        /\ reading'[s] = reading[s] /\ loaded'[s] = loaded[s]
    BY <1>2, <1>19 DEF Rename
  <2>2. QED BY <1>6, <1>8, <2>1 DEF Busy
<1>20. ASSUME NEW s \in Sessions, WriteFails(s) PROVE \A t \in Sessions : Safe(t)
  <2>1. /\ store[s] \in {"mkdir", "rename"} /\ store'[s] = "poisoned" /\ Others(s)
        /\ reading'[s] = reading[s] /\ loaded'[s] = loaded[s]
    BY <1>2, <1>20 DEF WriteFails
  <2>2. QED BY <1>3, <1>6, <1>8, <2>1 DEF Busy
<1>21. ASSUME NEW s \in Sessions, ReadFails(s) PROVE \A t \in Sessions : Safe(t)
  <2>1. /\ store'[s] = IF store[s] = "loading" THEN "poisoned" ELSE store[s]
        /\ reading'[s] = "none" /\ Others(s)
    BY <1>2, <1>21 DEF ReadFails
  <2>2. QED BY <1>5, <1>8, <2>1 DEF Busy
<1>22. ASSUME NEW s \in Sessions, Crash(s) PROVE \A t \in Sessions : Safe(t)
  <2>1. store'[s] = "crashed" /\ reading'[s] = "none" /\ Others(s)
    BY <1>2, <1>22 DEF Crash
  <2>2. QED BY <1>8, <2>1 DEF Busy
<1>23. CASE UNCHANGED vars
  BY <1>9, <1>23 DEF vars
<1>24. QED
  BY <1>11, <1>12, <1>13, <1>14, <1>15, <1>16, <1>17, <1>18, <1>19, <1>20, <1>21,
     <1>22, <1>23 DEF Next, Work

\* What is said of a call anywhere: on disk, in memory and in between.
Held(c) ==
  {file[c]} \cup {records[s][c] : s \in Sessions}
            \cup {content[s][c] : s \in Sessions}
            \cup {temp[s][c] : s \in Sessions}

\* Records move from place to place; an ingestion puts in a new one.
LEMMA HeldMoves ==
  ASSUME BaseInv, [Next]_vars, NEW c \in Ids
  PROVE  \/ Held(c)' \subseteq Held(c) \cup {NoRecord}
         \/ \E s \in Sessions :
              /\ queue[s] # <<>> /\ Head(queue[s]).call = c
              /\ Held(c)' \subseteq Held(c) \cup {NoRecord, records'[s][c]}
              /\ \/ Ingest(s)
                 \/ FinishLoad(s)
<1> USE DEF storeVars, callVars
<1> DEFINE Kept == Held(c)' \subseteq Held(c) \cup {NoRecord}
<1>1. /\ records \in [Sessions -> Indexes] /\ content \in [Sessions -> Indexes]
      /\ temp \in [Sessions -> Indexes] /\ file \in Indexes
      /\ NoRecords[c] = NoRecord
  BY DEF BaseInv, TypeOK, NoRecords
<1>2. Held(c)' = {file'[c]} \cup {records'[s][c] : s \in Sessions}
                            \cup {content'[s][c] : s \in Sessions}
                            \cup {temp'[s][c] : s \in Sessions}
  BY DEF Held
<1>3. /\ file[c] \in Held(c)
      /\ \A s \in Sessions : /\ records[s][c] \in Held(c)
                             /\ content[s][c] \in Held(c)
                             /\ temp[s][c] \in Held(c)
  BY DEF Held
<1>4. ASSUME NEW r,
             file'[c] \in Held(c) \cup {NoRecord, r},
             \A s \in Sessions : /\ records'[s][c] \in Held(c) \cup {NoRecord, r}
                                 /\ content'[s][c] \in Held(c) \cup {NoRecord, r}
                                 /\ temp'[s][c] \in Held(c) \cup {NoRecord, r}
      PROVE  Held(c)' \subseteq Held(c) \cup {NoRecord, r}
  BY <1>2, <1>4
<1>5. ASSUME file'[c] \in Held(c) \cup {NoRecord},
             \A s \in Sessions : /\ records'[s][c] \in Held(c) \cup {NoRecord}
                                 /\ content'[s][c] \in Held(c) \cup {NoRecord}
                                 /\ temp'[s][c] \in Held(c) \cup {NoRecord}
      PROVE  Kept
  BY <1>2, <1>5
<1>6. ASSUME UNCHANGED <<records, content, temp, file>> PROVE Kept
  BY <1>3, <1>5, <1>6
<1>7. ASSUME NEW s \in Sessions
      PROVE  Merged(s)[c] \in Held(c)
  BY <1>3 DEF Merged
<1>8. ASSUME NEW s \in Sessions, NEW known \in Indexes, known[c] \in Held(c),
             queue[s] # <<>>, Apply(s, known), told' = told,
             UNCHANGED <<temp, file>>,
             \A t \in Sessions : content'[t][c] \in Held(c) \cup {NoRecord}
      PROVE  \/ Kept
             \/ /\ Head(queue[s]).call = c
                /\ Held(c)' \subseteq Held(c) \cup {NoRecord, records'[s][c]}
  <2>1. /\ \A t \in Sessions : t # s => records'[t] = records[t]
        /\ c # Head(queue[s]).call => records'[s][c] = known[c]
    BY <1>8, ApplyFacts
  <2>2. CASE Head(queue[s]).call = c
    BY <1>3, <1>4, <1>8, <2>1, <2>2
  <2>3. CASE Head(queue[s]).call # c
    BY <1>3, <1>5, <1>8, <2>1, <2>3
  <2>4. QED BY <2>2, <2>3
<1> HIDE DEF Kept
<1>9. ASSUME NEW s \in Sessions, Ingest(s)
      PROVE  \/ Kept
             \/ /\ queue[s] # <<>> /\ Head(queue[s]).call = c
                /\ Held(c)' \subseteq Held(c) \cup {NoRecord, records'[s][c]}
  <2>1. records[s] \in Indexes /\ records[s][c] \in Held(c)
    BY <1>1, <1>3
  <2>2. /\ queue[s] # <<>> /\ Apply(s, records[s]) /\ told' = told
        /\ UNCHANGED <<temp, file>> /\ content' = content
    BY <1>9 DEF Ingest
  <2>3. QED BY <1>3, <1>8, <2>1, <2>2
<1>10. ASSUME NEW s \in Sessions, FinishLoad(s)
       PROVE  \/ Kept
              \/ /\ queue[s] # <<>> /\ Head(queue[s]).call = c
                 /\ Held(c)' \subseteq Held(c) \cup {NoRecord, records'[s][c]}
  <2>1. Merged(s) \in Indexes /\ queue[s] # <<>> /\ Merged(s)[c] \in Held(c)
    BY <1>7, <1>10, MergedType DEF BaseInv, LoadInv, FinishLoad
  <2>2. /\ Apply(s, Merged(s)) /\ told' = told /\ UNCHANGED <<temp, file>>
        /\ content' = [content EXCEPT ![s] = NoRecords]
    BY <1>10 DEF FinishLoad
  <2>3. \A t \in Sessions : content'[t][c] \in Held(c) \cup {NoRecord}
    BY <1>1, <1>3, <2>2
  <2>4. QED BY <1>8, <2>1, <2>2, <2>3
<1>11. ASSUME NEW s \in Sessions, ReadFile(s) PROVE Kept
  BY <1>1, <1>3, <1>5, <1>11 DEF ReadFile
<1>12. ASSUME NEW s \in Sessions, FinishList(s) PROVE Kept
  BY <1>1, <1>3, <1>5, <1>7, <1>12 DEF FinishList
<1>13. ASSUME NEW s \in Sessions, WriteTemp(s) PROVE Kept
  BY <1>1, <1>3, <1>5, <1>13 DEF WriteTemp
<1>14. ASSUME NEW s \in Sessions, Rename(s) PROVE Kept
  BY <1>1, <1>3, <1>5, <1>14 DEF Rename
<1>15. ASSUME NEW s \in Sessions, Crash(s) PROVE Kept
  BY <1>1, <1>3, <1>5, <1>15 DEF Crash
<1>16. ASSUME NEW s \in Sessions,
              StartLoad(s) \/ List(s) \/ WriteFails(s) \/ ReadFails(s)
       PROVE  Kept
  BY <1>6, <1>16 DEF StartLoad, List, WriteFails, ReadFails
<1>17. ASSUME NEW d \in Calls, NEW kind \in Kinds, Emit(d, kind) PROVE Kept
  BY <1>6, <1>17 DEF Emit
<1>18. ASSUME UNCHANGED vars PROVE Kept
  BY <1>6, <1>18 DEF vars
<1>19. QED
  BY <1>9, <1>10, <1>11, <1>12, <1>13, <1>14, <1>15, <1>16, <1>17, <1>18
     DEF Next, Work, Kept
-----------------------------------------------------------------------------
(* What is said of one call.                                               *)

\* All of it was true once.
PastInv(c) ==
  \A r \in Held(c) : \E n \in 0 .. Len(told[c]) : r = RecordUpTo(told[c], n)

\* Nothing is said of a call before its session has read the file.
Unborn(c) ==
  LET s == Owner[c] IN
  store[s] # "crashed" /\ (~loaded[s] \/ reading[s] # "none")
    => Held(c) \subseteq {NoRecord}

\* The session knows the first n events and has the others before it.
UpToDate(c, n) ==
  LET s == Owner[c] IN
  /\ records[s][c] = RecordUpTo(told[c], n)
  /\ \A i \in 1 .. Len(queue[s]) : queue[s][i].call = c => n < queue[s][i].nr
  /\ \A k \in n + 1 .. Len(told[c]) :
       \E i \in 1 .. Len(queue[s]) : queue[s][i] = [call |-> c, nr |-> k]

MemoryInv(c) ==
  store[Owner[c]] # "crashed" => \E n \in 0 .. Len(told[c]) : UpToDate(c, n)

CallInv ==
  \A c \in Calls : Owner[c] \notin blind => PastInv(c) /\ Unborn(c) /\ MemoryInv(c)

\* Who is blind stays so.
LEMMA BlindGrows == [Next]_vars => blind \subseteq blind'
BY DEF Next, Work, Emit, Ingest, StartLoad, List, ReadFile, FinishLoad, FinishList,
       WriteTemp, Rename, WriteFails, ReadFails, Crash, vars

\* What a session takes its next event into: what it has in memory.
LEMMA KnownIsMemory ==
  ASSUME BaseInv, ReadInv, NEW c \in Calls, Unborn(c),
         NEW s, s = Owner[c], s \notin blind', Ingest(s) \/ FinishLoad(s)
  PROVE  \E known \in Indexes :
           /\ queue[s] # <<>> /\ Apply(s, known) /\ told' = told
           /\ UNCHANGED <<temp, file>>
           /\ known[c] = records[s][c]
           /\ loaded'[s] /\ reading'[s] = "none"
<1>1. /\ s \in Sessions /\ c \in Ids
      /\ records[s] \in Indexes /\ reading \in [Sessions -> {"none", "open", "got"}]
  BY IndexAssumption DEF BaseInv, TypeOK, Ids
<1>2. CASE Ingest(s)
  <2>1. reading[s] = "none"
    BY <1>1, <1>2 DEF Ingest
  <2>2. QED BY <1>1, <1>2, <2>1 DEF Ingest
<1>3. CASE FinishLoad(s)
  <2>1. Merged(s) \in Indexes /\ queue[s] # <<>>
    BY <1>1, <1>3, MergedType DEF BaseInv, LoadInv, FinishLoad
  <2>2. reading[s] = "got" /\ store[s] = "loading" /\ loaded[s]
    BY <1>1, <1>3 DEF ReadInv, FinishLoad
  <2>3. content[s][c] = NoRecord
    BY <1>1, <2>2 DEF Unborn, Held
  <2>4. Merged(s)[c] = records[s][c]
    BY <1>1, <2>3 DEF Merged
  <2>5. /\ Apply(s, Merged(s)) /\ told' = told /\ UNCHANGED <<temp, file>>
        /\ loaded'[s] /\ reading'[s] = "none"
    BY <1>1, <1>3, <2>2 DEF FinishLoad
  <2>6. QED BY <2>1, <2>4, <2>5
<1>4. QED BY <1>2, <1>3

\* The next event in the queue is the next one of its call's history.
LEMMA NextEvent ==
  ASSUME BaseInv, NEW c \in Calls, NEW s, s = Owner[c], queue[s] # <<>>,
         Head(queue[s]).call = c, NEW n \in 0 .. Len(told[c]), UpToDate(c, n),
         NEW known \in Indexes, Apply(s, known), told' = told,
         known[c] = records[s][c]
  PROVE  /\ n + 1 \in 0 .. Len(told[c])
         /\ Head(queue[s]).nr = n + 1
         /\ records'[s][c] = RecordUpTo(told[c], n + 1)
<1> DEFINE p == Head(queue[s])
<1>1. s \in Sessions /\ told[c] \in Seq(Kinds) /\ Lawful(told[c])
  BY IndexAssumption DEF BaseInv, TypeOK, ToldInv
<1>2. /\ p = queue[s][1] /\ 1 \in 1 .. Len(queue[s])
      /\ p.nr \in 1 .. Len(told[c]) /\ Len(told[c]) \in Nat
  BY <1>1, EventType, LenProperties
<1>3. n < p.nr
  BY <1>2 DEF UpToDate
<1>4. n \in Nat /\ n + 1 \in n + 1 .. Len(told[c]) /\ n + 1 \in 0 .. Len(told[c])
  BY <1>2, <1>3
<1>5. PICK i \in 1 .. Len(queue[s]) : queue[s][i] = [call |-> c, nr |-> n + 1]
  BY <1>4 DEF UpToDate
<1>6. p.nr = n + 1
  <2>1. CASE i = 1
    BY <1>2, <1>5, <2>1
  <2>2. CASE i # 1
    <3>1. 1 \in 1 .. i - 1
      BY <1>5, <2>2
    <3>2. \A j \in 1 .. i - 1 : queue[s][j].call = queue[s][i].call
                                => queue[s][j].nr < queue[s][i].nr
      BY <1>1 DEF BaseInv, QueueInv
    <3>3. queue[s][i].call = c /\ queue[s][i].nr = n + 1 /\ queue[s][1].call = c
      BY <1>2, <1>5
    <3>4. p.nr < n + 1
      BY <1>2, <3>1, <3>2, <3>3
    <3>5. QED BY <1>2, <1>3, <1>4, <3>4
  <2>3. QED BY <2>1, <2>2
<1>7. EventAt(p) = [ kind |-> told[c][n + 1],
                     attempt |-> Failures(SubSeq(told[c], 1, n + 1)) ]
  BY <1>6 DEF EventAt
<1> HIDE DEF p
<1>8. n + 1 <= Len(told[c])
  BY <1>4
<1>9. /\ Updated(RecordUpTo(told[c], n), EventAt(p)) = RecordUpTo(told[c], n + 1)
      /\ ~(RecordUpTo(told[c], n) = NoRecord /\ EventAt(p).kind # "started")
  BY <1>1, <1>7, <1>8, UpdatedFollows
<1>10. known[c] = RecordUpTo(told[c], n)
  BY DEF UpToDate
<1>11. records'[s][c] = Updated(known[c], EventAt(p))
  BY <1>1, <1>9, <1>10, ApplyFacts DEF p
<1>12. QED BY <1>4, <1>6, <1>9, <1>10, <1>11 DEF p

\* A session that dies never comes back, and one that has read the file does
\* not read it again.
LEMMA StaysLoaded ==
  ASSUME BaseInv, [Next]_vars, NEW s \in Sessions, store'[s] # "crashed"
  PROVE  /\ store[s] # "crashed"
         /\ ~loaded'[s] \/ reading'[s] # "none" => ~loaded[s] \/ reading[s] # "none"
         /\ ~Crash(s)
<1> USE DEF storeVars, callVars
<1> DEFINE Old == /\ store[s] # "crashed"
                  /\ ~loaded'[s] \/ reading'[s] # "none"
                       => ~loaded[s] \/ reading[s] # "none"
                  /\ ~Crash(s)
<1>1. /\ reading \in [Sessions -> {"none", "open", "got"}]
      /\ loaded \in [Sessions -> BOOLEAN]
      /\ store \in [Sessions -> {"idle", "loading", "mkdir", "rename",
                                   "poisoned", "crashed"}]
  BY DEF BaseInv, TypeOK
<1>2. ~Crash(s)
  BY <1>1 DEF Crash
<1>3. ASSUME NEW t \in Sessions, NEW known \in Indexes, queue[t] # <<>>,
             Apply(t, known), told' = told, store[t] # "crashed", loaded' = loaded,
             reading' \in {reading, [reading EXCEPT ![t] = "none"]}
      PROVE  Old
  <2>1. \A u \in Sessions : u # t => store'[u] = store[u]
    BY <1>3, ApplyFacts
  <2>2. QED BY <1>1, <1>2, <1>3, <2>1
<1>4. ASSUME UNCHANGED <<loaded, reading, store>> PROVE Old
  BY <1>2, <1>4
<1> HIDE DEF Old
<1>5. ASSUME NEW t \in Sessions, Ingest(t) PROVE Old
  <2>1. records[t] \in Indexes
    BY DEF BaseInv, TypeOK
  <2>2. QED BY <1>3, <1>5, <2>1 DEF Ingest
<1>6. ASSUME NEW t \in Sessions, FinishLoad(t) PROVE Old
  <2>1. Merged(t) \in Indexes /\ queue[t] # <<>>
    BY <1>6, MergedType DEF BaseInv, LoadInv, FinishLoad
  <2>2. QED BY <1>3, <1>6, <2>1 DEF FinishLoad
<1>7. ASSUME NEW c \in Calls, NEW kind \in Kinds, Emit(c, kind) PROVE Old
  BY <1>4, <1>7 DEF Emit
<1>8. ASSUME NEW t \in Sessions,
             StartLoad(t) \/ List(t) \/ ReadFile(t) \/ FinishList(t)
      PROVE  Old
  BY <1>1, <1>2, <1>8 DEF Old, StartLoad, List, ReadFile, FinishList
<1>9. ASSUME NEW t \in Sessions, WriteTemp(t) \/ Rename(t) PROVE Old
  BY <1>1, <1>2, <1>9 DEF Old, WriteTemp, Rename
<1>10. ASSUME NEW t \in Sessions, WriteFails(t) \/ ReadFails(t) PROVE Old
  BY <1>1, <1>2, <1>10 DEF Old, WriteFails, ReadFails
<1>11. ASSUME NEW t \in Sessions, Crash(t) PROVE Old
  <2>1. t # s
    BY <1>2, <1>11
  <2>2. /\ store'[s] = store[s] /\ loaded'[s] = loaded[s]
        /\ reading'[s] = reading[s]
    BY <1>1, <1>11, <2>1 DEF Crash
  <2>3. QED BY <1>2, <2>2 DEF Old
<1>12. ASSUME UNCHANGED vars PROVE Old
  BY <1>4, <1>12 DEF vars
<1>13. QED
  BY <1>5, <1>6, <1>7, <1>8, <1>9, <1>10, <1>11, <1>12 DEF Next, Work, Old

\* A history and the queue of its session grow together.
LEMMA UpToDateGrows ==
  ASSUME BaseInv, NEW d \in Calls, NEW kind \in Kinds, Emit(d, kind),
         NEW c \in Calls, NEW n \in 0 .. Len(told[c]), UpToDate(c, n)
  PROVE  n \in 0 .. Len(told'[c]) /\ UpToDate(c, n)'
<1> DEFINE s == Owner[c]
           t == Owner[d]
           place == [call |-> d, nr |-> Len(told[d]) + 1]
<1>1. /\ s \in Sessions /\ t \in Sessions
      /\ told[c] \in Seq(Kinds) /\ Len(told[c]) \in Nat
      /\ told[d] \in Seq(Kinds) /\ Len(told[d]) \in Nat
      /\ told'[d] = Append(told[d], kind)
      /\ \A e \in Calls : e # d => told'[e] = told[e]
      /\ Len(queue'[t]) = Len(queue[t]) + 1 /\ Len(queue[t]) \in Nat
      /\ \A i \in 1 .. Len(queue[t]) : queue'[t][i] = queue[t][i]
      /\ queue'[t][Len(queue[t]) + 1] = place
      /\ \A u \in Sessions : u # t => queue'[u] = queue[u]
  <2>1. s \in Sessions /\ told[c] \in Seq(Kinds) /\ Len(told[c]) \in Nat
    BY IndexAssumption, LenProperties DEF BaseInv, TypeOK
  <2>2. QED BY <2>1, EmitFacts
<1>2. records' = records
  BY DEF Emit, storeVars
<1>3. /\ n \in 0 .. Len(told'[c])
      /\ RecordUpTo(told'[c], n) = RecordUpTo(told[c], n)
      /\ Len(told'[c]) = IF c = d THEN Len(told[c]) + 1 ELSE Len(told[c])
  <2>1. CASE c = d
    <3>1. /\ Len(Append(told[c], kind)) = Len(told[c]) + 1
          /\ n \in 0 .. Len(Append(told[c], kind))
          /\ SubSeq(Append(told[c], kind), 1, n) = SubSeq(told[c], 1, n)
      BY <1>1, GrowingHistory
    <3>2. QED BY <1>1, <2>1, <3>1 DEF RecordUpTo
  <2>2. CASE c # d
    BY <1>1, <2>2
  <2>3. QED BY <2>1, <2>2
<1> HIDE DEF s, t, place
<1>4. /\ records[s][c] = RecordUpTo(told[c], n)
      /\ \A i \in 1 .. Len(queue[s]) : queue[s][i].call = c => n < queue[s][i].nr
      /\ \A k \in n + 1 .. Len(told[c]) :
           \E i \in 1 .. Len(queue[s]) : queue[s][i] = [call |-> c, nr |-> k]
  BY DEF UpToDate, s
<1>5. \A i \in 1 .. Len(queue'[s]) :
        \/ i \in 1 .. Len(queue[s]) /\ queue'[s][i] = queue[s][i]
        \/ s = t /\ queue'[s][i] = place
  <2>1. CASE s = t
    <3>1. ASSUME NEW i \in 1 .. Len(queue'[s])
          PROVE  i \in 1 .. Len(queue[s]) \/ i = Len(queue[t]) + 1
      BY <1>1, <2>1
    <3>2. QED BY <1>1, <2>1, <3>1
  <2>2. CASE s # t
    BY <1>1, <2>2
  <2>3. QED BY <2>1, <2>2
<1>6. ASSUME NEW i \in 1 .. Len(queue'[s]), queue'[s][i].call = c
      PROVE  n < queue'[s][i].nr
  <2>1. CASE i \in 1 .. Len(queue[s]) /\ queue'[s][i] = queue[s][i]
    BY <1>4, <1>6, <2>1
  <2>2. CASE queue'[s][i] = place
    <3>1. d = c /\ queue'[s][i].nr = Len(told[c]) + 1
      BY <1>6, <2>2 DEF place
    <3>2. QED BY <1>1, <3>1
  <2>3. QED BY <1>5, <2>1, <2>2
<1>7. \A i \in 1 .. Len(queue[s]) :
        i \in 1 .. Len(queue'[s]) /\ queue'[s][i] = queue[s][i]
  <2>1. CASE s = t
    BY <1>1, <2>1
  <2>2. CASE s # t
    BY <1>1, <2>2
  <2>3. QED BY <2>1, <2>2
<1>8. ASSUME NEW k \in n + 1 .. Len(told'[c])
      PROVE  \E i \in 1 .. Len(queue'[s]) : queue'[s][i] = [call |-> c, nr |-> k]
  <2>1. CASE k \in n + 1 .. Len(told[c])
    <3>1. PICK i \in 1 .. Len(queue[s]) : queue[s][i] = [call |-> c, nr |-> k]
      BY <1>4, <2>1
    <3>2. QED BY <1>7, <3>1
  <2>2. CASE c = d /\ k = Len(told[c]) + 1
    <3>1. s = t
      BY <2>2 DEF s, t
    <3>2. Len(queue[t]) + 1 \in 1 .. Len(queue'[t])
      BY <1>1
    <3>3. queue'[s][Len(queue[t]) + 1] = [call |-> c, nr |-> k]
      BY <1>1, <2>2, <3>1 DEF place
    <3>4. QED BY <3>1, <3>2, <3>3
  <2>3. k \in n + 1 .. Len(told[c]) \/ (c = d /\ k = Len(told[c]) + 1)
    BY <1>1, <1>3
  <2>4. QED BY <2>1, <2>2, <2>3
<1>9. records'[s][c] = RecordUpTo(told'[c], n)
  BY <1>2, <1>3, <1>4
<1>10. QED BY <1>3, <1>6, <1>8, <1>9 DEF UpToDate, s

\* The events of a call that stay in the queue when the first one leaves it.
LEMMA UpToDateShrinks ==
  ASSUME BaseInv, NEW c \in Calls, NEW s, s = Owner[c], queue[s] # <<>>,
         queue' = [queue EXCEPT ![s] = Tail(queue[s])], told' = told,
         NEW n \in 0 .. Len(told[c]), UpToDate(c, n),
         NEW m \in 0 .. Len(told[c]), records'[s][c] = RecordUpTo(told[c], m),
         IF Head(queue[s]).call = c
           THEN Head(queue[s]).nr = n + 1 /\ m = n + 1
           ELSE m = n
  PROVE  UpToDate(c, m)'
<1>1. /\ s \in Sessions /\ Len(told[c]) \in Nat
      /\ Len(queue[s]) \in Nat \ {0}
      /\ Head(queue[s]) = queue[s][1]
  <2>1. s \in Sessions /\ Len(told[c]) \in Nat /\ queue[s] \in Seq(Places)
    BY IndexAssumption, LenProperties DEF BaseInv, TypeOK
  <2>2. QED BY <2>1, EmptySeq, EventType
<1>2. /\ Len(queue'[s]) = Len(queue[s]) - 1
      /\ \A i \in 1 .. Len(queue'[s]) : queue'[s][i] = queue[s][i + 1]
  BY <1>1, QueueShrinks
<1>3. /\ \A i \in 1 .. Len(queue[s]) : queue[s][i].call = c => n < queue[s][i].nr
      /\ \A k \in n + 1 .. Len(told[c]) :
           \E i \in 1 .. Len(queue[s]) : queue[s][i] = [call |-> c, nr |-> k]
  BY DEF UpToDate
<1>4. ASSUME NEW i \in 1 .. Len(queue'[s]), queue'[s][i].call = c
      PROVE  m < queue'[s][i].nr
  <2>1. i + 1 \in 1 .. Len(queue[s]) /\ queue'[s][i] = queue[s][i + 1]
    BY <1>1, <1>2
  <2>2. CASE Head(queue[s]).call = c
    <3>1. \A j \in 1 .. (i + 1) - 1 : queue[s][j].call = queue[s][i + 1].call
                                        => queue[s][j].nr < queue[s][i + 1].nr
      BY <1>1, <2>1 DEF BaseInv, QueueInv
    <3>2. 1 \in 1 .. (i + 1) - 1
      BY <1>1, <1>2
    <3>3. queue[s][1].nr = m /\ queue[s][1].call = c
      BY <1>1, <2>2
    <3>4. QED BY <1>4, <2>1, <3>1, <3>2, <3>3
  <2>3. CASE Head(queue[s]).call # c
    BY <1>3, <1>4, <2>1, <2>3
  <2>4. QED BY <2>2, <2>3
<1>5. ASSUME NEW k \in m + 1 .. Len(told[c])
      PROVE  \E i \in 1 .. Len(queue'[s]) : queue'[s][i] = [call |-> c, nr |-> k]
  <2>1. (k \in n + 1 .. Len(told[c]) /\ k # n + 1) \/ m = n
    BY <1>1
  <2>2. k \in n + 1 .. Len(told[c])
    BY <1>1, <2>1
  <2>3. PICK i \in 1 .. Len(queue[s]) : queue[s][i] = [call |-> c, nr |-> k]
    BY <1>3, <2>2
  <2>4. i # 1
    <3>1. CASE Head(queue[s]).call = c
      <4>1. queue[s][1].nr = n + 1 /\ k # n + 1
        BY <1>1, <1>5, <3>1
      <4>2. QED BY <2>3, <4>1
    <3>2. CASE Head(queue[s]).call # c
      BY <1>1, <2>3, <3>2
    <3>3. QED BY <3>1, <3>2
  <2>5. i - 1 \in 1 .. Len(queue'[s]) /\ (i - 1) + 1 = i
    BY <1>1, <1>2, <2>3, <2>4
  <2>6. queue'[s][i - 1] = [call |-> c, nr |-> k]
    BY <1>2, <2>3, <2>5
  <2>7. QED BY <2>5, <2>6
<1>6. QED BY <1>4, <1>5 DEF UpToDate

LEMMA PastStep ==
  ASSUME BaseInv, ReadInv, [Next]_vars, NEW c \in Calls,
         Owner[c] \notin blind',
         PastInv(c), Unborn(c), MemoryInv(c)
  PROVE  PastInv(c)'
<1> USE DEF storeVars, callVars
<1>1. /\ c \in Ids /\ told[c] \in Seq(Kinds) /\ Len(told[c]) \in Nat
      /\ 0 \in 0 .. Len(told[c]) /\ RecordUpTo(told[c], 0) = NoRecord
  BY NothingToSay, LenProperties DEF BaseInv, TypeOK, Ids
<1>2. CASE \E d \in Calls, kind \in Kinds : Emit(d, kind)
  <2>1. PICK d \in Calls, kind \in Kinds : Emit(d, kind)
    BY <1>2
  <2>2. Held(c)' = Held(c)
    BY <2>1 DEF Emit, Held
  <2>3. \A n \in 0 .. Len(told[c]) :
          n \in 0 .. Len(told'[c]) /\ RecordUpTo(told'[c], n) = RecordUpTo(told[c], n)
    <3>1. CASE d = c
      <4>1. told'[c] = Append(told[c], kind)
        BY <2>1, <3>1, EmitFacts
      <4>2. QED BY <1>1, <4>1, GrowingHistory DEF RecordUpTo
    <3>2. CASE d # c
      <4>1. told'[c] = told[c]
        BY <2>1, <3>2, EmitFacts
      <4>2. QED BY <4>1
    <3>3. QED BY <3>1, <3>2
  <2>4. QED BY <2>2, <2>3 DEF PastInv
<1>3. CASE ~\E d \in Calls, kind \in Kinds : Emit(d, kind)
  <2>1. told' = told
    BY <1>3 DEF Next, Work, Ingest, StartLoad, ReadFile, FinishLoad, FinishList,
                WriteTemp, Rename, List, WriteFails, ReadFails, Crash, vars
  <2>2. \A r \in Held(c) \cup {NoRecord} :
          \E n \in 0 .. Len(told[c]) : r = RecordUpTo(told[c], n)
    BY <1>1 DEF PastInv
  <2>3. CASE Held(c)' \subseteq Held(c) \cup {NoRecord}
    BY <2>1, <2>2, <2>3 DEF PastInv
  <2>4. ASSUME NEW s \in Sessions, queue[s] # <<>>, Head(queue[s]).call = c,
               Held(c)' \subseteq Held(c) \cup {NoRecord, records'[s][c]},
               Ingest(s) \/ FinishLoad(s)
        PROVE  PastInv(c)'
    <3>1. s = Owner[c] /\ store[s] # "crashed"
      BY <2>4, EventType DEF Ingest, FinishLoad
    <3>2. PICK n \in 0 .. Len(told[c]) : UpToDate(c, n)
      BY <3>1 DEF MemoryInv
    <3>3. PICK known \in Indexes :
            Apply(s, known) /\ told' = told /\ known[c] = records[s][c]
      BY <2>4, <3>1, KnownIsMemory
    <3>4. n + 1 \in 0 .. Len(told[c]) /\ records'[s][c] = RecordUpTo(told[c], n + 1)
      BY <2>4, <3>1, <3>2, <3>3, NextEvent
    <3>5. QED BY <2>1, <2>2, <2>4, <3>4 DEF PastInv
  <2>5. QED BY <1>1, <2>3, <2>4, HeldMoves
<1>4. QED BY <1>2, <1>3

LEMMA UnbornStep ==
  ASSUME BaseInv, ReadInv, [Next]_vars, NEW c \in Calls,
         Owner[c] \notin blind', Unborn(c)
  PROVE  Unborn(c)'
<1> DEFINE s == Owner[c]
<1>1. s \in Sessions /\ c \in Ids
  BY IndexAssumption DEF Ids
<1>2. SUFFICES ASSUME store'[s] # "crashed", ~loaded'[s] \/ reading'[s] # "none"
               PROVE  Held(c)' \subseteq {NoRecord}
  BY DEF Unborn
<1>3. store[s] # "crashed" /\ (~loaded[s] \/ reading[s] # "none")
  BY <1>1, <1>2, StaysLoaded
<1>4. Held(c) \subseteq {NoRecord}
  BY <1>3 DEF Unborn
<1> HIDE DEF s
<1>5. CASE Held(c)' \subseteq Held(c) \cup {NoRecord}
  BY <1>4, <1>5
<1>6. ASSUME NEW t \in Sessions, queue[t] # <<>>, Head(queue[t]).call = c,
             Ingest(t) \/ FinishLoad(t)
      PROVE  FALSE
  <2>1. t = s
    BY <1>6, EventType DEF s
  <2>2. loaded'[s] /\ reading'[s] = "none"
    BY <1>6, <2>1, KnownIsMemory DEF s
  <2>3. QED BY <1>2, <2>2
<1>7. QED BY <1>1, <1>5, <1>6, HeldMoves

LEMMA MemoryStep ==
  ASSUME BaseInv, ReadInv, [Next]_vars, NEW c \in Calls,
         Owner[c] \notin blind',
         Unborn(c), MemoryInv(c)
  PROVE  MemoryInv(c)'
<1> USE DEF storeVars, callVars
<1> DEFINE s == Owner[c]
<1>1. /\ s \in Sessions /\ s \notin blind' /\ c \in Ids
      /\ records \in [Sessions -> Indexes] /\ queue \in [Sessions -> Seq(Places)]
  BY IndexAssumption DEF BaseInv, TypeOK, Ids
<1>2. SUFFICES ASSUME store'[s] # "crashed"
               PROVE  \E n \in 0 .. Len(told'[c]) : UpToDate(c, n)'
  BY DEF MemoryInv
<1>3. store[s] # "crashed" /\ ~Crash(s)
  BY <1>1, <1>2, StaysLoaded
<1>4. PICK n \in 0 .. Len(told[c]) : UpToDate(c, n)
  BY <1>3 DEF MemoryInv
<1> DEFINE Goal == \E m \in 0 .. Len(told'[c]) : UpToDate(c, m)'
<1>5. ASSUME records'[s][c] = records[s][c], queue'[s] = queue[s], told' = told
      PROVE  Goal
  BY <1>4, <1>5 DEF UpToDate
<1>6. ASSUME Ingest(s) \/ FinishLoad(s) PROVE Goal
  <2>1. PICK known \in Indexes :
          /\ queue[s] # <<>> /\ Apply(s, known) /\ told' = told
          /\ known[c] = records[s][c]
    BY <1>6, KnownIsMemory
  <2>2. queue' = [queue EXCEPT ![s] = Tail(queue[s])]
    BY <1>1, <2>1, ApplyFacts
  <2>3. CASE Head(queue[s]).call = c
    <3>1. /\ n + 1 \in 0 .. Len(told[c]) /\ Head(queue[s]).nr = n + 1
          /\ records'[s][c] = RecordUpTo(told[c], n + 1)
      BY <1>4, <2>1, <2>3, NextEvent
    <3>2. UpToDate(c, n + 1)'
      BY <1>4, <2>1, <2>2, <2>3, <3>1, UpToDateShrinks
    <3>3. QED BY <2>1, <3>1, <3>2
  <2>4. CASE Head(queue[s]).call # c
    <3>1. records'[s][c] = RecordUpTo(told[c], n)
      BY <1>1, <1>4, <2>1, <2>4, ApplyFacts DEF UpToDate
    <3>2. UpToDate(c, n)'
      BY <1>4, <2>1, <2>2, <2>4, <3>1, UpToDateShrinks
    <3>3. QED BY <1>4, <2>1, <3>2
  <2>5. QED BY <2>3, <2>4
<1>7. ASSUME NEW t \in Sessions, t # s, NEW known \in Indexes, queue[t] # <<>>,
             Apply(t, known), told' = told
      PROVE  Goal
  BY <1>1, <1>5, <1>7, ApplyFacts
<1> HIDE DEF s, Goal
<1>8. ASSUME NEW t \in Sessions, Ingest(t) PROVE Goal
  <2>1. CASE t = s
    BY <1>6, <1>8, <2>1
  <2>2. CASE t # s
    <3>1. records[t] \in Indexes
      BY <1>1
    <3>2. QED BY <1>7, <1>8, <2>2, <3>1 DEF Ingest
  <2>3. QED BY <2>1, <2>2
<1>9. ASSUME NEW t \in Sessions, FinishLoad(t) PROVE Goal
  <2>1. CASE t = s
    BY <1>6, <1>9, <2>1
  <2>2. CASE t # s
    <3>1. Merged(t) \in Indexes /\ queue[t] # <<>>
      BY <1>9, MergedType DEF BaseInv, LoadInv, FinishLoad
    <3>2. QED BY <1>7, <1>9, <2>2, <3>1 DEF FinishLoad
  <2>3. QED BY <2>1, <2>2
<1>10. ASSUME NEW d \in Calls, NEW kind \in Kinds, Emit(d, kind) PROVE Goal
  BY <1>4, <1>10, UpToDateGrows DEF Goal
<1>11. ASSUME NEW t \in Sessions, FinishList(t) PROVE Goal
  <2>1. CASE t # s
    BY <1>1, <1>5, <1>11, <2>1 DEF FinishList
  <2>2. CASE t = s
    <3>1. content[s][c] = NoRecord
      BY <1>1, <1>3, <1>11, <2>2 DEF FinishList, Unborn, Held, s
    <3>2. records'[s][c] = records[s][c]
      BY <1>1, <1>11, <2>2, <3>1 DEF FinishList, Merged
    <3>3. QED BY <1>5, <1>11, <3>2 DEF FinishList
  <2>3. QED BY <2>1, <2>2
<1>12. ASSUME NEW t \in Sessions, Crash(t) PROVE Goal
  <2>1. t # s
    BY <1>3, <1>12 DEF s
  <2>2. QED BY <1>1, <1>5, <1>12, <2>1 DEF Crash
<1>13. ASSUME NEW t \in Sessions,
              \/ StartLoad(t) \/ List(t) \/ ReadFile(t) \/ WriteTemp(t)
              \/ Rename(t) \/ WriteFails(t) \/ ReadFails(t)
       PROVE  Goal
  BY <1>5, <1>13
     DEF StartLoad, List, ReadFile, WriteTemp, Rename, WriteFails, ReadFails
<1>14. ASSUME UNCHANGED vars PROVE Goal
  BY <1>5, <1>14 DEF vars
<1>15. Goal
  BY <1>8, <1>9, <1>10, <1>11, <1>12, <1>13, <1>14 DEF Next, Work
<1>16. QED BY <1>15 DEF Goal

IndexInv == BaseInv /\ ReadInv /\ CallInv

LEMMA IndexInit == Init => IndexInv
<1> SUFFICES ASSUME Init PROVE IndexInv
  OBVIOUS
<1>1. BaseInv
  BY BaseInit
<1>2. ReadInv
  BY DEF Init, ReadInv, Busy
<1>3. ASSUME NEW c \in Calls PROVE PastInv(c) /\ Unborn(c) /\ MemoryInv(c)
  <2>1. /\ told[c] \in Seq(Kinds) /\ Owner[c] \in Sessions /\ c \in Ids
        /\ c \notin OldRuns /\ told[c] = <<>>
    BY <1>1, IndexAssumption DEF BaseInv, TypeOK, Ids, Init
  <2>2. Len(told[c]) = 0 /\ RecordUpTo(told[c], 0) = NoRecord
    BY <2>1, NothingToSay, EmptySeq
  <2>3. file[c] = NoRecord /\ NoRecords[c] = NoRecord
    BY <2>1 DEF Init, NoRecords
  <2>4. Held(c) = {NoRecord}
    BY <2>1, <2>3 DEF Init, Held
  <2>5. PastInv(c)
    BY <2>2, <2>4 DEF PastInv
  <2>6. Unborn(c)
    BY <2>4 DEF Unborn
  <2>7. queue[Owner[c]] = <<>> /\ Len(queue[Owner[c]]) = 0
        /\ records[Owner[c]][c] = NoRecord
    BY <2>1, <2>3, EmptySeq DEF Init
  <2>8. UpToDate(c, 0)
    BY <2>2, <2>7 DEF UpToDate
  <2>9. QED BY <2>2, <2>5, <2>6, <2>8 DEF MemoryInv
<1>4. QED BY <1>1, <1>2, <1>3 DEF IndexInv, CallInv

LEMMA IndexStep ==
  ASSUME IndexInv, [Next]_vars
  PROVE  IndexInv'
<1>1. BaseInv' /\ ReadInv'
  BY BaseStep, ReadStep DEF IndexInv
<1>2. ASSUME NEW c \in Calls, Owner[c] \notin blind'
      PROVE  PastInv(c)' /\ Unborn(c)' /\ MemoryInv(c)'
  <2>1. Owner[c] \notin blind
    BY <1>2, BlindGrows
  <2>2. PastInv(c) /\ Unborn(c) /\ MemoryInv(c)
    BY <2>1 DEF IndexInv, CallInv
  <2>3. QED BY <1>2, <2>2, PastStep, UnbornStep, MemoryStep DEF IndexInv
<1>3. QED BY <1>1, <1>2 DEF IndexInv, CallInv

\* Whatever reads, writes and processes fail, and whatever other sessions do
\* to the file, a call's record in the index is the record of some beginning
\* of its history: no result before it is there, no record before run.started.
\* The call's own session must not have taken events in while a list was
\* reading the file.
THEOREM IndexSaysThePast == Spec => []IndexIsPast
<1>1. IndexInv => IndexIsPast
  BY DEF IndexInv, CallInv, PastInv, Held, IndexIsPast, RecordUpTo
<1>2. IndexInv /\ [Next]_vars => IndexInv'
  BY IndexStep
<1>3. QED BY <1>1, <1>2, IndexInit, PTL DEF Spec
-----------------------------------------------------------------------------
(* What earlier processes left.                                            *)

OldInv(i) ==
  /\ file[i] = OldRecord
  /\ \A s \in Sessions :
       /\ reading[s] = "got" => content[s][i] = OldRecord
       /\ store[s] \in {"mkdir", "rename"} => records[s][i] = OldRecord
       /\ store[s] = "rename" => temp[s][i] = OldRecord
       /\ store[s] = "idle" /\ loaded[s] /\ reading[s] = "none"
            => records[s][i] = OldRecord

LEMMA OldStep ==
  ASSUME BaseInv, ReadInv, [Next]_vars, NEW i \in OldRuns, OldInv(i), blind' = {}
  PROVE  OldInv(i)'
<1> USE DEF storeVars, callVars
<1>1. /\ i \in Ids /\ OldRecord # NoRecord
      /\ \A c \in Calls : c # i
  BY IndexAssumption DEF Ids, OldRecord, NoRecord
<1>2. /\ reading \in [Sessions -> {"none", "open", "got"}]
      /\ loaded \in [Sessions -> BOOLEAN]
      /\ store \in [Sessions -> {"idle", "loading", "mkdir", "rename",
                                   "poisoned", "crashed"}]
      /\ records \in [Sessions -> Indexes] /\ content \in [Sessions -> Indexes]
      /\ temp \in [Sessions -> Indexes]
  BY DEF BaseInv, TypeOK
<1> DEFINE Good(s) ==
             /\ reading'[s] = "got" => content'[s][i] = OldRecord
             /\ store'[s] \in {"mkdir", "rename"} => records'[s][i] = OldRecord
             /\ store'[s] = "rename" => temp'[s][i] = OldRecord
             /\ store'[s] = "idle" /\ loaded'[s] /\ reading'[s] = "none"
                  => records'[s][i] = OldRecord
           Others(s) == \A t \in Sessions :
             t # s => /\ reading'[t] = reading[t] /\ content'[t] = content[t]
                      /\ store'[t] = store[t] /\ records'[t] = records[t]
                      /\ temp'[t] = temp[t] /\ loaded'[t] = loaded[t]
<1>3. /\ file[i] = OldRecord
      /\ \A s \in Sessions :
           /\ reading[s] = "got" => content[s][i] = OldRecord
           /\ store[s] \in {"mkdir", "rename"} => records[s][i] = OldRecord
           /\ store[s] = "rename" => temp[s][i] = OldRecord
           /\ store[s] = "idle" /\ loaded[s] /\ reading[s] = "none"
                => records[s][i] = OldRecord
  BY DEF OldInv
<1>4. ASSUME NEW s \in Sessions, Others(s), Good(s), file'[i] = OldRecord
      PROVE  OldInv(i)'
  BY <1>3, <1>4 DEF OldInv
<1>5. ASSUME UNCHANGED <<storeVars, file>> PROVE OldInv(i)'
  BY <1>5 DEF OldInv
<1>6. ASSUME NEW s \in Sessions, NEW known \in Indexes, queue[s] # <<>>,
             Apply(s, known), told' = told, known[i] = OldRecord,
             UNCHANGED <<loaded, temp, file>>,
             \/ UNCHANGED <<reading, content>>
             \/ /\ reading' = [reading EXCEPT ![s] = "none"]
                /\ content' = [content EXCEPT ![s] = NoRecords]
      PROVE  OldInv(i)'
  <2>1. Head(queue[s]).call # i
    BY <1>1, <1>6, EventType
  <2>2. /\ store'[s] \in {"idle", "mkdir"} /\ records'[s][i] = OldRecord
        /\ \A t \in Sessions : t # s => store'[t] = store[t] /\ records'[t] = records[t]
    BY <1>1, <1>6, <2>1, ApplyFacts
  <2>3. Others(s)
    BY <1>2, <1>6, <2>2
  <2>4. Good(s)
    BY <1>2, <1>3, <1>6, <2>2
  <2>5. QED BY <1>3, <1>4, <1>6, <2>3, <2>4
<1>7. ASSUME NEW s \in Sessions, reading[s] = "got"
      PROVE  Merged(s)[i] = OldRecord
  BY <1>1, <1>3, <1>7 DEF Merged
<1>8. ASSUME NEW s \in Sessions, Ingest(s) PROVE OldInv(i)'
  <2>1. reading[s] = "none"
    BY <1>8 DEF Ingest
  <2>2. records[s] \in Indexes /\ records[s][i] = OldRecord
    BY <1>2, <1>3, <1>8, <2>1 DEF Ingest
  <2>3. QED BY <1>6, <1>8, <2>2 DEF Ingest
<1>9. ASSUME NEW s \in Sessions, FinishLoad(s) PROVE OldInv(i)'
  <2>1. /\ Merged(s) \in Indexes /\ queue[s] # <<>> /\ Merged(s)[i] = OldRecord
    BY <1>7, <1>9, MergedType DEF BaseInv, LoadInv, FinishLoad
  <2>2. QED BY <1>6, <1>9, <2>1 DEF FinishLoad
<1>10. ASSUME NEW s \in Sessions, StartLoad(s) PROVE OldInv(i)'
  <2>1. Others(s) /\ file' = file /\ Good(s)
    BY <1>2, <1>10 DEF StartLoad
  <2>2. QED BY <1>3, <1>4, <2>1
<1>11. ASSUME NEW s \in Sessions, List(s) PROVE OldInv(i)'
  <2>1. Others(s) /\ file' = file /\ Good(s)
    BY <1>2, <1>3, <1>11 DEF List
  <2>2. QED BY <1>3, <1>4, <2>1
<1>12. ASSUME NEW s \in Sessions, ReadFile(s) PROVE OldInv(i)'
  <2>1. Others(s) /\ file' = file /\ Good(s)
    BY <1>2, <1>3, <1>12 DEF ReadFile
  <2>2. QED BY <1>3, <1>4, <2>1
<1>13. ASSUME NEW s \in Sessions, FinishList(s) PROVE OldInv(i)'
  <2>1. Merged(s)[i] = OldRecord
    BY <1>7, <1>13 DEF FinishList
  <2>2. Others(s) /\ file' = file /\ Good(s)
    BY <1>2, <1>3, <1>13, <2>1 DEF FinishList
  <2>3. QED BY <1>3, <1>4, <2>2
<1>14. ASSUME NEW s \in Sessions, WriteTemp(s) PROVE OldInv(i)'
  <2>1. Others(s) /\ file' = file /\ Good(s)
    BY <1>2, <1>3, <1>14 DEF WriteTemp
  <2>2. QED BY <1>3, <1>4, <2>1
<1>15. ASSUME NEW s \in Sessions, Rename(s) PROVE OldInv(i)'
  <2>1. Others(s) /\ file' = temp[s] /\ Good(s)
    BY <1>2, <1>3, <1>15 DEF Rename
  <2>2. file'[i] = OldRecord
    BY <1>3, <1>15, <2>1 DEF Rename
  <2>3. QED BY <1>4, <2>1, <2>2
<1>16. ASSUME NEW s \in Sessions, WriteFails(s) PROVE OldInv(i)'
  <2>1. Others(s) /\ file' = file /\ Good(s)
    BY <1>2, <1>3, <1>16 DEF WriteFails
  <2>2. QED BY <1>3, <1>4, <2>1
<1>17. ASSUME NEW s \in Sessions, ReadFails(s) PROVE OldInv(i)'
  <2>1. store[s] = "loading"
    BY <1>17 DEF ReadFails
  <2>2. Others(s) /\ file' = file /\ Good(s)
    BY <1>2, <1>3, <1>17, <2>1 DEF ReadFails
  <2>3. QED BY <1>3, <1>4, <2>2
<1>18. ASSUME NEW s \in Sessions, Crash(s) PROVE OldInv(i)'
  <2>1. Others(s) /\ file' = file /\ Good(s)
    BY <1>2, <1>18 DEF Crash
  <2>2. QED BY <1>3, <1>4, <2>1
<1>19. ASSUME NEW d \in Calls, NEW kind \in Kinds, Emit(d, kind) PROVE OldInv(i)'
  BY <1>5, <1>19 DEF Emit
<1>20. CASE UNCHANGED vars
  BY <1>5, <1>20 DEF vars
<1>21. QED
  BY <1>8, <1>9, <1>10, <1>11, <1>12, <1>13, <1>14, <1>15, <1>16, <1>17, <1>18,
     <1>19, <1>20 DEF Next, Work

\* No session drops a record that was in the file when it came, however many
\* share the file and whatever fails, as long as none takes an event in while
\* a list is reading the file.
THEOREM EarlierRunsSurvive == Spec => []HistoryKept
<1> DEFINE Inv == BaseInv /\ ReadInv /\ (blind = {} => \A i \in OldRuns : OldInv(i))
<1>1. Init => Inv
  <2>1. Init => BaseInv /\ ReadInv
    BY IndexInit DEF IndexInv
  <2>2. ASSUME Init, NEW i \in OldRuns PROVE OldInv(i)
    <3>1. i \in Ids
      BY DEF Ids
    <3>2. file[i] = OldRecord
      BY <2>2, <3>1 DEF Init
    <3>3. \A s \in Sessions :
            store[s] = "idle" /\ reading[s] = "none" /\ ~loaded[s]
      BY <2>2 DEF Init
    <3>4. QED BY <3>2, <3>3 DEF OldInv
  <2>3. QED BY <2>1, <2>2
<1>2. Inv /\ [Next]_vars => Inv'
  <2>1. ASSUME Inv, [Next]_vars PROVE BaseInv' /\ ReadInv'
    BY <2>1, BaseStep, ReadStep
  <2>2. ASSUME Inv, [Next]_vars, blind' = {}, NEW i \in OldRuns PROVE OldInv(i)'
    <3>1. OldInv(i)
      BY <2>2, BlindGrows
    <3>2. QED BY <2>2, <3>1, OldStep
  <2>3. QED BY <2>1, <2>2
<1>3. Inv => HistoryKept
  BY DEF OldInv, HistoryKept
<1>4. QED BY <1>1, <1>2, <1>3, PTL DEF Spec
-----------------------------------------------------------------------------
(* What a session says of its own calls.                                   *)

\* What is about to replace the file is what is in memory; no copy of a record
\* is ahead of it; and if no other session writes, the file is it.
SavedInv(c) ==
  LET s == Owner[c] IN
  /\ store[s] = "rename" => temp[s][c] = records[s][c]
  /\ store[s] # "crashed" => \A r \in Held(c) : r.done => records[s][c].done
  /\ Alone(c) /\ store[s] \in {"idle", "loading"} => file[c] = records[s][c]

\* A list leaves the records of the session's own calls as they are.
LEMMA ListKeepsOwn ==
  ASSUME BaseInv, ReadInv, NEW c \in Calls, NEW s, s = Owner[c],
         Unborn(c), FinishList(s), store[s] # "crashed"
  PROVE  records'[s][c] = records[s][c]
<1>1. s \in Sessions /\ c \in Ids /\ records \in [Sessions -> Indexes]
  BY IndexAssumption DEF BaseInv, TypeOK, Ids
<1>2. content[s][c] = NoRecord
  BY <1>1 DEF FinishList, Unborn, Held
<1>3. QED BY <1>1, <1>2 DEF FinishList, Merged

\* In memory a finished call stays finished.
LEMMA OwnRecordKept ==
  ASSUME BaseInv, ReadInv, [Next]_vars, NEW c \in Calls, Owner[c] \notin blind',
         Unborn(c), store'[Owner[c]] # "crashed", records[Owner[c]][c].done
  PROVE  records'[Owner[c]][c].done
<1> USE DEF storeVars, callVars
<1> DEFINE s == Owner[c]
           Goal == records'[s][c].done
<1>1. /\ s \in Sessions /\ s \notin blind' /\ c \in Ids
      /\ records \in [Sessions -> Indexes]
  BY IndexAssumption DEF BaseInv, TypeOK, Ids
<1>2. store[s] # "crashed" /\ ~Crash(s)
  BY <1>1, StaysLoaded
<1>3. ASSUME records'[s][c] = records[s][c] PROVE Goal
  BY <1>3
<1>4. ASSUME Ingest(s) \/ FinishLoad(s) PROVE Goal
  <2>1. PICK known \in Indexes :
          /\ queue[s] # <<>> /\ Apply(s, known) /\ told' = told
          /\ known[c] = records[s][c]
    BY <1>1, <1>4, KnownIsMemory
  <2>2. CASE Head(queue[s]).call = c
    BY <1>1, <2>1, <2>2, ApplyFacts
  <2>3. CASE Head(queue[s]).call # c
    BY <1>1, <2>1, <2>3, ApplyFacts
  <2>4. QED BY <2>2, <2>3
<1>5. ASSUME NEW t \in Sessions, t # s, NEW known \in Indexes, queue[t] # <<>>,
             Apply(t, known), told' = told
      PROVE  Goal
  BY <1>1, <1>3, <1>5, ApplyFacts
<1> HIDE DEF s, Goal
<1>6. ASSUME NEW t \in Sessions, Ingest(t) PROVE Goal
  <2>1. CASE t = s
    BY <1>4, <1>6, <2>1
  <2>2. CASE t # s
    <3>1. records[t] \in Indexes
      BY <1>1
    <3>2. QED BY <1>5, <1>6, <2>2, <3>1 DEF Ingest
  <2>3. QED BY <2>1, <2>2
<1>7. ASSUME NEW t \in Sessions, FinishLoad(t) PROVE Goal
  <2>1. CASE t = s
    BY <1>4, <1>7, <2>1
  <2>2. CASE t # s
    <3>1. Merged(t) \in Indexes /\ queue[t] # <<>>
      BY <1>7, MergedType DEF BaseInv, LoadInv, FinishLoad
    <3>2. QED BY <1>5, <1>7, <2>2, <3>1 DEF FinishLoad
  <2>3. QED BY <2>1, <2>2
<1>8. ASSUME NEW t \in Sessions, FinishList(t) PROVE Goal
  <2>1. CASE t # s
    BY <1>1, <1>3, <1>8, <2>1 DEF FinishList
  <2>2. CASE t = s
    BY <1>2, <1>3, <1>8, <2>2, ListKeepsOwn DEF s
  <2>3. QED BY <2>1, <2>2
<1>9. ASSUME NEW t \in Sessions, Crash(t) PROVE Goal
  <2>1. t # s
    BY <1>2, <1>9
  <2>2. QED BY <1>1, <1>3, <1>9, <2>1 DEF Crash
<1>10. ASSUME NEW t \in Sessions,
              \/ StartLoad(t) \/ List(t) \/ ReadFile(t) \/ WriteTemp(t)
              \/ Rename(t) \/ WriteFails(t) \/ ReadFails(t)
       PROVE  Goal
  BY <1>3, <1>10
     DEF StartLoad, List, ReadFile, WriteTemp, Rename, WriteFails, ReadFails
<1>11. ASSUME NEW d \in Calls, NEW kind \in Kinds, Emit(d, kind) PROVE Goal
  BY <1>3, <1>11 DEF Emit
<1>12. ASSUME UNCHANGED vars PROVE Goal
  BY <1>3, <1>12 DEF vars
<1>13. Goal
  BY <1>6, <1>7, <1>8, <1>9, <1>10, <1>11, <1>12 DEF Next, Work
<1>14. QED BY <1>13 DEF Goal, s

\* Who is alone has been so all the time.
LEMMA AloneBefore ==
  ASSUME BaseInv, [Next]_vars, NEW c \in Calls, Alone(c)'
  PROVE  Alone(c)
<1> USE DEF storeVars, callVars
<1>1. ASSUME NEW d \in Calls, told'[d] = <<>> PROVE told[d] = <<>>
  <2>1. CASE \E e \in Calls, kind \in Kinds : Emit(e, kind)
    <3>1. PICK e \in Calls, kind \in Kinds : Emit(e, kind)
      BY <2>1
    <3>2. /\ told[e] \in Seq(Kinds) /\ told'[e] = Append(told[e], kind)
          /\ \A f \in Calls : f # e => told'[f] = told[f]
      BY <3>1, EmitFacts
    <3>3. Append(told[e], kind) # <<>>
      BY <3>2, AppendProperties, EmptySeq
    <3>4. QED BY <1>1, <3>2, <3>3
  <2>2. CASE ~\E e \in Calls, kind \in Kinds : Emit(e, kind)
    BY <1>1, <2>2
       DEF Next, Work, Ingest, StartLoad, ReadFile, FinishLoad, FinishList,
           WriteTemp, Rename, List, WriteFails, ReadFails, Crash, vars
  <2>3. QED BY <2>1, <2>2
<1>2. QED BY <1>1 DEF Alone

LEMMA SavedStep ==
  ASSUME BaseInv, ReadInv, [Next]_vars, NEW c \in Calls, Owner[c] \notin blind',
         Unborn(c), SavedInv(c)
  PROVE  SavedInv(c)'
<1> USE DEF storeVars, callVars
<1> DEFINE s == Owner[c]
           Goal == /\ store'[s] = "rename" => temp'[s][c] = records'[s][c]
                   /\ Alone(c)' /\ store'[s] \in {"idle", "loading"}
                        => file'[c] = records'[s][c]
<1>1. s \in Sessions /\ s \notin blind' /\ c \in Ids
  BY IndexAssumption DEF Ids
<1>2. /\ store[s] = "rename" => temp[s][c] = records[s][c]
      /\ store[s] # "crashed" => \A r \in Held(c) : r.done => records[s][c].done
      /\ Alone(c)' /\ store[s] \in {"idle", "loading"} => file[c] = records[s][c]
  BY AloneBefore DEF SavedInv
<1>3. /\ store \in [Sessions -> {"idle", "loading", "mkdir", "rename",
                                   "poisoned", "crashed"}]
      /\ records \in [Sessions -> Indexes] /\ temp \in [Sessions -> Indexes]
  BY DEF BaseInv, TypeOK
<1>4. store'[s] # "crashed" => \A r \in Held(c)' : r.done => records'[s][c].done
  <2>1. SUFFICES ASSUME store'[s] # "crashed", NEW r \in Held(c)', r.done
                 PROVE  records'[s][c].done
    OBVIOUS
  <2>2. store[s] # "crashed"
    BY <1>1, <2>1, StaysLoaded
  <2>3. ~NoRecord.done
    BY DEF NoRecord
  <2>4. CASE r \in Held(c) \cup {NoRecord}
    BY <1>1, <1>2, <2>1, <2>2, <2>3, <2>4, OwnRecordKept
  <2>5. ASSUME NEW t \in Sessions, queue[t] # <<>>, Head(queue[t]).call = c,
               r = records'[t][c]
        PROVE  records'[s][c].done
    <3>1. t = s
      BY <2>5, EventType DEF s
    <3>2. QED BY <2>1, <2>5, <3>1
  <2>6. QED BY <1>1, <2>1, <2>4, <2>5, HeldMoves
<1>5. ASSUME \/ store'[s] = store[s]
             \/ store[s] = "idle" /\ store'[s] = "loading"
             \/ store'[s] \in {"poisoned", "crashed"},
             store'[s] \notin {"poisoned", "crashed"} => records'[s][c] = records[s][c],
             store'[s] \notin {"poisoned", "crashed"} => temp'[s] = temp[s],
             file' = file
      PROVE  Goal
  BY <1>2, <1>5
<1>6. ASSUME Ingest(s) \/ FinishLoad(s) PROVE Goal
  <2>1. PICK known \in Indexes :
          /\ queue[s] # <<>> /\ Apply(s, known) /\ told' = told
          /\ UNCHANGED <<temp, file>> /\ known[c] = records[s][c]
    BY <1>1, <1>6, KnownIsMemory
  <2>2. store[s] \in {"idle", "loading"}
    BY <1>6 DEF Ingest, FinishLoad
  <2>3. /\ store'[s] \in {"idle", "mkdir"}
        /\ store'[s] = "idle" => records'[s][c] = known[c]
    BY <1>1, <2>1, ApplyFacts
  <2>4. QED BY <1>2, <2>1, <2>2, <2>3
<1>7. ASSUME NEW t \in Sessions, t # s, NEW known \in Indexes, queue[t] # <<>>,
             Apply(t, known), told' = told, UNCHANGED <<temp, file>>
      PROVE  Goal
  <2>1. store'[s] = store[s] /\ records'[s] = records[s]
    BY <1>1, <1>7, ApplyFacts
  <2>2. QED BY <1>5, <1>7, <2>1
<1> HIDE DEF s, Goal
<1>8. ASSUME NEW t \in Sessions, Ingest(t) PROVE Goal
  <2>1. CASE t = s
    BY <1>6, <1>8, <2>1
  <2>2. CASE t # s
    <3>1. records[t] \in Indexes
      BY <1>3
    <3>2. QED BY <1>7, <1>8, <2>2, <3>1 DEF Ingest
  <2>3. QED BY <2>1, <2>2
<1>9. ASSUME NEW t \in Sessions, FinishLoad(t) PROVE Goal
  <2>1. CASE t = s
    BY <1>6, <1>9, <2>1
  <2>2. CASE t # s
    <3>1. Merged(t) \in Indexes /\ queue[t] # <<>>
      BY <1>9, MergedType DEF BaseInv, LoadInv, FinishLoad
    <3>2. QED BY <1>7, <1>9, <2>2, <3>1 DEF FinishLoad
  <2>3. QED BY <2>1, <2>2
<1>10. ASSUME NEW t \in Sessions, WriteTemp(t) PROVE Goal
  <2>1. CASE t = s
    <3>1. /\ store'[s] = "rename" /\ temp'[s] = records[s] /\ records' = records
      BY <1>1, <1>3, <1>10, <2>1 DEF WriteTemp
    <3>2. QED BY <3>1 DEF Goal
  <2>2. CASE t # s
    BY <1>1, <1>3, <1>5, <1>10, <2>2 DEF WriteTemp
  <2>3. QED BY <2>1, <2>2
<1>11. ASSUME NEW t \in Sessions, Rename(t) PROVE Goal
  <2>1. CASE t = s
    <3>1. /\ store[s] = "rename" /\ store'[s] = "idle" /\ file' = temp[s]
          /\ records' = records
      BY <1>1, <1>3, <1>11, <2>1 DEF Rename
    <3>2. QED BY <1>2, <3>1 DEF Goal
  <2>2. CASE t # s
    <3>1. PICK d \in Calls : Owner[d] = t /\ told[d] # <<>>
      BY <1>11 DEF Rename, ReadInv, Busy
    <3>2. ~Alone(c)'
      BY <1>11, <2>2, <3>1 DEF Rename, Alone, s
    <3>3. store'[s] = store[s] /\ temp'[s] = temp[s] /\ records' = records
      BY <1>1, <1>3, <1>11, <2>2 DEF Rename
    <3>4. QED BY <1>2, <3>2, <3>3 DEF Goal
  <2>3. QED BY <2>1, <2>2
<1>12. ASSUME NEW t \in Sessions, FinishList(t) PROVE Goal
  <2>1. store' = store /\ temp' = temp /\ file' = file
    BY <1>12 DEF FinishList
  <2>2. CASE t # s
    BY <1>1, <1>3, <1>5, <1>12, <2>1, <2>2 DEF FinishList
  <2>3. CASE t = s /\ store[s] # "crashed"
    <3>1. records'[s][c] = records[s][c]
      BY <1>12, <2>3, ListKeepsOwn DEF s
    <3>2. QED BY <1>5, <2>1, <3>1
  <2>4. CASE store[s] = "crashed"
    BY <2>1, <2>4 DEF Goal
  <2>5. QED BY <2>2, <2>3, <2>4
<1>13. ASSUME NEW t \in Sessions, StartLoad(t) PROVE Goal
  BY <1>1, <1>3, <1>5, <1>13 DEF StartLoad
<1>14. ASSUME NEW t \in Sessions, List(t) \/ ReadFile(t) PROVE Goal
  BY <1>5, <1>14 DEF List, ReadFile
<1>15. ASSUME NEW t \in Sessions, WriteFails(t) PROVE Goal
  BY <1>1, <1>3, <1>5, <1>15 DEF WriteFails
<1>16. ASSUME NEW t \in Sessions, ReadFails(t) PROVE Goal
  BY <1>1, <1>3, <1>5, <1>16 DEF ReadFails
<1>17. ASSUME NEW t \in Sessions, Crash(t) PROVE Goal
  BY <1>1, <1>3, <1>5, <1>17 DEF Crash
<1>18. ASSUME NEW d \in Calls, NEW kind \in Kinds, Emit(d, kind) PROVE Goal
  BY <1>5, <1>18 DEF Emit
<1>19. ASSUME UNCHANGED vars PROVE Goal
  BY <1>5, <1>19 DEF vars
<1>20. Goal
  BY <1>8, <1>9, <1>10, <1>11, <1>12, <1>13, <1>14, <1>15, <1>16, <1>17, <1>18,
     <1>19 DEF Next, Work
<1>21. QED BY <1>4, <1>20 DEF Goal, SavedInv, s

SessionInv == IndexInv /\ \A c \in Calls : Owner[c] \notin blind => SavedInv(c)

LEMMA SessionInit == Init => SessionInv
<1> SUFFICES ASSUME Init PROVE SessionInv
  OBVIOUS
<1>1. ASSUME NEW c \in Calls PROVE SavedInv(c)
  <2>1. /\ Owner[c] \in Sessions /\ c \in Ids /\ c \notin OldRuns
    BY IndexAssumption DEF Ids
  <2>2. NoRecords[c] = NoRecord /\ ~NoRecord.done
    BY <2>1 DEF NoRecords, NoRecord
  <2>3. store[Owner[c]] = "idle" /\ file[c] = NoRecord
        /\ records[Owner[c]][c] = NoRecord
    BY <2>1, <2>2 DEF Init
  <2>4. Held(c) \subseteq {NoRecord}
    BY <2>1, <2>2, <2>3 DEF Init, Held
  <2>5. QED BY <2>2, <2>3, <2>4 DEF SavedInv
<1>2. QED BY <1>1, IndexInit DEF SessionInv

LEMMA SessionStep ==
  ASSUME SessionInv, [Next]_vars
  PROVE  SessionInv'
<1>1. IndexInv'
  BY IndexStep DEF SessionInv
<1>2. ASSUME NEW c \in Calls, Owner[c] \notin blind' PROVE SavedInv(c)'
  <2>1. Owner[c] \notin blind
    BY <1>2, BlindGrows
  <2>2. SavedInv(c) /\ Unborn(c)
    BY <2>1 DEF SessionInv, IndexInv, CallInv
  <2>3. QED BY <1>2, <2>2, SavedStep DEF SessionInv, IndexInv
<1>3. QED BY <1>1, <1>2 DEF SessionInv

\* When a session has ingested all its events, its list says of each of its
\* calls exactly what the events of the call say, whoever shares the file; the
\* file says it too if no other session has made calls.  The session must not
\* have taken events in while a list was reading the file.
THEOREM IndexSaysThePresent == Spec => []IndexMatchesEvents
<1>1. SessionInv => IndexMatchesEvents
  <2>1. SUFFICES ASSUME SessionInv, NEW c \in Calls, Settled(Owner[c]),
                        Owner[c] \notin blind
                 PROVE  /\ records[Owner[c]][c] = RecordOf(told[c])
                        /\ Alone(c) => file[c] = RecordOf(told[c])
    BY DEF IndexMatchesEvents
  <2> DEFINE s == Owner[c]
  <2>2. /\ told[c] \in Seq(Kinds) /\ Len(told[c]) \in Nat
        /\ store[s] = "idle" /\ queue[s] = <<>> /\ Len(queue[s]) = 0
    BY <2>1, LenProperties, EmptySeq
       DEF SessionInv, IndexInv, BaseInv, TypeOK, Settled
  <2>3. PICK n \in 0 .. Len(told[c]) : UpToDate(c, n)
    BY <2>1, <2>2 DEF SessionInv, IndexInv, CallInv, MemoryInv
  <2>4. n = Len(told[c])
    <3>1. \A k \in n + 1 .. Len(told[c]) :
            \E i \in 1 .. Len(queue[s]) : queue[s][i] = [call |-> c, nr |-> k]
      BY <2>3 DEF UpToDate
    <3>2. ~\E k \in n + 1 .. Len(told[c]) : TRUE
      BY <2>2, <3>1
    <3>3. QED BY <2>2, <3>2
  <2>5. SubSeq(told[c], 1, Len(told[c])) = told[c]
    BY <2>2, SubSeqFull
  <2>6. records[s][c] = RecordOf(told[c])
    BY <2>3, <2>4, <2>5 DEF UpToDate, RecordUpTo
  <2>7. Alone(c) => file[c] = records[s][c]
    BY <2>1, <2>2 DEF SessionInv, SavedInv
  <2>8. QED BY <2>6, <2>7
<1>2. SessionInv /\ [Next]_vars => SessionInv'
  BY SessionStep
<1>3. QED BY <1>1, <1>2, SessionInit, PTL DEF Spec

\* The file is replaced by a rename and by nothing else.
LEMMA OnlyRenameWrites ==
  ASSUME [Next]_vars, file' # file
  PROVE  \E s \in Sessions : Rename(s)
BY DEF Next, Work, Emit, Ingest, StartLoad, List, ReadFile, FinishLoad, FinishList,
       WriteTemp, Rename, WriteFails, ReadFails, Crash, vars

\* What takes a finished call back in the index is a session writing its older
\* copy of another session's call, or a blind session its own.
THEOREM FinishedTakenBackByOthers == Spec => FinishedStaysIndexed
<1> DEFINE Step == \A c \in Calls : file[c].done /\ ~file'[c].done =>
             \E s \in Sessions : Rename(s) /\ (s # Owner[c] \/ s \in blind)
<1>1. SessionInv /\ [Next]_vars => SessionInv'
  BY SessionStep
<1>2. SessionInv /\ [Next]_vars => Step
  <2>1. SUFFICES ASSUME SessionInv, [Next]_vars, NEW c \in Calls,
                        file[c].done, ~file'[c].done
                 PROVE  \E s \in Sessions : Rename(s) /\ (s # Owner[c] \/ s \in blind)
    OBVIOUS
  <2>2. PICK s \in Sessions : Rename(s)
    BY <2>1, OnlyRenameWrites
  <2>3. ASSUME s = Owner[c], s \notin blind PROVE FALSE
    <3>1. store[s] = "rename" /\ file' = temp[s]
      BY <2>2 DEF Rename
    <3>2. SavedInv(c) /\ file[c] \in Held(c)
      BY <2>1, <2>3 DEF SessionInv, Held
    <3>3. temp[s][c] = records[s][c] /\ records[s][c].done
      BY <2>1, <2>3, <3>1, <3>2 DEF SavedInv
    <3>4. QED BY <2>1, <3>1, <3>3
  <2>4. QED BY <2>2, <2>3
<1>3. SessionInv /\ [Next]_vars => [Step]_vars
  BY <1>2
<1>4. QED BY <1>1, <1>3, SessionInit, PTL DEF Spec, FinishedStaysIndexed
==============================================================================
