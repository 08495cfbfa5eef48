--------------------------- MODULE CoreServerProofs ---------------------------
(***************************************************************************)
(* Theorems about CoreServer for every set of calls and tasks, every        *)
(* request they may be, and every bound: what the log says of a call and    *)
(* what its client was told, the graph of a run, and what a ledger entry,   *)
(* a later failure and a restart may not change.                           *)
(***************************************************************************)
EXTENDS CoreServer, FiniteSetTheorems, WellFoundedInduction, TLAPS

-----------------------------------------------------------------------------
(* Sequences of events.                                                    *)

IsSeq(s) == \E S : s \in Seq(S)

LEMMA Concatenated ==
  ASSUME NEW a, NEW b, IsSeq(a), IsSeq(b)
  PROVE  /\ IsSeq(a \o b)
         /\ Len(a) \in Nat /\ Len(b) \in Nat
         /\ DOMAIN a = 1 .. Len(a) /\ DOMAIN b = 1 .. Len(b)
         /\ DOMAIN (a \o b) = 1 .. Len(a) + Len(b)
         /\ \A i \in DOMAIN a : (a \o b)[i] = a[i]
         /\ \A i \in DOMAIN b : (a \o b)[Len(a) + i] = b[i]
         /\ \A i \in DOMAIN (a \o b) :
              i \in DOMAIN a \/ (i - Len(a) \in DOMAIN b /\ (a \o b)[i] = b[i - Len(a)])
<1>1. PICK S : a \in Seq(S)
  BY DEF IsSeq
<1>2. PICK T : b \in Seq(T)
  BY DEF IsSeq
<1>3. a \in Seq(S \cup T) /\ b \in Seq(S \cup T)
  BY <1>1, <1>2
<1>4. a \o b \in Seq(S \cup T)
  BY <1>3
<1> QED BY <1>3, <1>4 DEF IsSeq

LEMMA SequencesOf ==
  /\ IsSeq(<<>>)
  /\ \A x : IsSeq(<<x>>)
  /\ \A x, y : IsSeq(<<x, y>>)
  /\ \A x, y, z : IsSeq(<<x, y, z>>)
<1>1. IsSeq(<<>>)
  <2>1. <<>> \in Seq({})
    OBVIOUS
  <2> QED BY <2>1 DEF IsSeq
<1>2. ASSUME NEW x PROVE IsSeq(<<x>>)
  <2>1. <<x>> \in Seq({x})
    OBVIOUS
  <2> QED BY <2>1 DEF IsSeq
<1>3. ASSUME NEW x, NEW y PROVE IsSeq(<<x, y>>)
  <2>1. <<x, y>> \in Seq({x, y})
    OBVIOUS
  <2> QED BY <2>1 DEF IsSeq
<1>4. ASSUME NEW x, NEW y, NEW z PROVE IsSeq(<<x, y, z>>)
  <2>1. <<x, y, z>> \in Seq({x, y, z})
    OBVIOUS
  <2> QED BY <2>1 DEF IsSeq
<1> QED BY <1>1, <1>2, <1>3, <1>4

Own == Calls \cup Tasks
Fields == {"type", "call", "attempt", "data", "copied"}

\* The event that cites an artifact is there.
Shows(es, c, n, kind) ==
  \E j \in DOMAIN es : /\ es[j].type = "evidence.artifact.created"
                       /\ es[j].call = c /\ es[j].attempt = n /\ es[j].data.kind = kind

\* An event of the attempt is there that is not about a graph or a narrative.
Mentions(es, c, n) ==
  \E j \in DOMAIN es : /\ es[j].type \notin {"topology.generated", "narrative.generated"}
                       /\ es[j].call = c /\ es[j].attempt = n

\* Types of events that are of a call of this core.
OwnTypes == {"policy.decision", "tool.retry.scheduled", "evidence.artifact.created",
             "output.sanitized"} \cup Circuits

\* What the graph needs of a sequence of events.
Sound(es) ==
  /\ IsSeq(es)
  /\ \A i \in DOMAIN es :
       /\ Fields \subseteq DOMAIN es[i]
       /\ es[i].call \in AllCalls \cup {NoCall}
       /\ es[i].type \in OwnTypes => es[i].call \in Own /\ es[i].copied = FALSE
       /\ es[i].type = "output.sanitized" => Shows(es, es[i].call, es[i].attempt, "raw-result")

\* The events that say how a call of this core ended, or an attempt of it.
Verdicts(es) == { i \in DOMAIN es : es[i].type \in Terminal /\ es[i].call \in Calls }

Says(e, answer) ==
  IF answer = "success" THEN e.type = "tool.call.completed"
  ELSE e.type = "tool.call.failed" /\ e.data.failure = answer

\* Sequences without a verdict, and with one, on c.
Pending(es) == Sound(es) /\ Verdicts(es) = {}
Concluding(es, c, answer) ==
  Sound(es) /\ \E k \in DOMAIN es : Verdicts(es) = {k} /\ es[k].call = c /\ Says(es[k], answer)

LEMMA ShowsGrow ==
  ASSUME NEW a, NEW b, IsSeq(a), IsSeq(b), NEW c, NEW n
  PROVE  /\ \A kind : Shows(a \o b, c, n, kind) <=> Shows(a, c, n, kind) \/ Shows(b, c, n, kind)
         /\ Mentions(a \o b, c, n) <=> Mentions(a, c, n) \/ Mentions(b, c, n)
<1>1. \A i \in DOMAIN a : i \in DOMAIN (a \o b) /\ (a \o b)[i] = a[i]
  BY Concatenated
<1>2. \A i \in DOMAIN b : Len(a) + i \in DOMAIN (a \o b) /\ (a \o b)[Len(a) + i] = b[i]
  BY Concatenated
<1>3. \A i \in DOMAIN (a \o b) :
        \/ i \in DOMAIN a /\ (a \o b)[i] = a[i]
        \/ i - Len(a) \in DOMAIN b /\ (a \o b)[i] = b[i - Len(a)]
  BY Concatenated
<1>4. ASSUME NEW kind
      PROVE  Shows(a \o b, c, n, kind) <=> Shows(a, c, n, kind) \/ Shows(b, c, n, kind)
  <2>1. ASSUME Shows(a \o b, c, n, kind) PROVE Shows(a, c, n, kind) \/ Shows(b, c, n, kind)
    BY <1>3, <2>1 DEF Shows
  <2>2. ASSUME Shows(a, c, n, kind) PROVE Shows(a \o b, c, n, kind)
    BY <1>1, <2>2 DEF Shows
  <2>3. ASSUME Shows(b, c, n, kind) PROVE Shows(a \o b, c, n, kind)
    BY <1>2, <2>3 DEF Shows
  <2> QED BY <2>1, <2>2, <2>3
<1>5. ASSUME Mentions(a \o b, c, n) PROVE Mentions(a, c, n) \/ Mentions(b, c, n)
  BY <1>3, <1>5 DEF Mentions
<1>6. ASSUME Mentions(a, c, n) PROVE Mentions(a \o b, c, n)
  BY <1>1, <1>6 DEF Mentions
<1>7. ASSUME Mentions(b, c, n) PROVE Mentions(a \o b, c, n)
  BY <1>2, <1>7 DEF Mentions
<1> QED BY <1>4, <1>5, <1>6, <1>7

LEMMA SoundGrows ==
  ASSUME NEW a, NEW b, Sound(a), Sound(b)
  PROVE  Sound(a \o b)
<1>1. IsSeq(a) /\ IsSeq(b) /\ IsSeq(a \o b)
  BY Concatenated DEF Sound
<1> SUFFICES ASSUME NEW i \in DOMAIN (a \o b)
             PROVE  LET e == (a \o b)[i] IN
                    /\ Fields \subseteq DOMAIN e
                    /\ e.call \in AllCalls \cup {NoCall}
                    /\ e.type \in OwnTypes => e.call \in Own /\ e.copied = FALSE
                    /\ e.type = "output.sanitized" => Shows(a \o b, e.call, e.attempt, "raw-result")
  BY <1>1 DEF Sound
<1>2. CASE i \in DOMAIN a
  <2>1. (a \o b)[i] = a[i]
    BY <1>1, <1>2, Concatenated
  <2> QED BY <1>1, <1>2, <2>1, ShowsGrow DEF Sound
<1>3. CASE i \notin DOMAIN a
  <2>1. PICK j \in DOMAIN b : (a \o b)[i] = b[j]
    BY <1>1, <1>3, Concatenated
  <2> QED BY <1>1, <2>1, ShowsGrow DEF Sound
<1> QED BY <1>2, <1>3

\* Verdicts of one after the other.
LEMMA VerdictsGrow ==
  ASSUME NEW a, NEW b, IsSeq(a), IsSeq(b)
  PROVE  Verdicts(a \o b) = Verdicts(a) \cup { Len(a) + k : k \in Verdicts(b) }
<1>1. /\ Len(a) \in Nat /\ DOMAIN a = 1 .. Len(a) /\ DOMAIN b = 1 .. Len(b)
      /\ DOMAIN (a \o b) = 1 .. Len(a) + Len(b)
      /\ \A i \in DOMAIN a : (a \o b)[i] = a[i]
      /\ \A i \in DOMAIN b : (a \o b)[Len(a) + i] = b[i]
      /\ \A i \in DOMAIN (a \o b) :
              i \in DOMAIN a \/ (i - Len(a) \in DOMAIN b /\ (a \o b)[i] = b[i - Len(a)])
  BY Concatenated
<1>2. ASSUME NEW i \in Verdicts(a \o b)
      PROVE  i \in Verdicts(a) \cup { Len(a) + k : k \in Verdicts(b) }
  BY <1>1 DEF Verdicts
<1>3. ASSUME NEW i \in Verdicts(a) PROVE i \in Verdicts(a \o b)
  BY <1>1 DEF Verdicts
<1>4. ASSUME NEW k \in Verdicts(b) PROVE Len(a) + k \in Verdicts(a \o b)
  BY <1>1 DEF Verdicts
<1> QED BY <1>2, <1>3, <1>4

LEMMA Joined ==
  ASSUME NEW a, NEW b
  PROVE  /\ Pending(a) /\ Pending(b) => Pending(a \o b)
         /\ \A c, answer : /\ Pending(a) /\ Concluding(b, c, answer) => Concluding(a \o b, c, answer)
                           /\ Concluding(a, c, answer) /\ Pending(b) => Concluding(a \o b, c, answer)
<1>1. ASSUME Pending(a), Pending(b) PROVE Pending(a \o b)
  <2>1. Sound(a) /\ Sound(b) /\ Verdicts(a) = {} /\ Verdicts(b) = {}
    BY <1>1 DEF Pending
  <2>2. IsSeq(a) /\ IsSeq(b)
    BY <2>1 DEF Sound
  <2>3. Sound(a \o b)
    BY <2>1, SoundGrows
  <2>4. Verdicts(a \o b) = {}
    BY <2>1, <2>2, VerdictsGrow
  <2> QED BY <2>3, <2>4 DEF Pending
<1>2. ASSUME NEW c, NEW answer, Pending(a), Concluding(b, c, answer)
      PROVE  Concluding(a \o b, c, answer)
  <2>1. Sound(a \o b) /\ IsSeq(a) /\ IsSeq(b)
    BY <1>2, SoundGrows DEF Pending, Concluding, Sound
  <2>2. PICK k \in DOMAIN b : Verdicts(b) = {k} /\ b[k].call = c /\ Says(b[k], answer)
    BY <1>2 DEF Concluding
  <2>3. Len(a) + k \in DOMAIN (a \o b) /\ (a \o b)[Len(a) + k] = b[k]
    BY <2>1, Concatenated
  <2>4. Verdicts(a \o b) = {Len(a) + k}
    BY <1>2, <2>1, <2>2, VerdictsGrow DEF Pending
  <2> QED BY <2>1, <2>2, <2>3, <2>4 DEF Concluding
<1>3. ASSUME NEW c, NEW answer, Concluding(a, c, answer), Pending(b)
      PROVE  Concluding(a \o b, c, answer)
  <2>1. Sound(a \o b) /\ IsSeq(a) /\ IsSeq(b)
    BY <1>3, SoundGrows DEF Pending, Concluding, Sound
  <2>2. PICK k \in DOMAIN a : Verdicts(a) = {k} /\ a[k].call = c /\ Says(a[k], answer)
    BY <1>3 DEF Concluding
  <2>3. k \in DOMAIN (a \o b) /\ (a \o b)[k] = a[k]
    BY <2>1, Concatenated
  <2>4. Verdicts(a \o b) = {k}
    BY <1>3, <2>1, <2>2, VerdictsGrow DEF Pending
  <2> QED BY <2>1, <2>2, <2>3, <2>4 DEF Concluding
<1> QED BY <1>1, <1>2, <1>3

-----------------------------------------------------------------------------
(* What is emitted.                                                        *)

\* An id and a time change nothing else about an event.
LEMMA StampedEvents ==
  ASSUME NEW es, IsSeq(es), NEW first, NEW at
  PROVE  LET st == Stamped(es, first, at) IN
         /\ IsSeq(st) /\ DOMAIN st = DOMAIN es
         /\ \A i \in DOMAIN es :
              /\ Fields \subseteq DOMAIN st[i] /\ st[i].at = at
              /\ st[i].type = es[i].type /\ st[i].call = es[i].call
              /\ st[i].attempt = es[i].attempt /\ st[i].data = es[i].data
              /\ st[i].copied = es[i].copied
<1> DEFINE st == Stamped(es, first, at)
<1>1. DOMAIN es = 1 .. Len(es) /\ Len(es) \in Nat
  BY Concatenated
<1>2. st = [i \in 1 .. Len(es) |-> Dated(es[i], first + i, at)]
  BY <1>1 DEF Stamped
<1>3. st \in Seq({ st[i] : i \in 1 .. Len(es) }) /\ DOMAIN st = DOMAIN es
  <2>1. DOMAIN st = 1 .. Len(es)
    BY <1>2
  <2>2. st = [i \in 1 .. Len(es) |-> st[i]]
    BY <1>2
  <2> HIDE DEF st
  <2> QED BY <1>1, <2>1, <2>2
<1>4. ASSUME NEW i \in DOMAIN es
      PROVE  /\ Fields \subseteq DOMAIN st[i] /\ st[i].at = at
             /\ st[i].type = es[i].type /\ st[i].call = es[i].call
             /\ st[i].attempt = es[i].attempt /\ st[i].data = es[i].data
             /\ st[i].copied = es[i].copied
  <2>1. st[i] = Dated(es[i], first + i, at)
    BY <1>1, <1>2
  <2> HIDE DEF st
  <2> QED BY <2>1 DEF Dated, Fields
<1> HIDE DEF st
<1> QED BY <1>3, <1>4 DEF IsSeq, st

LEMMA Pieces ==
  /\ \A x, y : <<x, y>> = <<x>> \o <<y>>
  /\ \A x, y, z : <<x, y, z>> = <<x, y>> \o <<z>>
<1>1. ASSUME NEW x, NEW y PROVE <<x, y>> = <<x>> \o <<y>>
  <2>1. <<x>> \in Seq({x, y}) /\ <<y>> \in Seq({x, y}) /\ <<x, y>> \in Seq({x, y})
    OBVIOUS
  <2> DEFINE s == <<x>> \o <<y>>
  <2>2. s \in Seq({x, y}) /\ Len(s) = 2 /\ s[1] = x /\ s[2] = y
    BY <2>1
  <2> HIDE DEF s
  <2>3. s = <<x, y>>
    BY <2>1, <2>2
  <2> QED BY <2>3 DEF s
<1>2. ASSUME NEW x, NEW y, NEW z PROVE <<x, y, z>> = <<x, y>> \o <<z>>
  <2>1. <<x, y>> \in Seq({x, y, z}) /\ <<z>> \in Seq({x, y, z}) /\ <<x, y, z>> \in Seq({x, y, z})
    OBVIOUS
  <2>2. Len(<<x, y>>) = 2 /\ Len(<<z>>) = 1 /\ Len(<<x, y, z>>) = 3
    OBVIOUS
  <2> QED BY <2>1, <2>2
<1> QED BY <1>1, <1>2

\* An event alone.
LEMMA Single ==
  ASSUME NEW type, NEW c \in AllCalls \cup {NoCall}, NEW n, NEW data,
         type \in OwnTypes => c \in Own, type # "output.sanitized"
  PROVE  LET e == Carrying(type, c, n, data) IN
         /\ Sound(<<e>>)
         /\ type \notin Terminal \/ c \notin Calls => Pending(<<e>>)
         /\ \A answer : type \in Terminal /\ c \in Calls /\ Says(e, answer)
                          => Concluding(<<e>>, c, answer)
         /\ type = "evidence.artifact.created" => Shows(<<e>>, c, n, data.kind)
         /\ type \notin {"topology.generated", "narrative.generated"} => Mentions(<<e>>, c, n)
<1> DEFINE e == Carrying(type, c, n, data)
           es == <<e>>
<1>1. /\ DOMAIN e = Fields /\ e.type = type /\ e.call = c /\ e.attempt = n /\ e.data = data
      /\ e.copied = FALSE
  BY DEF Carrying, Fields
<1> HIDE DEF e
<1>2. DOMAIN es = {1} /\ es[1] = e
  OBVIOUS
<1>3. IsSeq(es)
  BY SequencesOf
<1> HIDE DEF es
<1>4. Sound(es)
  BY <1>1, <1>2, <1>3 DEF Sound
<1>5. Verdicts(es) = IF type \in Terminal /\ c \in Calls THEN {1} ELSE {}
  BY <1>1, <1>2 DEF Verdicts
<1>6. type \notin Terminal \/ c \notin Calls => Pending(es)
  BY <1>4, <1>5 DEF Pending
<1>7. ASSUME NEW answer, type \in Terminal /\ c \in Calls, Says(e, answer)
      PROVE  Concluding(es, c, answer)
  BY <1>1, <1>2, <1>4, <1>5, <1>7 DEF Concluding
<1>8. type = "evidence.artifact.created" => Shows(es, c, n, data.kind)
  BY <1>1, <1>2 DEF Shows
<1>9. type \notin {"topology.generated", "narrative.generated"} => Mentions(es, c, n)
  BY <1>1, <1>2 DEF Mentions
<1> QED BY <1>4, <1>6, <1>7, <1>8, <1>9 DEF e, es

\* A result is sanitized after its artifact was made.
LEMMA Sanitized ==
  ASSUME NEW c \in Own, NEW n
  PROVE  LET es == <<Artifact(c, n, "raw-result"), Event("output.sanitized", c, n, "none")>> IN
         /\ Pending(es) /\ Shows(es, c, n, "raw-result") /\ Mentions(es, c, n)
<1> DEFINE x == Artifact(c, n, "raw-result")
           y == Event("output.sanitized", c, n, "none")
           es == <<x, y>>
<1>1. /\ DOMAIN x = Fields /\ x.type = "evidence.artifact.created" /\ x.call = c /\ x.attempt = n
      /\ x.data = [kind |-> "raw-result"] /\ x.copied = FALSE
  BY DEF Artifact, Event, Carrying, Fields
<1>2. /\ DOMAIN y = Fields /\ y.type = "output.sanitized" /\ y.call = c /\ y.attempt = n
      /\ y.copied = FALSE
  BY DEF Event, Carrying, Fields
<1> HIDE DEF x, y
<1>3. DOMAIN es = {1, 2} /\ es[1] = x /\ es[2] = y
  OBVIOUS
<1>4. IsSeq(es)
  BY SequencesOf
<1> HIDE DEF es
<1>5. Shows(es, c, n, "raw-result") /\ Mentions(es, c, n)
  BY <1>1, <1>3 DEF Shows, Mentions
<1>6. c \in AllCalls
  BY DEF Own, AllCalls
<1>7. Sound(es)
  BY <1>1, <1>2, <1>3, <1>4, <1>5, <1>6 DEF Sound
<1>8. Verdicts(es) = {}
  BY <1>1, <1>2, <1>3 DEF Verdicts, Terminal
<1> QED BY <1>5, <1>7, <1>8 DEF es, x, y, Pending

LEMMA PendingTuples ==
  /\ \A x, y : Pending(<<x>>) /\ Pending(<<y>>) => Pending(<<x, y>>)
  /\ \A x, y, z : Pending(<<x>>) /\ Pending(<<y>>) /\ Pending(<<z>>) => Pending(<<x, y, z>>)
<1>1. ASSUME NEW x, NEW y, Pending(<<x>>), Pending(<<y>>) PROVE Pending(<<x, y>>)
  <2>1. Pending(<<x>> \o <<y>>)
    BY <1>1, Joined
  <2>2. <<x, y>> = <<x>> \o <<y>>
    BY Pieces
  <2> QED BY <2>1, <2>2
<1>2. ASSUME NEW x, NEW y, NEW z, Pending(<<x>>), Pending(<<y>>), Pending(<<z>>)
      PROVE  Pending(<<x, y, z>>)
  <2>1. Pending(<<x, y>>)
    BY <1>1, <1>2
  <2>2. Pending(<<x, y>> \o <<z>>)
    BY <1>2, <2>1, Joined
  <2>3. <<x, y, z>> = <<x, y>> \o <<z>>
    BY Pieces
  <2> QED BY <2>2, <2>3
<1> QED BY <1>1, <1>2

LEMMA OwnEvent ==
  ASSUME NEW type, type \notin Terminal \cup {"output.sanitized"}, NEW c \in Own, NEW n, NEW kind
  PROVE  /\ Pending(<<Event(type, c, n, kind)>>)
         /\ type = "evidence.artifact.created" => Shows(<<Event(type, c, n, kind)>>, c, n, kind)
         /\ type \notin {"topology.generated", "narrative.generated"}
              => Mentions(<<Event(type, c, n, kind)>>, c, n)
<1>1. c \in AllCalls \cup {NoCall}
  BY DEF Own, AllCalls
<1> DEFINE data == [kind |-> kind]
           es == <<Carrying(type, c, n, data)>>
<1>2. data.kind = kind
  OBVIOUS
<1> HIDE DEF data
<1>3. /\ Pending(es)
      /\ type = "evidence.artifact.created" => Shows(es, c, n, data.kind)
      /\ type \notin {"topology.generated", "narrative.generated"} => Mentions(es, c, n)
  BY <1>1, Single
<1> QED BY <1>2, <1>3 DEF Event, data

LEMMA RunEvent ==
  ASSUME NEW type, type \notin Terminal \cup {"output.sanitized"} \cup OwnTypes, NEW data
  PROVE  Pending(<<Carrying(type, NoCall, 0, data)>>)
<1>1. NoCall \in AllCalls \cup {NoCall} /\ NoCall \notin Calls
  BY EventAssumption DEF AllCalls
<1> QED BY <1>1, Single

LEMMA EmptyPending == Pending(<<>>)
BY SequencesOf DEF Pending, Sound, Verdicts

LEMMA CallPieces ==
  ASSUME NEW c \in Own, NEW n
  PROVE  /\ Pending(Effects(c, n)) /\ Pending(RunCompleted(c, n)) /\ Pending(Start(c))
         /\ \A kind : Pending(Decision(c, n, kind)) /\ Pending(Checked(c, kind))
                      /\ Pending(RunPreflight(c, kind))
<1>1. Pending(Effects(c, n))
  <2>1. /\ Pending(<<Event("side_effect.recorded", c, n, "none")>>)
        /\ Pending(<<Event("blast_radius.scored", c, n, "none")>>)
    BY OwnEvent DEF Terminal
  <2> QED BY <2>1, PendingTuples DEF Effects
<1>2. Pending(RunCompleted(c, n))
  BY OwnEvent DEF RunCompleted, Terminal
<1>3. Pending(Start(c))
  <2> DEFINE adapter == IF RequestOf[c].entry = "sidecar"
                          THEN <<Event("adapter.connected", NoCall, 0, c)>> ELSE <<>>
             events == <<Event("run.started", c, 1, "none"), Event("tool.call.started", c, 1, "none"),
                         Event("server.preflight.started", c, 1, "none")>>
  <2>1. Pending(<<Event("adapter.connected", NoCall, 0, c)>>)
    BY RunEvent DEF Event, Terminal, OwnTypes, Circuits
  <2>2. Pending(adapter)
    BY <2>1, EmptyPending
  <2>3. /\ Pending(<<Event("run.started", c, 1, "none")>>)
        /\ Pending(<<Event("tool.call.started", c, 1, "none")>>)
        /\ Pending(<<Event("server.preflight.started", c, 1, "none")>>)
    BY OwnEvent DEF Terminal
  <2>4. Pending(events)
    BY <2>3, PendingTuples
  <2>5. Start(c) = adapter \o events
    BY DEF Start
  <2> HIDE DEF adapter, events
  <2> QED BY <2>2, <2>4, <2>5, Joined
<1>4. ASSUME NEW kind
      PROVE  Pending(Decision(c, n, kind)) /\ Pending(Checked(c, kind)) /\ Pending(RunPreflight(c, kind))
  <2>1. Pending(Decision(c, n, kind)) /\ Pending(Checked(c, kind))
    BY OwnEvent DEF Decision, Checked, Terminal
  <2> DEFINE started == [seed |-> c]
             completed == [seed |-> c, findings |-> Target(c) :> kind]
  <2>2. /\ Pending(<<Carrying("server.preflight.started", NoCall, 0, started)>>)
        /\ Pending(<<Carrying("server.preflight.completed", NoCall, 0, completed)>>)
    <3> HIDE DEF started, completed
    <3> QED BY RunEvent DEF Terminal, OwnTypes, Circuits
  <2>3. RunPreflight(c, kind) = <<Carrying("server.preflight.started", NoCall, 0, started),
                                  Carrying("server.preflight.completed", NoCall, 0, completed)>>
    BY DEF RunPreflight
  <2>4. Pending(RunPreflight(c, kind))
    <3> HIDE DEF started, completed
    <3> QED BY <2>2, <2>3, PendingTuples
  <2> QED BY <2>1, <2>4
<1> QED BY <1>1, <1>2, <1>3, <1>4

LEMMA SequencesThey ==
  ASSUME NEW es
  PROVE  /\ Pending(es) => IsSeq(es) /\ Sound(es)
         /\ \A c, answer : Concluding(es, c, answer) => IsSeq(es) /\ Sound(es)
BY DEF Pending, Concluding, Sound

LEMMA FailurePieces ==
  ASSUME NEW c \in Calls, NEW n, NEW failure \in FailureTypes
  PROVE  /\ Concluding(FailureEvents(c, n, failure), c, failure)
         /\ Shows(FailureEvents(c, n, failure), c, n, "raw-stderr")
         /\ Mentions(FailureEvents(c, n, failure), c, n)
<1> DEFINE a == <<Artifact(c, n, "raw-stderr")>>
           b == Effects(c, n)
           d == IF CardOf(c, failure).loop = "loop-detected"
                  THEN <<Event("retry_loop.detected", c, n, "none")>> ELSE <<>>
           f == <<Carrying("tool.call.failed", c, n, CardOf(c, failure))>>
<1>1. c \in Own
  BY DEF Own
<1>2. Pending(a) /\ Shows(a, c, n, "raw-stderr") /\ Mentions(a, c, n)
  BY <1>1, OwnEvent DEF Artifact, Terminal
<1>3. Pending(b)
  BY <1>1, CallPieces
<1>4. Pending(d)
  <2>1. Pending(<<Event("retry_loop.detected", c, n, "none")>>)
    BY <1>1, OwnEvent DEF Terminal
  <2> QED BY <2>1, EmptyPending
<1>5. Concluding(f, c, failure)
  <2> DEFINE data == CardOf(c, failure)
             e == Carrying("tool.call.failed", c, n, data)
  <2>1. data.failure = failure
    BY DEF CardOf
  <2>2. failure # "success"
    BY DEF FailureTypes
  <2>3. Says(e, failure)
    <3>1. e.type = "tool.call.failed" /\ e.data = data
      BY DEF Carrying
    <3> HIDE DEF e
    <3> QED BY <2>1, <2>2, <3>1 DEF Says
  <2>4. c \in AllCalls \cup {NoCall}
    BY DEF AllCalls
  <2> HIDE DEF data
  <2>5. "tool.call.failed" \notin OwnTypes /\ "tool.call.failed" \in Terminal
    BY DEF OwnTypes, Circuits, Terminal
  <2>6. Concluding(<<Carrying("tool.call.failed", c, n, data)>>, c, failure)
    BY <2>3, <2>4, <2>5, Single
  <2> QED BY <2>6 DEF data
<1>6. FailureEvents(c, n, failure) = ((a \o b) \o d) \o f
  BY DEF FailureEvents
<1> HIDE DEF a, b, d, f
<1>7. Pending(a \o b)
  BY <1>2, <1>3, Joined
<1>8. Pending((a \o b) \o d)
  BY <1>4, <1>7, Joined
<1>9. Concluding(((a \o b) \o d) \o f, c, failure)
  BY <1>5, <1>8, Joined
<1>10. IsSeq(a) /\ IsSeq(b) /\ IsSeq(d) /\ IsSeq(f) /\ IsSeq(a \o b) /\ IsSeq((a \o b) \o d)
  BY <1>2, <1>3, <1>4, <1>5, <1>7, <1>8, SequencesThey
<1>11. Shows(a \o b, c, n, "raw-stderr") /\ Mentions(a \o b, c, n)
  BY <1>2, <1>10, ShowsGrow
<1>12. Shows((a \o b) \o d, c, n, "raw-stderr") /\ Mentions((a \o b) \o d, c, n)
  BY <1>10, <1>11, ShowsGrow
<1>13. Shows(((a \o b) \o d) \o f, c, n, "raw-stderr") /\ Mentions(((a \o b) \o d) \o f, c, n)
  BY <1>10, <1>12, ShowsGrow
<1> QED BY <1>6, <1>9, <1>13

LEMMA SuccessPieces ==
  ASSUME NEW c \in Own, NEW n, NEW over \in BOOLEAN
  PROVE  /\ c \in Calls => Concluding(SuccessEvents(c, n, over), c, "success")
         /\ c \in Tasks => Pending(SuccessEvents(c, n, over))
         /\ Shows(SuccessEvents(c, n, over), c, n, "raw-result")
         /\ Mentions(SuccessEvents(c, n, over), c, n)
<1> DEFINE made == <<Artifact(c, n, "raw-result")>>
           a == made \o (IF over THEN <<Event("output.sanitized", c, n, "none")>> ELSE <<>>)
           b == <<Event("tool.call.completed", c, n, "none")>>
           d == Effects(c, n)
<1>1. Pending(a) /\ Shows(a, c, n, "raw-result") /\ Mentions(a, c, n)
  <2>1. CASE over
    <3>1. a = <<Artifact(c, n, "raw-result"), Event("output.sanitized", c, n, "none")>>
      BY <2>1, Pieces
    <3> QED BY <3>1, Sanitized
  <2>2. CASE ~over
    <3>1. Pending(made) /\ Shows(made, c, n, "raw-result") /\ Mentions(made, c, n)
      BY OwnEvent DEF Artifact, Terminal
    <3>2. a = made \o <<>>
      BY <2>2
    <3> HIDE DEF made, a
    <3>3. Pending(made \o <<>>)
      BY <3>1, EmptyPending, Joined
    <3>4. Shows(made \o <<>>, c, n, "raw-result") /\ Mentions(made \o <<>>, c, n)
      BY <3>1, SequencesThey, SequencesOf, ShowsGrow
    <3> QED BY <3>2, <3>3, <3>4
  <2> QED BY <2>1, <2>2
<1>2. /\ c \in Calls => Concluding(b, c, "success")
      /\ c \notin Calls => Pending(b)
  <2> DEFINE data == [kind |-> "none"]
             e == Carrying("tool.call.completed", c, n, data)
  <2>1. b = <<e>>
    BY DEF Event
  <2>2. Says(e, "success")
    BY DEF Carrying, Says
  <2>3. c \in AllCalls \cup {NoCall}
    BY DEF Own, AllCalls
  <2>4. "tool.call.completed" \notin OwnTypes /\ "tool.call.completed" \in Terminal
    BY DEF OwnTypes, Circuits, Terminal
  <2> HIDE DEF data
  <2>5. /\ c \in Calls => Concluding(<<Carrying("tool.call.completed", c, n, data)>>, c, "success")
        /\ c \notin Calls => Pending(<<Carrying("tool.call.completed", c, n, data)>>)
    BY <2>2, <2>3, <2>4, Single
  <2> QED BY <2>1, <2>5
<1>3. Pending(d)
  BY CallPieces
<1>4. SuccessEvents(c, n, over) = (a \o b) \o d
  BY DEF SuccessEvents
<1> HIDE DEF made, a, b, d
<1>5. c \in Tasks => c \notin Calls
  BY EventAssumption
<1>6. IsSeq(a) /\ IsSeq(b) /\ IsSeq(d)
  BY <1>1, <1>2, <1>3, SequencesThey
<1>7. IsSeq(a \o b)
  BY <1>6, Concatenated
<1>8. ASSUME c \in Calls PROVE Concluding((a \o b) \o d, c, "success")
  <2>1. Concluding(a \o b, c, "success")
    BY <1>1, <1>2, <1>8, Joined
  <2> QED BY <1>3, <2>1, Joined
<1>9. ASSUME c \in Tasks PROVE Pending((a \o b) \o d)
  <2>1. Pending(a \o b)
    BY <1>1, <1>2, <1>5, <1>9, Joined
  <2> QED BY <1>3, <2>1, Joined
<1>10. Shows(a \o b, c, n, "raw-result") /\ Mentions(a \o b, c, n)
  BY <1>1, <1>6, ShowsGrow
<1>11. Shows((a \o b) \o d, c, n, "raw-result") /\ Mentions((a \o b) \o d, c, n)
  BY <1>6, <1>7, <1>10, ShowsGrow
<1> QED BY <1>4, <1>8, <1>9, <1>11

\* The event a generator repeats is the latest one, under another type.
LEMMA EchoPiece ==
  ASSUME Sound(log), NEW type \in {"topology.generated", "narrative.generated", "report.exported",
                                   "bundle.exported"}
  PROVE  Pending(<<Echo(log, type)>>)
<1> DEFINE e == Echo(log, type)
           es == <<e>>
<1>1. /\ Fields \subseteq DOMAIN e /\ e.type = type /\ e.copied = TRUE
      /\ e.call \in AllCalls \cup {NoCall}
  <2>1. CASE log = <<>>
    BY <2>1 DEF Echo, Event, Carrying, Fields
  <2>2. CASE log # <<>>
    <3>1. Len(log) \in DOMAIN log
      <4>1. PICK S : log \in Seq(S)
        BY DEF Sound, IsSeq
      <4> QED BY <2>2, <4>1
    <3>2. Fields \subseteq DOMAIN Last(log) /\ Last(log).call \in AllCalls \cup {NoCall}
      BY <3>1 DEF Sound, Last
    <3>3. e = [Last(log) EXCEPT !.type = type, !.data = [kind |-> "none"], !.copied = TRUE]
      BY <2>2 DEF Echo
    <3> HIDE DEF e
    <3> QED BY <3>2, <3>3 DEF Fields
  <2> QED BY <2>1, <2>2
<1> HIDE DEF e
<1>2. DOMAIN es = {1} /\ es[1] = e
  OBVIOUS
<1>3. IsSeq(es)
  BY SequencesOf
<1> HIDE DEF es
<1>4. type \notin OwnTypes /\ type \notin Terminal /\ type # "output.sanitized"
  BY DEF OwnTypes, Circuits, Terminal
<1>5. Sound(es)
  BY <1>1, <1>2, <1>3, <1>4 DEF Sound
<1>6. Verdicts(es) = {}
  BY <1>1, <1>2, <1>4 DEF Verdicts
<1> QED BY <1>5, <1>6 DEF Pending, e, es

LEMMA TaskPieces ==
  ASSUME NEW t \in Tasks
  PROVE  /\ \A kind : Pending(<<Artifact(t, 1, kind)>>)
         /\ Pending(ImportEvents(t))
         /\ \A data : \A type \in {"policy.simulated", "integration.verified"} :
              Pending(<<Carrying(type, NoCall, 0, data)>>)
<1>1. t \in Own
  BY DEF Own
<1>2. ASSUME NEW kind PROVE Pending(<<Artifact(t, 1, kind)>>)
  BY <1>1, OwnEvent DEF Artifact, Terminal
<1>3. Pending(ImportEvents(t))
  <2>1. Pending(<<Event("visibility.imported", t, 1, "none")>>)
    BY <1>1, OwnEvent DEF Terminal
  <2> QED BY <1>2, <2>1, PendingTuples DEF ImportEvents
<1>4. ASSUME NEW type \in {"policy.simulated", "integration.verified"}, NEW data
      PROVE  Pending(<<Carrying(type, NoCall, 0, data)>>)
  BY RunEvent DEF Terminal, OwnTypes, Circuits
<1> QED BY <1>2, <1>3, <1>4

-----------------------------------------------------------------------------
(* What is entered in the ledger.                                          *)

LEMMA EntryFields ==
  ASSUME NEW c, NEW n, NEW outcome, NEW failure, NEW impact, NEW loop, NEW artifacts
  PROVE  /\ LedgerEntry(c, n, outcome, failure, impact, loop, artifacts).call = c
         /\ LedgerEntry(c, n, outcome, failure, impact, loop, artifacts).attempt = n
         /\ LedgerEntry(c, n, outcome, failure, impact, loop, artifacts).artifacts = artifacts
         /\ LedgerEntry(c, n, outcome, failure, impact, loop, artifacts).effect
              = EffectState(RequestOf[c], outcome, failure, impact)
BY DEF LedgerEntry

LEMMA EffectsKnown ==
  ASSUME NEW r, NEW outcome, NEW failure, NEW impact
  PROVE  EffectState(r, outcome, failure, impact) \in EffectStates
<1>1. InferEffect(r, outcome, failure) \in EffectStates
  BY DEF InferEffect, EffectStates
<1>2. "none" \in EffectStates
  BY DEF EffectStates
<1> QED BY <1>1, <1>2 DEF EffectState

\* An entry is about an attempt the events mention, and shows what they show.
Backed(x, es) ==
  /\ x.call \in Own /\ x.effect \in EffectStates
  /\ Mentions(es, x.call, x.attempt)
  /\ \A a \in x.artifacts : Shows(es, x.call, a[1], a[2])
Supported(entries, es) == IsSeq(entries) /\ \A k \in DOMAIN entries : Backed(entries[k], es)

LEMMA SupportGrows ==
  ASSUME NEW a, NEW b, IsSeq(a), IsSeq(b)
  PROVE  \A entries : Supported(entries, a) \/ Supported(entries, b) => Supported(entries, a \o b)
<1>1. ASSUME NEW x, Backed(x, a) \/ Backed(x, b) PROVE Backed(x, a \o b)
  BY <1>1, ShowsGrow DEF Backed
<1> QED BY <1>1 DEF Supported

LEMMA SupportJoins ==
  ASSUME NEW es, NEW x, NEW y, Supported(x, es), Supported(y, es)
  PROVE  Supported(x \o y, es)
<1>1. IsSeq(x) /\ IsSeq(y)
  BY DEF Supported
<1>2. IsSeq(x \o y)
  BY <1>1, Concatenated
<1>3. \A k \in DOMAIN (x \o y) :
        k \in DOMAIN x \/ (k - Len(x) \in DOMAIN y /\ (x \o y)[k] = y[k - Len(x)])
  BY <1>1, Concatenated
<1>4. \A k \in DOMAIN x : (x \o y)[k] = x[k]
  BY <1>1, Concatenated
<1> QED BY <1>2, <1>3, <1>4 DEF Supported

LEMMA NoEntries == ASSUME NEW es PROVE Supported(<<>>, es)
BY SequencesOf DEF Supported

LEMMA OneEntry ==
  ASSUME NEW es, NEW x, Backed(x, es)
  PROVE  Supported(<<x>>, es)
<1>1. DOMAIN <<x>> = {1} /\ <<x>>[1] = x
  OBVIOUS
<1> QED BY <1>1, SequencesOf DEF Supported

LEMMA SuccessEntryBacked ==
  ASSUME NEW c \in Own, NEW n, NEW impact, NEW over \in BOOLEAN
  PROVE  Supported(SuccessEntry(c, n, impact), SuccessEvents(c, n, over))
<1> DEFINE x == LedgerEntry(c, n, "completed", "none", impact, "none", {<<n, "raw-result">>})
           es == SuccessEvents(c, n, over)
<1>1. x.call = c /\ x.attempt = n /\ x.artifacts = {<<n, "raw-result">>} /\ x.effect \in EffectStates
  BY EntryFields, EffectsKnown
<1>2. SuccessEntry(c, n, impact) = <<x>>
  BY DEF SuccessEntry
<1>3. Shows(es, c, n, "raw-result") /\ Mentions(es, c, n)
  BY SuccessPieces
<1> HIDE DEF x, es
<1>4. Backed(x, es)
  BY <1>1, <1>3 DEF Backed
<1> QED BY <1>2, <1>4, OneEntry DEF es

\* What a failure links is shown: the error always, the result where it was
\* unsafe and kept.
LinksShown(es, c, n, failure) ==
  \A a \in FailureLinks(n, failure) : Shows(es, c, a[1], a[2])

LEMMA LinksFrom ==
  ASSUME NEW es, NEW c, NEW n, NEW failure, Shows(es, c, n, "raw-stderr"),
         failure \in UnsafeOutput => Shows(es, c, n, "raw-result")
  PROVE  LinksShown(es, c, n, failure)
BY DEF LinksShown, FailureLinks

LEMMA FailureEntryBacked ==
  ASSUME NEW es, NEW c \in Own, NEW n, NEW failure, NEW impact, Mentions(es, c, n),
         LinksShown(es, c, n, failure)
  PROVE  Supported(FailureEntry(c, n, failure, impact), es)
<1> DEFINE outcome == IF failure \in Blocked THEN "blocked" ELSE "failed"
           x == LedgerEntry(c, n, outcome, failure, impact, CardOf(c, failure).loop,
                            FailureLinks(n, failure))
<1>1. x.call = c /\ x.attempt = n /\ x.artifacts = FailureLinks(n, failure) /\ x.effect \in EffectStates
  BY EntryFields, EffectsKnown
<1>2. FailureEntry(c, n, failure, impact) = <<x>>
  BY DEF FailureEntry
<1> HIDE DEF x
<1>3. Backed(x, es)
  BY <1>1 DEF Backed, LinksShown
<1> QED BY <1>2, <1>3, OneEntry

-----------------------------------------------------------------------------
(* What the log says of a call.                                            *)

VerdictsOn(es, c) == { k \in Verdicts(es) : es[k].call = c }

\* The last verdict on the call says this.
Concludes(es, c, answer) ==
  \E k \in VerdictsOn(es, c) : (\A j \in VerdictsOn(es, c) : j <= k) /\ Says(es[k], answer)

LEMMA VerdictsOfPieces ==
  ASSUME NEW es
  PROVE  /\ Pending(es) => \A d : VerdictsOn(es, d) = {}
         /\ \A c, answer : Concluding(es, c, answer) => \A d : d # c => VerdictsOn(es, d) = {}
BY DEF Pending, Concluding, VerdictsOn

LEMMA Appended ==
  ASSUME NEW a, NEW b, IsSeq(a), IsSeq(b)
  PROVE  /\ \A c : VerdictsOn(b, c) = {} =>
              /\ VerdictsOn(a, c) = {} => VerdictsOn(a \o b, c) = {}
              /\ \A answer : Concludes(a, c, answer) => Concludes(a \o b, c, answer)
         /\ \A c, answer : Concluding(b, c, answer) => Concludes(a \o b, c, answer)
<1>1. /\ Len(a) \in Nat /\ DOMAIN a = 1 .. Len(a) /\ DOMAIN b = 1 .. Len(b)
      /\ \A i \in DOMAIN a : (a \o b)[i] = a[i]
      /\ \A i \in DOMAIN b : (a \o b)[Len(a) + i] = b[i]
  BY Concatenated
<1>2. Verdicts(a \o b) = Verdicts(a) \cup { Len(a) + k : k \in Verdicts(b) }
  BY VerdictsGrow
<1>3. Verdicts(a) \subseteq DOMAIN a /\ Verdicts(b) \subseteq DOMAIN b
  BY DEF Verdicts
<1>4. ASSUME NEW c, VerdictsOn(b, c) = {} PROVE VerdictsOn(a \o b, c) = VerdictsOn(a, c)
  BY <1>1, <1>2, <1>3, <1>4 DEF VerdictsOn
<1>5. ASSUME NEW c, NEW answer, VerdictsOn(b, c) = {}, Concludes(a, c, answer)
      PROVE  Concludes(a \o b, c, answer)
  <2>1. VerdictsOn(a, c) \subseteq DOMAIN a
    BY <1>3 DEF VerdictsOn
  <2> QED BY <1>1, <1>4, <1>5, <2>1 DEF Concludes
<1>6. ASSUME NEW c, NEW answer, Concluding(b, c, answer) PROVE Concludes(a \o b, c, answer)
  <2>1. PICK k \in DOMAIN b : Verdicts(b) = {k} /\ b[k].call = c /\ Says(b[k], answer)
    BY <1>6 DEF Concluding
  <2>2. Verdicts(a \o b) = Verdicts(a) \cup {Len(a) + k}
    BY <1>2, <2>1
  <2>3. (a \o b)[Len(a) + k] = b[k]
    BY <1>1, <2>1
  <2>4. \A j \in Verdicts(a) : j <= Len(a) + k
    BY <1>1, <1>3, <2>1
  <2>5. k \in Nat
    BY <1>1, <2>1
  <2>6. Len(a) + k \in VerdictsOn(a \o b, c)
    BY <2>1, <2>2, <2>3 DEF VerdictsOn
  <2>7. \A j \in VerdictsOn(a \o b, c) : j <= Len(a) + k
    BY <1>1, <2>2, <2>4, <2>5 DEF VerdictsOn
  <2> QED BY <2>1, <2>3, <2>6, <2>7 DEF Concludes
<1> QED BY <1>4, <1>5, <1>6

\* Nothing that is said depends on ids and times.
LEMMA StampedSame ==
  ASSUME NEW es, Sound(es), NEW first, NEW at
  PROVE  LET st == Stamped(es, first, at) IN
         /\ Sound(st)
         /\ \A c, n, kind : Shows(st, c, n, kind) <=> Shows(es, c, n, kind)
         /\ \A c, n : Mentions(st, c, n) <=> Mentions(es, c, n)
         /\ \A c : VerdictsOn(st, c) = VerdictsOn(es, c)
         /\ \A c, answer : Concluding(es, c, answer) => Concluding(st, c, answer)
<1> DEFINE st == Stamped(es, first, at)
<1>1. IsSeq(es)
  BY DEF Sound
<1>2. /\ IsSeq(st) /\ DOMAIN st = DOMAIN es
      /\ \A i \in DOMAIN es :
              /\ Fields \subseteq DOMAIN st[i]
              /\ st[i].type = es[i].type /\ st[i].call = es[i].call
              /\ st[i].attempt = es[i].attempt /\ st[i].data = es[i].data
              /\ st[i].copied = es[i].copied
  BY <1>1, StampedEvents
<1> HIDE DEF st
<1>3. ASSUME NEW c, NEW n, NEW kind PROVE Shows(st, c, n, kind) <=> Shows(es, c, n, kind)
  <2>1. ASSUME Shows(st, c, n, kind) PROVE Shows(es, c, n, kind)
    BY <1>2, <2>1 DEF Shows
  <2>2. ASSUME Shows(es, c, n, kind) PROVE Shows(st, c, n, kind)
    BY <1>2, <2>2 DEF Shows
  <2> QED BY <2>1, <2>2
<1>4. ASSUME NEW c, NEW n PROVE Mentions(st, c, n) <=> Mentions(es, c, n)
  <2>1. ASSUME Mentions(st, c, n) PROVE Mentions(es, c, n)
    BY <1>2, <2>1 DEF Mentions
  <2>2. ASSUME Mentions(es, c, n) PROVE Mentions(st, c, n)
    BY <1>2, <2>2 DEF Mentions
  <2> QED BY <2>1, <2>2
<1>5. Sound(st)
  BY <1>2, <1>3 DEF Sound
<1>6. Verdicts(st) = Verdicts(es)
  BY <1>2 DEF Verdicts
<1>7. ASSUME NEW c PROVE VerdictsOn(st, c) = VerdictsOn(es, c)
  <2>1. Verdicts(es) \subseteq DOMAIN es
    BY DEF Verdicts
  <2> QED BY <1>2, <1>6, <2>1 DEF VerdictsOn
<1>8. ASSUME NEW c, NEW answer, Concluding(es, c, answer) PROVE Concluding(st, c, answer)
  <2>1. PICK k \in DOMAIN es : Verdicts(es) = {k} /\ es[k].call = c /\ Says(es[k], answer)
    BY <1>8 DEF Concluding
  <2>2. Says(st[k], answer)
    BY <1>2, <2>1 DEF Says
  <2> QED BY <1>2, <1>5, <1>6, <2>1, <2>2 DEF Concluding
<1> QED BY <1>3, <1>4, <1>5, <1>7, <1>8 DEF st

-----------------------------------------------------------------------------
(* The invariant.                                                          *)

\* The log is sound, dated, and what counts for coverage is in the history or
\* still to be written to it.
LogInv ==
  /\ Sound(log)
  /\ unwritten \subseteq { log[i] : i \in DOMAIN log }
  /\ \A i \in DOMAIN log : /\ log[i].at \in 0 .. MaxNow
                           /\ IsCoverageEvent(log[i]) => log[i] \in history \cup unwritten

LedgerInv == Supported(ledger, log)

\* How far a call is, what its client holds and what the log says agree.
CallInv(c) ==
  /\ pc[c] = "idle" => told[c] = "waiting"
  /\ pc[c] \in {"executing", "failed"} => told[c] \in {"waiting", "sidecar_unavailable"}
  /\ pc[c] = "failed" =>
       /\ card[c].failure \in FailureTypes /\ Concludes(log, c, card[c].failure)
       /\ LinksShown(log, c, attempt[c], card[c].failure)
  /\ pc[c] = "done" /\ told[c] \notin {"waiting", "sidecar_unavailable"} =>
       VerdictsOn(log, c) = {} \/ Concludes(log, c, told[c])

Contents == [Places -> 0 .. MaxWrites]
StateOK ==
  /\ pc \in [Calls -> {"idle", "executing", "failed", "done"}]
  /\ attempt \in [Calls -> 0 .. MaxRetries + 1]
  /\ told \in [Calls -> {"waiting", "success"} \cup FailureTypes]
  /\ card = [c \in Calls |-> card[c]]
  /\ content \in Contents /\ before \in [Calls -> Contents]
  /\ fails \in [Targets -> Nat] /\ opened \in [Targets -> {Closed} \cup 0 .. MaxNow]
  /\ now \in 0 .. MaxNow /\ requests \in 0 .. MaxRequests
  /\ session \in 0 .. MaxRestarts /\ serial \in BOOLEAN

LEMMA CoverageIsHistory ==
  ASSUME NEW e, IsCoverageEvent(e) PROVE IsHistoryEvent(e)
BY DEF IsCoverageEvent, IsHistoryEvent, Inventory, TransportRoutes, Routes, VerifiedRoutes

\* What appending events to the log does.
Continues(es) ==
  /\ \A i \in DOMAIN log : i \in DOMAIN log' /\ log'[i] = log[i]
  /\ \A entries : Supported(entries, log \o es) => Supported(entries, log')
  /\ \A c, n, kind : Shows(log, c, n, kind) \/ Shows(es, c, n, kind) => Shows(log', c, n, kind)
  /\ \A c : VerdictsOn(es, c) = {} =>
       /\ VerdictsOn(log, c) = {} => VerdictsOn(log', c) = {}
       /\ \A answer : Concludes(log, c, answer) => Concludes(log', c, answer)
  /\ \A c, answer : Concluding(es, c, answer) => Concludes(log', c, answer)

LEMMA Appending ==
  ASSUME Sound(log), NEW es, Sound(es), NEW st, log' = log \o st, Sound(st),
         \A c, n, kind : Shows(st, c, n, kind) <=> Shows(es, c, n, kind),
         \A c, n : Mentions(st, c, n) <=> Mentions(es, c, n),
         \A c : VerdictsOn(st, c) = VerdictsOn(es, c),
         \A c, answer : Concluding(es, c, answer) => Concluding(st, c, answer)
  PROVE  Continues(es) /\ Sound(log)'
<1>1. IsSeq(log) /\ IsSeq(es) /\ IsSeq(st)
  BY DEF Sound
<1>2. Sound(log \o st)
  BY SoundGrows
<1>3. \A i \in DOMAIN log : i \in DOMAIN log' /\ log'[i] = log[i]
  BY <1>1, Concatenated
<1>4. \A c, n, kind : Shows(log, c, n, kind) \/ Shows(es, c, n, kind) => Shows(log', c, n, kind)
  BY <1>1, ShowsGrow
<1>5. \A c, n : Mentions(log, c, n) \/ Mentions(es, c, n) => Mentions(log', c, n)
  BY <1>1, ShowsGrow
<1>6. \A c, n, kind : Shows(log \o es, c, n, kind) => Shows(log', c, n, kind)
  BY <1>1, <1>4, ShowsGrow
<1>7. \A c, n : Mentions(log \o es, c, n) => Mentions(log', c, n)
  BY <1>1, <1>5, ShowsGrow
<1>8. \A x : Backed(x, log \o es) => Backed(x, log')
  BY <1>6, <1>7 DEF Backed
<1>9. \A entries : Supported(entries, log \o es) => Supported(entries, log')
  BY <1>8 DEF Supported
<1>10. ASSUME NEW c, VerdictsOn(es, c) = {}
       PROVE  /\ VerdictsOn(log, c) = {} => VerdictsOn(log', c) = {}
              /\ \A answer : Concludes(log, c, answer) => Concludes(log', c, answer)
  <2>1. VerdictsOn(st, c) = {}
    BY <1>10
  <2> QED BY <1>1, <2>1, Appended
<1>11. ASSUME NEW c, NEW answer, Concluding(es, c, answer) PROVE Concludes(log', c, answer)
  <2>1. Concluding(st, c, answer)
    BY <1>11
  <2> QED BY <1>1, <2>1, Appended
<1> QED BY <1>2, <1>3, <1>4, <1>9, <1>10, <1>11 DEF Continues

\* Appending what is stamped keeps the log as it should be.
LEMMA LogGrows ==
  ASSUME LogInv, now \in 0 .. MaxNow, NEW es, Sound(es), NEW st, AppendEvents(st), Sound(st),
         \A c, n, kind : Shows(st, c, n, kind) <=> Shows(es, c, n, kind),
         \A c, n : Mentions(st, c, n) <=> Mentions(es, c, n),
         \A c : VerdictsOn(st, c) = VerdictsOn(es, c),
         \A c, answer : Concluding(es, c, answer) => Concluding(st, c, answer),
         \A i \in DOMAIN st : st[i].at \in 0 .. MaxNow
  PROVE  LogInv' /\ Continues(es)
<1>1. /\ log' = log \o st /\ history' = history
      /\ unwritten' = unwritten \cup { e \in ToSet(st) : IsHistoryEvent(e) }
  BY DEF AppendEvents
<1>2. IsSeq(log) /\ IsSeq(es) /\ IsSeq(st) /\ Sound(log)
  BY DEF LogInv, Sound
<1>5. Continues(es) /\ Sound(log)'
  BY <1>1, <1>2, Appending
<1>6. ASSUME NEW i \in DOMAIN log'
      PROVE  /\ log'[i].at \in 0 .. MaxNow
             /\ IsCoverageEvent(log'[i]) => log'[i] \in history' \cup unwritten'
  <2>1. CASE i \in DOMAIN log
    <3>1. log'[i] = log[i]
      BY <1>5, <2>1 DEF Continues
    <3> QED BY <1>1, <2>1, <3>1 DEF LogInv
  <2>2. CASE i \notin DOMAIN log
    <3>1. PICK j \in DOMAIN st : log'[i] = st[j]
      BY <1>1, <1>2, <2>2, Concatenated
    <3>2. st[j] \in ToSet(st)
      BY DEF ToSet
    <3> QED BY <1>1, <3>1, <3>2, CoverageIsHistory
  <2> QED BY <2>1, <2>2
<1>7. ASSUME NEW e \in unwritten' PROVE e \in { log'[i] : i \in DOMAIN log' }
  <2>1. CASE e \in unwritten
    <3>1. PICK i \in DOMAIN log : e = log[i]
      BY <2>1 DEF LogInv
    <3> QED BY <1>5, <3>1 DEF Continues
  <2>2. CASE e \notin unwritten
    <3>1. PICK j \in DOMAIN st : e = st[j]
      BY <1>1, <1>7, <2>2 DEF ToSet
    <3>2. Len(log) + j \in DOMAIN log' /\ log'[Len(log) + j] = st[j]
      BY <1>1, <1>2, <3>1, Concatenated
    <3> QED BY <3>1, <3>2
  <2> QED BY <2>1, <2>2
<1> QED BY <1>5, <1>6, <1>7 DEF LogInv

LEMMA Published ==
  ASSUME LogInv, now \in 0 .. MaxNow, NEW es, Sound(es), Publish(es)
  PROVE  LogInv' /\ Continues(es)
<1> DEFINE first == session * 100 + Len(log)
           st == Stamped(es, first, now)
<1>1. AppendEvents(st)
  BY DEF Publish
<1>2. IsSeq(es)
  BY DEF Sound
<1>3. /\ Sound(st)
      /\ \A c, n, kind : Shows(st, c, n, kind) <=> Shows(es, c, n, kind)
      /\ \A c, n : Mentions(st, c, n) <=> Mentions(es, c, n)
      /\ \A c : VerdictsOn(st, c) = VerdictsOn(es, c)
      /\ \A c, answer : Concluding(es, c, answer) => Concluding(st, c, answer)
  <2> HIDE DEF first
  <2> QED BY <1>2, StampedSame
<1>4. \A i \in DOMAIN st : st[i].at \in 0 .. MaxNow
  <2> HIDE DEF first
  <2> QED BY <1>2, StampedEvents
<1> HIDE DEF st
<1> QED BY <1>1, <1>3, <1>4, LogGrows

\* A call a step is not about keeps what holds of it.
LEMMA Bystander ==
  ASSUME NEW d \in Calls, CallInv(d), NEW es, Continues(es), VerdictsOn(es, d) = {},
         pc'[d] = pc[d], told'[d] = told[d], card'[d] = card[d], attempt'[d] = attempt[d]
  PROVE  CallInv(d)'
<1>1. /\ VerdictsOn(log, d) = {} => VerdictsOn(log', d) = {}
      /\ \A answer : Concludes(log, d, answer) => Concludes(log', d, answer)
      /\ \A n, kind : Shows(log, d, n, kind) => Shows(log', d, n, kind)
  BY DEF Continues
<1>2. LinksShown(log, d, attempt[d], card[d].failure)
        => LinksShown(log', d, attempt[d], card[d].failure)
  BY <1>1 DEF LinksShown
<1> QED BY <1>1, <1>2 DEF CallInv

LEMMA Recorded ==
  ASSUME LogInv, LedgerInv, NEW es, IsSeq(es), Continues(es),
         NEW entries, Supported(entries, log \o es), Record(entries)
  PROVE  LedgerInv'
<1>1. Supported(ledger, log \o es)
  BY SupportGrows DEF LogInv, LedgerInv, Sound
<1>2. Supported(ledger \o entries, log \o es)
  BY <1>1, SupportJoins
<1>3. ledger' = ledger \o entries
  BY DEF Record
<1> QED BY <1>2, <1>3 DEF LedgerInv, Continues

LEMMA NothingRecorded ==
  ASSUME LogInv, LedgerInv, NEW es, IsSeq(es), Continues(es), UNCHANGED ledger
  PROVE  LedgerInv'
<1>1. Supported(ledger, log \o es)
  BY SupportGrows DEF LogInv, LedgerInv, Sound
<1> QED BY <1>1 DEF LedgerInv, Continues

LEMMA SupportedLater ==
  ASSUME NEW a, NEW b, NEW d, IsSeq(a), IsSeq(b), IsSeq(d), NEW entries, Supported(entries, a \o b)
  PROVE  Supported(entries, a \o (b \o d))
<1>1. IsSeq(b \o d)
  BY Concatenated
<1>2. \A c, n, kind : Shows(a \o b, c, n, kind) => Shows(a \o (b \o d), c, n, kind)
  BY <1>1, ShowsGrow
<1>3. \A c, n : Mentions(a \o b, c, n) => Mentions(a \o (b \o d), c, n)
  BY <1>1, ShowsGrow
<1> QED BY <1>2, <1>3 DEF Supported, Backed

\* A step of call c, with what it emits and enters, keeps the invariants.
Apart(c) ==
  \A d \in Calls \ {c} : /\ pc'[d] = pc[d] /\ told'[d] = told[d]
                         /\ card'[d] = card[d] /\ attempt'[d] = attempt[d]
Histories == LogInv /\ LedgerInv /\ \A c \in Calls : CallInv(c)
IInv == StateOK /\ Histories

\* What was in log and ledger is still there.
Grown ==
  /\ \A i \in DOMAIN log : i \in DOMAIN log' /\ log'[i] = log[i]
  /\ \A k \in DOMAIN ledger : k \in DOMAIN ledger' /\ ledger'[k] = ledger[k]

LEMMA BothGrow ==
  ASSUME LedgerInv, NEW es, Continues(es), NEW entries, IsSeq(entries),
         Record(entries) \/ UNCHANGED ledger
  PROVE  Grown
<1>1. IsSeq(ledger)
  BY DEF LedgerInv, Supported
<1>2. ASSUME Record(entries)
      PROVE  \A k \in DOMAIN ledger : k \in DOMAIN ledger' /\ ledger'[k] = ledger[k]
  BY <1>1, <1>2, Concatenated DEF Record
<1> QED BY <1>2 DEF Grown, Continues

LEMMA CallMoves ==
  ASSUME Histories, now \in 0 .. MaxNow, NEW c \in Calls, NEW es, Sound(es), Publish(es),
         \A d \in Calls \ {c} : VerdictsOn(es, d) = {},
         NEW entries, Supported(entries, log \o es), Record(entries) \/ UNCHANGED ledger,
         Apart(c), Continues(es) => CallInv(c)'
  PROVE  Histories' /\ Grown
<1>1. LogInv' /\ Continues(es)
  BY Published DEF Histories
<1>2. LedgerInv'
  <2>1. IsSeq(es)
    BY DEF Sound
  <2>2. CASE Record(entries)
    BY <1>1, <2>1, <2>2, Recorded DEF Histories
  <2>3. CASE UNCHANGED ledger
    BY <1>1, <2>1, <2>3, NothingRecorded DEF Histories
  <2> QED BY <2>2, <2>3
<1>3. ASSUME NEW d \in Calls, d # c PROVE CallInv(d)'
  <2>1. /\ pc'[d] = pc[d] /\ told'[d] = told[d] /\ card'[d] = card[d] /\ attempt'[d] = attempt[d]
        /\ VerdictsOn(es, d) = {}
    BY <1>3 DEF Apart
  <2>2. CallInv(d)
    BY DEF Histories
  <2> QED BY <1>1, <2>1, <2>2, Bystander
<1>4. CallInv(c)'
  BY <1>1
<1>5. Grown
  BY <1>1, BothGrow DEF Histories, Supported
<1> QED BY <1>1, <1>2, <1>3, <1>4, <1>5 DEF Histories

\* What a failed call or attempt leaves: its answer is said, its links shown.
LEMMA Failing ==
  ASSUME NEW es, NEW c \in Calls, NEW n, NEW failure \in FailureTypes,
         Continues(es), Concluding(es, c, failure), LinksShown(es, c, n, failure)
  PROVE  Concludes(log', c, failure) /\ LinksShown(log', c, n, failure)
BY DEF Continues, LinksShown

\* A call that is refused before it is attempted.
LEMMA Refused ==
  ASSUME Histories, StateOK, NEW c \in Calls, pc[c] = "idle", NEW start, Pending(start),
         NEW failure \in FailureTypes \ UnsafeOutput,
         Publish(start \o FailureEvents(c, 1, failure) \o RunCompleted(c, 1)),
         Record(FailureEntry(c, 1, failure, NoImpact)), Carded(c, failure), Answered(c, failure),
         attempt' = [attempt EXCEPT ![c] = 1]
  PROVE  Histories' /\ Grown
<1> DEFINE a == FailureEvents(c, 1, failure)
           es == (start \o a) \o RunCompleted(c, 1)
<1>1. c \in Own
  BY DEF Own
<1>2. Concluding(a, c, failure) /\ Shows(a, c, 1, "raw-stderr") /\ Mentions(a, c, 1)
  BY FailurePieces
<1>3. Pending(RunCompleted(c, 1))
  BY <1>1, CallPieces
<1>4. Publish(es)
  OBVIOUS
<1> HIDE DEF a
<1>5. Concluding(start \o a, c, failure)
  BY <1>2, Joined
<1>6. Concluding(es, c, failure)
  BY <1>3, <1>5, Joined
<1>7. IsSeq(start) /\ IsSeq(a) /\ IsSeq(start \o a) /\ IsSeq(RunCompleted(c, 1)) /\ IsSeq(es) /\ Sound(es)
  BY <1>2, <1>3, <1>5, <1>6, SequencesThey
<1>8. Mentions(es, c, 1) /\ Shows(es, c, 1, "raw-stderr")
  <2>1. Mentions(start \o a, c, 1) /\ Shows(start \o a, c, 1, "raw-stderr")
    BY <1>2, <1>7, ShowsGrow
  <2> QED BY <1>7, <2>1, ShowsGrow
<1> HIDE DEF es
<1>9. LinksShown(es, c, 1, failure)
  BY <1>8, LinksFrom
<1>10. Supported(FailureEntry(c, 1, failure, NoImpact), log \o es)
  <2>1. Supported(FailureEntry(c, 1, failure, NoImpact), es)
    BY <1>1, <1>8, <1>9, FailureEntryBacked
  <2> QED BY <1>7, <2>1, SupportGrows DEF Histories, LogInv, Sound
<1>11. Apart(c)
  BY DEF Apart, Answered, Carded, StateOK
<1>12. ASSUME Continues(es) PROVE CallInv(c)'
  <2>1. pc'[c] = "done" /\ told'[c] = failure
    <3>1. told[c] = "waiting"
      BY DEF Histories, CallInv
    <3> QED BY <3>1 DEF Answered, StateOK
  <2>2. Concludes(log', c, failure)
    BY <1>6, <1>12 DEF Continues
  <2> QED BY <2>1, <2>2 DEF CallInv
<1>13. now \in 0 .. MaxNow
  BY DEF StateOK
<1>14. \A d \in Calls \ {c} : VerdictsOn(es, d) = {}
  BY <1>6, VerdictsOfPieces
<1> QED BY <1>4, <1>7, <1>10, <1>11, <1>12, <1>13, <1>14, CallMoves

-----------------------------------------------------------------------------
(* The steps of a call.                                                    *)

LEMMA SidecarRefusesKeeps ==
  ASSUME Histories, StateOK, NEW c \in Calls, SidecarRefuses(c) PROVE Histories' /\ Grown
<1> DEFINE start == <<Event("run.started", c, 1, "none"), Event("tool.call.started", c, 1, "none")>>
           failure == "sidecar_protocol_error"
<1>1. Pending(start)
  <2>1. /\ Pending(<<Event("run.started", c, 1, "none")>>)
        /\ Pending(<<Event("tool.call.started", c, 1, "none")>>)
    BY OwnEvent DEF Own, Terminal
  <2> QED BY <2>1, PendingTuples
<1>2. /\ pc[c] = "idle"
      /\ Publish(start \o FailureEvents(c, 1, failure) \o RunCompleted(c, 1))
      /\ Record(FailureEntry(c, 1, failure, NoImpact)) /\ Carded(c, failure)
      /\ Answered(c, failure) /\ attempt' = [attempt EXCEPT ![c] = 1]
  BY DEF SidecarRefuses, Arrives
<1>3. failure \in FailureTypes \ UnsafeOutput
  BY DEF FailureTypes, UnsafeOutput
<1> HIDE DEF start, failure
<1> QED BY <1>1, <1>2, <1>3, Refused

LEMMA BadRequestKeeps ==
  ASSUME Histories, StateOK, NEW c \in Calls, BadRequest(c) PROVE Histories' /\ Grown
<1> DEFINE start == Start(c) \o Checked(c, "failed")
           failure == RequestOf[c].fault
<1>1. Pending(start)
  <2>1. Pending(Start(c)) /\ Pending(Checked(c, "failed"))
    BY CallPieces DEF Own
  <2> QED BY <2>1, Joined
<1>2. /\ pc[c] = "idle" /\ failure \in {"unknown_tool", "invalid_arguments"}
      /\ Publish(start \o FailureEvents(c, 1, failure) \o RunCompleted(c, 1))
      /\ Record(FailureEntry(c, 1, failure, NoImpact)) /\ Carded(c, failure)
      /\ Answered(c, failure) /\ attempt' = [attempt EXCEPT ![c] = 1]
  BY DEF BadRequest, Arrives
<1>3. failure \in FailureTypes \ UnsafeOutput
  BY <1>2 DEF FailureTypes, UnsafeOutput
<1> HIDE DEF start, failure
<1> QED BY <1>1, <1>2, <1>3, Refused

\* An attempt that starts, or fails where the circuit or the policy stops it.
LEMMA AttemptKeeps ==
  ASSUME Histories, StateOK, NEW c \in Calls, NEW n, NEW events, Pending(events),
         NEW entries, Supported(entries, log \o events), Attempt(c, n, events, entries),
         UNCHANGED told, told[c] \in {"waiting", "sidecar_unavailable"}
  PROVE  Histories' /\ Grown
<1> DEFINE verdict == Verdict(c)
           failure == Containment(verdict)
           a == Decision(c, n, verdict)
           f == FailureEvents(c, n, failure)
           blocked == FailureEntry(c, n, failure, Impact(RequestOf[c], content, content))
<1>1. c \in Own /\ now \in 0 .. MaxNow
  BY DEF Own, StateOK
<1>2. Pending(a)
  BY <1>1, CallPieces
<1>3. Pending(events \o a) /\ IsSeq(events) /\ IsSeq(a) /\ IsSeq(events \o a)
      /\ Sound(events \o a) /\ IsSeq(log)
  BY <1>2, Joined, SequencesThey DEF Histories, LogInv, Sound
<1>4. Supported(entries, log \o (events \o a))
  BY <1>3, SupportedLater
<1>5. CASE verdict = "allow"
  <2>1. /\ Publish(events \o a) /\ Record(entries) /\ pc' = [pc EXCEPT ![c] = "executing"]
        /\ UNCHANGED card /\ attempt' = [attempt EXCEPT ![c] = n]
    BY <1>5 DEF Attempt
  <2> HIDE DEF a
  <2>2. Apart(c)
    BY <2>1 DEF Apart, StateOK
  <2>3. CallInv(c)'
    <3>1. pc'[c] = "executing" /\ told'[c] = told[c]
      BY <2>1 DEF StateOK
    <3> QED BY <3>1 DEF CallInv
  <2>4. \A d \in Calls \ {c} : VerdictsOn(events \o a, d) = {}
    BY <1>3, VerdictsOfPieces
  <2> QED BY <1>1, <1>3, <1>4, <2>1, <2>2, <2>3, <2>4, CallMoves
<1>6. CASE verdict # "allow"
  <2>1. /\ Publish((events \o a) \o f) /\ Record(entries \o blocked)
        /\ pc' = [pc EXCEPT ![c] = "failed"] /\ Carded(c, failure)
        /\ attempt' = [attempt EXCEPT ![c] = n]
    BY <1>6 DEF Attempt
  <2>2. failure \in FailureTypes \ UnsafeOutput
    BY DEF Containment, FailureTypes, UnsafeOutput
  <2>3. Concluding(f, c, failure) /\ Shows(f, c, n, "raw-stderr") /\ Mentions(f, c, n)
    <3> HIDE DEF failure
    <3> QED BY <2>2, FailurePieces
  <2> DEFINE es == (events \o a) \o f
  <2> HIDE DEF a, f, verdict
  <2>4. Concluding(es, c, failure) /\ Sound(es) /\ IsSeq(f) /\ IsSeq(es)
    BY <1>3, <2>3, Joined, SequencesThey
  <2>5. Mentions(es, c, n) /\ Shows(es, c, n, "raw-stderr")
    BY <1>3, <2>3, <2>4, ShowsGrow
  <2> HIDE DEF es
  <2>6. LinksShown(es, c, n, failure)
    <3> HIDE DEF failure
    <3> QED BY <2>2, <2>5, LinksFrom
  <2>7. Supported(blocked, log \o es)
    <3> HIDE DEF failure
    <3>1. Supported(blocked, es)
      BY <1>1, <2>5, <2>6, FailureEntryBacked
    <3> HIDE DEF blocked
    <3> QED BY <1>3, <2>4, <3>1, SupportGrows
  <2>8. Supported(entries, log \o es)
    BY <1>3, <1>4, <2>4, SupportedLater DEF es
  <2> HIDE DEF blocked, failure
  <2>9. Supported(entries \o blocked, log \o es)
    BY <2>7, <2>8, SupportJoins
  <2>10. Apart(c)
    BY <2>1 DEF Apart, Carded, StateOK
  <2>11. ASSUME Continues(es) PROVE CallInv(c)'
    <3>1. /\ pc'[c] = "failed" /\ told'[c] = told[c] /\ attempt'[c] = n
          /\ card'[c].failure = failure
      BY <2>1 DEF StateOK, Carded, CardOf
    <3>2. Concludes(log', c, failure) /\ LinksShown(log', c, n, failure)
      BY <2>2, <2>4, <2>6, <2>11, Failing
    <3> QED BY <2>2, <3>1, <3>2 DEF CallInv
  <2>12. \A d \in Calls \ {c} : VerdictsOn(es, d) = {}
    BY <2>4, VerdictsOfPieces
  <2>13. Publish(es)
    BY <2>1 DEF es
  <2> QED BY <1>1, <2>1, <2>4, <2>9, <2>10, <2>11, <2>12, <2>13, CallMoves
<1> QED BY <1>5, <1>6

LEMMA FirstAttemptKeeps ==
  ASSUME Histories, StateOK, NEW c \in Calls, Begin(c) \/ Seed(c) \/ Replay(c) PROVE Histories' /\ Grown
<1> DEFINE opening == Start(c) \o Checked(c, "healthy")
<1>1. Pending(Start(c)) /\ Pending(Checked(c, "healthy")) /\ \A status : Pending(RunPreflight(c, status))
  BY CallPieces DEF Own
<1>2. pc[c] = "idle" /\ UNCHANGED told
  BY DEF Begin, Seed, Replay, Arrives
<1>3. told[c] = "waiting"
  BY <1>2 DEF Histories, CallInv
<1>4. \A es : Supported(<<>>, es)
  BY NoEntries
<1>5. ASSUME Attempt(c, 1, opening, <<>>) PROVE Histories' /\ Grown
  <2>1. Pending(opening)
    BY <1>1, Joined
  <2> HIDE DEF opening
  <2> QED BY <1>2, <1>3, <1>4, <1>5, <2>1, AttemptKeeps
<1>6. ASSUME NEW status, Attempt(c, 1, RunPreflight(c, status) \o Start(c) \o Checked(c, "healthy"), <<>>)
      PROVE  Histories' /\ Grown
  <2> DEFINE events == (RunPreflight(c, status) \o Start(c)) \o Checked(c, "healthy")
  <2>1. Pending(RunPreflight(c, status) \o Start(c))
    BY <1>1, Joined
  <2>2. Pending(events)
    BY <1>1, <2>1, Joined
  <2>3. Attempt(c, 1, events, <<>>)
    BY <1>6
  <2> HIDE DEF events
  <2> QED BY <1>2, <1>3, <1>4, <2>2, <2>3, AttemptKeeps
<1>7. CASE Begin(c)
  BY <1>5, <1>7 DEF Begin
<1>8. CASE Seed(c)
  BY <1>6, <1>8 DEF Seed
<1>9. CASE Replay(c)
  BY <1>5, <1>9 DEF Replay
<1> QED BY <1>7, <1>8, <1>9

LEMMA RetryKeeps ==
  ASSUME Histories, StateOK, NEW c \in Calls, Retry(c) PROVE Histories' /\ Grown
<1> DEFINE n == attempt[c] + 1
           planned == <<Event("tool.retry.scheduled", c, n, "none")>>
           again == <<Event("tool.call.started", c, n, "none")>>
           events == (planned \o Effects(c, n)) \o again
           links == FailureLinks(attempt[c], card[c].failure)
           loop == LoopClass(card[c].repeated, TRUE)
           x == LedgerEntry(c, n, "retry", card[c].failure, NoImpact, loop, links)
<1>1. c \in Own
  BY DEF Own
<1>2. pc[c] = "failed" /\ Attempt(c, n, events, <<x>>) /\ UNCHANGED told
  BY DEF Retry
<1> HIDE DEF links, loop
<1>3. x.call = c /\ x.attempt = n /\ x.artifacts = links /\ x.effect \in EffectStates
  BY EntryFields, EffectsKnown
<1> HIDE DEF x
<1>4. Pending(planned) /\ Mentions(planned, c, n) /\ Pending(again) /\ Pending(Effects(c, n))
  BY <1>1, OwnEvent, CallPieces DEF Terminal
<1> HIDE DEF planned, again
<1>5. Pending(planned \o Effects(c, n))
  BY <1>4, Joined
<1>6. Pending(events)
  BY <1>4, <1>5, Joined
<1>7. IsSeq(planned) /\ IsSeq(Effects(c, n)) /\ IsSeq(planned \o Effects(c, n)) /\ IsSeq(again)
      /\ IsSeq(events) /\ IsSeq(log)
  BY <1>4, <1>5, <1>6, SequencesThey DEF Histories, LogInv, Sound
<1>8. Mentions(events, c, n)
  BY <1>4, <1>7, ShowsGrow
<1> HIDE DEF events
<1>9. Mentions(log \o events, c, n)
  BY <1>7, <1>8, ShowsGrow
<1>10. LinksShown(log, c, attempt[c], card[c].failure)
  BY <1>2 DEF Histories, CallInv
<1>11. \A a \in links : Shows(log \o events, c, a[1], a[2])
  BY <1>7, <1>10, ShowsGrow DEF LinksShown, links
<1>12. Supported(<<x>>, log \o events)
  <2>1. Backed(x, log \o events)
    BY <1>1, <1>3, <1>9, <1>11 DEF Backed
  <2> QED BY <2>1, OneEntry
<1>13. told[c] \in {"waiting", "sidecar_unavailable"}
  BY <1>2 DEF Histories, CallInv
<1> HIDE DEF n
<1> QED BY <1>2, <1>6, <1>12, <1>13, AttemptKeeps

LEMMA CompleteKeeps ==
  ASSUME Histories, StateOK, NEW c \in Calls, Complete(c) PROVE Histories' /\ Grown
<1> DEFINE n == attempt[c]
           closing == IF opened[Target(c)] # Closed
                        THEN <<Event("circuit.closed", c, n, "none")>> ELSE <<>>
           entries == SuccessEntry(c, n, Impact(RequestOf[c], before[c], content))
<1>1. c \in Own /\ now \in 0 .. MaxNow
  BY DEF Own, StateOK
<1>2. PICK answer \in RequestOf[c].outcomes :
        Publish(SuccessEvents(c, n, answer = "over") \o closing \o RunCompleted(c, n))
  BY DEF Complete
<1>3. /\ pc[c] = "executing" /\ Record(entries) /\ Answered(c, "success") /\ UNCHANGED <<attempt, card>>
  BY DEF Complete
<1> DEFINE over == answer = "over"
           s == SuccessEvents(c, n, over)
           es == (s \o closing) \o RunCompleted(c, n)
<1>4. over \in BOOLEAN
  OBVIOUS
<1>5. Publish(es)
  BY <1>2
<1> HIDE DEF over
<1>6. Concluding(s, c, "success")
  BY <1>1, <1>4, SuccessPieces
<1>7. Supported(entries, s)
  BY <1>1, <1>4, SuccessEntryBacked
<1> HIDE DEF s, entries
<1>8. Pending(closing)
  <2>1. Pending(<<Event("circuit.closed", c, n, "none")>>)
    BY <1>1, OwnEvent DEF Terminal
  <2> QED BY <2>1, EmptyPending
<1>9. Pending(RunCompleted(c, n))
  BY <1>1, CallPieces
<1> HIDE DEF closing
<1>10. Concluding(s \o closing, c, "success")
  BY <1>6, <1>8, Joined
<1>11. Concluding(es, c, "success")
  BY <1>9, <1>10, Joined
<1>12. IsSeq(s) /\ IsSeq(closing) /\ IsSeq(s \o closing) /\ IsSeq(RunCompleted(c, n)) /\ IsSeq(es)
       /\ Sound(es) /\ IsSeq(log)
  BY <1>6, <1>8, <1>9, <1>10, <1>11, SequencesThey DEF Histories, LogInv, Sound
<1>13. Supported(entries, log \o es)
  <2>1. Supported(entries, s \o closing)
    BY <1>7, <1>12, SupportGrows
  <2>2. Supported(entries, es)
    BY <1>12, <2>1, SupportGrows
  <2> QED BY <1>12, <2>2, SupportGrows
<1> HIDE DEF es
<1>14. Apart(c)
  BY <1>3 DEF Apart, Answered, StateOK
<1>15. ASSUME Continues(es) PROVE CallInv(c)'
  <2>1. pc'[c] = "done" /\ told'[c] \in {"success", "sidecar_unavailable"}
    <3>1. told[c] \in {"waiting", "sidecar_unavailable"}
      BY <1>3 DEF Histories, CallInv
    <3> QED BY <1>3, <3>1 DEF Answered, StateOK
  <2>2. Concludes(log', c, "success")
    BY <1>11, <1>15 DEF Continues
  <2> QED BY <2>1, <2>2 DEF CallInv
<1>16. \A d \in Calls \ {c} : VerdictsOn(es, d) = {}
  BY <1>11, VerdictsOfPieces
<1> QED BY <1>1, <1>3, <1>5, <1>12, <1>13, <1>14, <1>15, <1>16, CallMoves

LEMMA FailAttemptKeeps ==
  ASSUME Histories, StateOK, NEW c \in Calls, NEW failure \in FailureTypes, FailAttempt(c, failure)
  PROVE  Histories' /\ Grown
<1> DEFINE n == attempt[c]
           unsafe == failure \in UnsafeOutput
           kept == IF unsafe THEN <<Artifact(c, n, "raw-result"),
                                    Event("output.sanitized", c, n, "none")>> ELSE <<>>
           f == FailureEvents(c, n, failure)
           opening == IF Opens(c, failure) THEN <<Event("circuit.opened", c, n, "none")>> ELSE <<>>
           impact == IF unsafe THEN NoImpact ELSE Impact(RequestOf[c], before[c], content)
           entries == FailureEntry(c, n, failure, impact)
           es == (kept \o f) \o opening
<1>1. c \in Own /\ now \in 0 .. MaxNow
  BY DEF Own, StateOK
<1>2. /\ pc[c] = "executing" /\ Publish(es) /\ Record(entries) /\ Carded(c, failure)
      /\ pc' = [pc EXCEPT ![c] = "failed"] /\ UNCHANGED <<attempt, told>>
  BY DEF FailAttempt
<1>3. Pending(kept) /\ (unsafe => Shows(kept, c, n, "raw-result"))
  BY <1>1, Sanitized, EmptyPending
<1>4. Concluding(f, c, failure) /\ Shows(f, c, n, "raw-stderr") /\ Mentions(f, c, n)
  BY FailurePieces
<1>5. Pending(opening)
  <2>1. Pending(<<Event("circuit.opened", c, n, "none")>>)
    BY <1>1, OwnEvent DEF Terminal
  <2> QED BY <2>1, EmptyPending
<1> HIDE DEF kept, f, opening, impact
<1>6. Concluding(kept \o f, c, failure)
  BY <1>3, <1>4, Joined
<1>7. Concluding(es, c, failure)
  BY <1>5, <1>6, Joined
<1>8. IsSeq(kept) /\ IsSeq(f) /\ IsSeq(kept \o f) /\ IsSeq(opening) /\ IsSeq(es) /\ Sound(es) /\ IsSeq(log)
  BY <1>3, <1>4, <1>5, <1>6, <1>7, SequencesThey DEF Histories, LogInv, Sound
<1>9. /\ Mentions(kept \o f, c, n) /\ Shows(kept \o f, c, n, "raw-stderr")
      /\ unsafe => Shows(kept \o f, c, n, "raw-result")
  BY <1>3, <1>4, <1>8, ShowsGrow
<1>10. /\ Mentions(es, c, n) /\ Shows(es, c, n, "raw-stderr")
       /\ unsafe => Shows(es, c, n, "raw-result")
  BY <1>8, <1>9, ShowsGrow
<1> HIDE DEF es
<1>11. LinksShown(es, c, n, failure)
  BY <1>10, LinksFrom
<1>12. Supported(entries, log \o es)
  <2>1. Supported(entries, es)
    BY <1>1, <1>10, <1>11, FailureEntryBacked
  <2> HIDE DEF entries
  <2> QED BY <1>8, <2>1, SupportGrows
<1> HIDE DEF entries
<1>13. Apart(c)
  BY <1>2 DEF Apart, Carded, StateOK
<1>14. ASSUME Continues(es) PROVE CallInv(c)'
  <2>1. /\ pc'[c] = "failed" /\ told'[c] = told[c] /\ attempt'[c] = n /\ card'[c].failure = failure
    BY <1>2 DEF StateOK, Carded, CardOf
  <2>2. Concludes(log', c, failure) /\ LinksShown(log', c, n, failure)
    BY <1>7, <1>11, <1>14, Failing
  <2>3. told[c] \in {"waiting", "sidecar_unavailable"}
    BY <1>2 DEF Histories, CallInv
  <2> QED BY <2>1, <2>2, <2>3 DEF CallInv
<1>15. \A d \in Calls \ {c} : VerdictsOn(es, d) = {}
  BY <1>7, VerdictsOfPieces
<1> QED BY <1>1, <1>2, <1>8, <1>12, <1>13, <1>14, <1>15, CallMoves

LEMMA GiveUpKeeps ==
  ASSUME Histories, StateOK, NEW c \in Calls, GiveUp(c) PROVE Histories' /\ Grown
<1> DEFINE es == RunCompleted(c, attempt[c])
<1>1. /\ pc[c] = "failed" /\ Publish(es) /\ UNCHANGED <<ledger, attempt, card>>
      /\ Answered(c, card[c].failure) /\ now \in 0 .. MaxNow
  BY DEF GiveUp, StateOK
<1>2. Pending(es)
  BY CallPieces DEF Own
<1> HIDE DEF es
<1>3. Sound(es) /\ \A d : VerdictsOn(es, d) = {}
  BY <1>2, SequencesThey, VerdictsOfPieces
<1>4. Apart(c)
  BY <1>1 DEF Apart, Answered, StateOK
<1>5. ASSUME Continues(es) PROVE CallInv(c)'
  <2>1. told[c] \in {"waiting", "sidecar_unavailable"} /\ Concludes(log, c, card[c].failure)
    BY <1>1 DEF Histories, CallInv
  <2>2. pc'[c] = "done" /\ told'[c] \in {card[c].failure, "sidecar_unavailable"}
    BY <1>1, <2>1 DEF Answered, StateOK
  <2>3. Concludes(log', c, card[c].failure)
    BY <1>3, <1>5, <2>1 DEF Continues
  <2> QED BY <2>2, <2>3 DEF CallInv
<1> QED BY <1>1, <1>3, <1>4, <1>5, NoEntries, CallMoves

\* Steps that emit nothing.
LEMMA SilentKeeps ==
  ASSUME Histories, StateOK, UNCHANGED <<log, ledger, unwritten, history, pc, attempt, card>>,
         \A c \in Calls : told'[c] # told[c] =>
           pc[c] \in {"executing", "failed"} /\ told'[c] = "sidecar_unavailable"
  PROVE  Histories' /\ Grown
<1>1. LogInv' /\ LedgerInv'
  <2>1. /\ LogInv /\ LedgerInv /\ log' = log /\ ledger' = ledger
        /\ unwritten' = unwritten /\ history' = history
    BY DEF Histories
  <2> QED BY <2>1 DEF LogInv, LedgerInv
<1>2. ASSUME NEW c \in Calls PROVE CallInv(c)'
  BY DEF Histories, CallInv
<1> QED BY <1>1, <1>2 DEF Histories, Grown

\* What was to be written is in the history.
LEMMA WriteKeeps ==
  ASSUME Histories, Write PROVE Histories' /\ Grown
<1>1. /\ UNCHANGED <<log, ledger, pc, attempt, card, told>>
      /\ unwritten' = {} /\ history' = history \cup unwritten
  BY DEF Write, callVars
<1>2. LogInv' /\ LedgerInv'
  <2>1. LogInv /\ LedgerInv
    BY DEF Histories
  <2> QED BY <1>1, <2>1 DEF LogInv, LedgerInv
<1>3. ASSUME NEW c \in Calls PROVE CallInv(c)'
  BY <1>1 DEF Histories, CallInv
<1> QED BY <1>1, <1>2, <1>3 DEF Histories, Grown

\* Steps that are about no call of this core.
LEMMA TaskKeeps ==
  ASSUME Histories, StateOK, NEW es, Pending(es), Publish(es),
         NEW entries, Supported(entries, log \o es), Record(entries) \/ UNCHANGED ledger,
         UNCHANGED <<pc, attempt, told, card>>
  PROVE  Histories' /\ Grown
<1>1. now \in 0 .. MaxNow /\ Sound(es) /\ IsSeq(es) /\ \A d : VerdictsOn(es, d) = {}
  BY SequencesThey, VerdictsOfPieces DEF StateOK
<1>2. LogInv' /\ Continues(es)
  BY <1>1, Published DEF Histories
<1>3. LedgerInv'
  <2>1. CASE Record(entries)
    BY <1>1, <1>2, <2>1, Recorded DEF Histories
  <2>2. CASE UNCHANGED ledger
    BY <1>1, <1>2, <2>2, NothingRecorded DEF Histories
  <2> QED BY <2>1, <2>2
<1>4. ASSUME NEW d \in Calls PROVE CallInv(d)'
  <2>1. CallInv(d)
    BY DEF Histories
  <2> QED BY <1>1, <1>2, <2>1, Bystander
<1>5. Grown
  BY <1>2, BothGrow DEF Histories, Supported
<1> QED BY <1>2, <1>3, <1>4, <1>5 DEF Histories

-----------------------------------------------------------------------------
(* The steps that are about no call of this core.                          *)

LEMMA ProbePieces ==
  ASSUME NEW p \in Tasks \cup {NoCall}
  PROVE  Pending(ProbeEvents(p)) /\ Supported(ProbeEntries(p), ProbeEvents(p))
<1>1. CASE p = NoCall
  BY <1>1, EmptyPending, NoEntries DEF ProbeEvents, ProbeEntries
<1>2. CASE p # NoCall /\ RequestOf[p].op = "import"
  BY <1>2, TaskPieces, NoEntries DEF ProbeEvents, ProbeEntries
<1>3. CASE p # NoCall /\ RequestOf[p].op # "import"
  <2>1. p \in Tasks /\ p \in Own
    BY <1>3 DEF Own
  <2> DEFINE a == (Start(p) \o Checked(p, "healthy")) \o Decision(p, 1, "allow")
             s == SuccessEvents(p, 1, FALSE)
             entries == SuccessEntry(p, 1, NoImpact)
  <2>2. Pending(Start(p)) /\ Pending(Checked(p, "healthy")) /\ Pending(Decision(p, 1, "allow"))
        /\ Pending(RunCompleted(p, 1))
    BY <2>1, CallPieces
  <2>3. Pending(Start(p) \o Checked(p, "healthy"))
    BY <2>2, Joined
  <2>4. Pending(a)
    BY <2>2, <2>3, Joined
  <2>5. FALSE \in BOOLEAN
    OBVIOUS
  <2>6. Pending(s) /\ Supported(entries, s)
    BY <2>1, <2>5, SuccessPieces, SuccessEntryBacked
  <2>7. ProbeEvents(p) = (a \o s) \o RunCompleted(p, 1) /\ ProbeEntries(p) = entries
    BY <1>3 DEF ProbeEvents, ProbeEntries
  <2> HIDE DEF a, s, entries
  <2>8. Pending(a \o s)
    BY <2>4, <2>6, Joined
  <2>9. Pending((a \o s) \o RunCompleted(p, 1))
    BY <2>2, <2>8, Joined
  <2>10. IsSeq(a) /\ IsSeq(s) /\ IsSeq(a \o s) /\ IsSeq(RunCompleted(p, 1))
    BY <2>2, <2>4, <2>6, <2>8, SequencesThey
  <2>11. Supported(entries, a \o s)
    BY <2>6, <2>10, SupportGrows
  <2>12. Supported(entries, (a \o s) \o RunCompleted(p, 1))
    BY <2>10, <2>11, SupportGrows
  <2> QED BY <2>7, <2>9, <2>12
<1> QED BY <1>1, <1>2, <1>3

LEMMA TaskStepKeeps ==
  ASSUME Histories, StateOK, NEW t \in Tasks, TaskStep(t) PROVE Histories' /\ Grown
<1>1. CASE Import(t)
  <2>1. Publish(ImportEvents(t)) /\ UNCHANGED ledger /\ UNCHANGED <<pc, attempt, told, card>>
    BY <1>1 DEF Import, Quiet, callVars
  <2> QED BY <2>1, TaskPieces, NoEntries, TaskKeeps
<1>2. CASE Simulate(t)
  <2> DEFINE x == Artifact(t, 1, "policy-simulation")
             y == Event("policy.simulated", NoCall, 0, "none")
             es == <<x, y>>
  <2>1. Publish(es) /\ UNCHANGED ledger /\ UNCHANGED <<pc, attempt, told, card>>
    BY <1>2 DEF Simulate, Quiet, callVars
  <2>2. Pending(<<x>>) /\ Pending(<<y>>)
    BY TaskPieces DEF Event
  <2> HIDE DEF x, y
  <2>3. Pending(es)
    BY <2>2, PendingTuples
  <2> HIDE DEF es
  <2> QED BY <2>1, <2>3, NoEntries, TaskKeeps
<1>3. CASE Verify(t)
  <2> DEFINE p == RequestOf[t].probe
             a == ProbeEvents(p)
             entries == ProbeEntries(p)
  <2>1. p \in Tasks \cup {NoCall}
    BY <1>3, ServerAssumption DEF Verify, Does
  <2>2. PICK checks \in ChecksOf(RequestOf[t].verifies) :
          Publish(a \o <<Artifact(t, 1, "verification-receipt"),
                         Carrying("integration.verified", NoCall, 0, Receipt(t, checks))>>)
    BY <1>3 DEF Verify
  <2>3. Record(entries) /\ UNCHANGED <<pc, attempt, told, card>>
    BY <1>3 DEF Verify, Quiet, callVars
  <2>4. Pending(a) /\ Supported(entries, a)
    BY <2>1, ProbePieces
  <2> DEFINE data == Receipt(t, checks)
             x == Artifact(t, 1, "verification-receipt")
             y == Carrying("integration.verified", NoCall, 0, data)
             b == <<x, y>>
  <2>5. Publish(a \o b)
    BY <2>2
  <2> HIDE DEF data, a, entries
  <2>6. Pending(<<x>>) /\ Pending(<<y>>)
    BY TaskPieces
  <2> HIDE DEF x, y
  <2>7. Pending(b)
    BY <2>6, PendingTuples
  <2> HIDE DEF b
  <2>8. Pending(a \o b)
    BY <2>4, <2>7, Joined
  <2>9. IsSeq(a) /\ IsSeq(b) /\ IsSeq(a \o b) /\ IsSeq(log)
    BY <2>4, <2>7, <2>8, SequencesThey DEF Histories, LogInv, Sound
  <2>10. Supported(entries, a \o b)
    BY <2>4, <2>9, SupportGrows
  <2>11. Supported(entries, log \o (a \o b))
    BY <2>9, <2>10, SupportGrows
  <2> QED BY <2>3, <2>5, <2>8, <2>11, TaskKeeps
<1> QED BY <1>1, <1>2, <1>3 DEF TaskStep

LEMMA MakingKeeps ==
  ASSUME Histories, StateOK, Generate \/ ExportBundle PROVE Histories' /\ Grown
<1>1. /\ UNCHANGED ledger /\ UNCHANGED <<pc, attempt, told, card>>
  BY DEF Generate, ExportBundle, Quiet, callVars
<1>2. Sound(log)
  BY DEF Histories, LogInv
<1>3. CASE Generate
  <2>1. PICK type \in {"topology.generated", "narrative.generated", "report.exported"} :
          Publish(<<Echo(log, type)>>)
    BY <1>3 DEF Generate
  <2>2. Pending(<<Echo(log, type)>>)
    BY <1>2, EchoPiece
  <2> QED BY <1>1, <2>1, <2>2, NoEntries, TaskKeeps
<1>4. CASE ExportBundle
  <2> DEFINE x == Echo(log, "report.exported")
             y == Echo(log, "bundle.exported")
             es == <<x, y>>
  <2>1. Publish(es)
    BY <1>4 DEF ExportBundle
  <2>2. Pending(<<x>>) /\ Pending(<<y>>)
    BY <1>2, EchoPiece
  <2> HIDE DEF x, y
  <2>3. Pending(es)
    BY <2>2, PendingTuples
  <2> HIDE DEF es
  <2> QED BY <1>1, <2>1, <2>3, NoEntries, TaskKeeps
<1> QED BY <1>3, <1>4

\* Another run's event says nothing of this core's calls.
LEMMA IngestKeeps ==
  ASSUME Histories, StateOK, NEW f \in Forwarded, Ingest(f) PROVE Histories' /\ Grown
<1> DEFINE data == [NoCard EXCEPT !.failure = "timeout"]
<1>1. PICK at \in 0 .. now :
        LET e == Dated(Carrying("tool.call.failed", f, 1, data), RequestOf[f].event, at)
        IN AppendEvents(<<e>>)
  BY DEF Ingest
<1> DEFINE e == Dated(Carrying("tool.call.failed", f, 1, data), RequestOf[f].event, at)
           es == <<e>>
<1>2. /\ AppendEvents(es) /\ UNCHANGED ledger
      /\ UNCHANGED <<pc, attempt, told, card>>
  BY <1>1 DEF Ingest, Quiet, callVars
<1> HIDE DEF data
<1>3. /\ Fields \subseteq DOMAIN e /\ e.type = "tool.call.failed" /\ e.call = f /\ e.at = at
  BY DEF Dated, Carrying, Fields
<1> HIDE DEF e
<1>4. f \in AllCalls \cup {NoCall} /\ f \notin Calls
  BY EventAssumption DEF AllCalls
<1>5. DOMAIN es = {1} /\ es[1] = e
  OBVIOUS
<1>6. IsSeq(es)
  BY SequencesOf
<1>7. Sound(log) /\ IsSeq(log)
  BY DEF Histories, LogInv, Sound
<1> HIDE DEF es
<1>9. Sound(es)
  BY <1>3, <1>4, <1>5, <1>6 DEF Sound, OwnTypes, Circuits
<1>10. Verdicts(es) = {}
  BY <1>3, <1>4, <1>5 DEF Verdicts
<1>11. Pending(es) /\ \A d : VerdictsOn(es, d) = {}
  BY <1>9, <1>10 DEF Pending, VerdictsOn
<1>12. LogInv' /\ Continues(es)
  <2>1. \A i \in DOMAIN es : es[i].at \in 0 .. MaxNow
    BY <1>3, <1>5, ServerAssumption DEF StateOK
  <2>2. LogInv /\ now \in 0 .. MaxNow
    BY DEF Histories, StateOK
  <2>3. \A c, answer : Concluding(es, c, answer) => Concluding(es, c, answer)
    OBVIOUS
  <2> QED BY <1>2, <1>9, <2>1, <2>2, <2>3, LogGrows
<1>14. LedgerInv'
  BY <1>2, <1>6, <1>12, NothingRecorded DEF Histories
<1>15. ASSUME NEW d \in Calls PROVE CallInv(d)'
  <2>1. CallInv(d)
    BY DEF Histories
  <2> QED BY <1>2, <1>11, <1>12, <2>1, Bystander
<1>16. Grown
  BY <1>2, <1>12, SequencesOf, BothGrow DEF Histories
<1> QED BY <1>12, <1>14, <1>15, <1>16 DEF Histories

\* A restart forgets log and ledger; what was told stays, and no call is left
\* that waits for an answer.
LEMMA RestartKeeps ==
  ASSUME Histories, StateOK, Restart PROVE Histories'
<1>1. /\ log' = <<>> /\ ledger' = <<>>
      /\ unwritten' = {}
      /\ pc' = [c \in Calls |-> IF pc[c] = "idle" THEN "idle" ELSE "done"]
      /\ told' = [c \in Calls |-> IF pc[c] # "idle" /\ (told[c] = "waiting" \/ ~Settled(c))
                                 THEN "sidecar_unavailable" ELSE told[c]]
  BY DEF Restart
<1>2. Sound(<<>>) /\ DOMAIN <<>> = {} /\ Verdicts(<<>>) = {}
  BY EmptyPending DEF Pending
<1>3. LogInv'
  BY <1>1, <1>2 DEF LogInv
<1>4. LedgerInv'
  BY <1>1, NoEntries DEF LedgerInv
<1>5. ASSUME NEW c \in Calls PROVE CallInv(c)'
  <2>1. CallInv(c)
    BY DEF Histories
  <2>2. pc'[c] = IF pc[c] = "idle" THEN "idle" ELSE "done"
    BY <1>1
  <2>3. told'[c] = IF pc[c] # "idle" /\ (told[c] = "waiting" \/ ~Settled(c))
                   THEN "sidecar_unavailable" ELSE told[c]
    BY <1>1
  <2>4. VerdictsOn(log', c) = {}
    BY <1>1, <1>2 DEF VerdictsOn
  <2> QED BY <2>1, <2>2, <2>3, <2>4 DEF CallInv
<1> QED BY <1>3, <1>4, <1>5 DEF Histories

-----------------------------------------------------------------------------
(* Types.                                                                  *)

\* What no step of a call changes, and what an answer and a card are.
LEMMA AnsweredTypes ==
  ASSUME StateOK, NEW c \in Calls, NEW answer \in {"success"} \cup FailureTypes, Answered(c, answer)
  PROVE  /\ pc' \in [Calls -> {"idle", "executing", "failed", "done"}]
         /\ told' \in [Calls -> {"waiting", "success"} \cup FailureTypes]
BY DEF StateOK, Answered

LEMMA CardedTypes ==
  ASSUME StateOK, NEW c \in Calls, NEW failure, Carded(c, failure)
  PROVE  (card = [d \in Calls |-> card[d]])'
<1> DEFINE x == CardOf(c, failure)
<1>1. card' = [card EXCEPT ![c] = x]
  BY DEF Carded
<1> HIDE DEF x
<1>2. DOMAIN card = Calls
  BY DEF StateOK
<1> QED BY <1>1, <1>2

LEMMA AttemptTypes ==
  ASSUME StateOK, NEW c \in Calls, NEW n \in 0 .. MaxRetries + 1, NEW events, NEW entries,
         Attempt(c, n, events, entries)
  PROVE  /\ pc' \in [Calls -> {"idle", "executing", "failed", "done"}]
         /\ attempt' \in [Calls -> 0 .. MaxRetries + 1]
         /\ before' \in [Calls -> Contents]
         /\ (card = [d \in Calls |-> card[d]])'
<1>1. /\ attempt' = [attempt EXCEPT ![c] = n] /\ before' = [before EXCEPT ![c] = content]
      /\ pc' = [pc EXCEPT ![c] = "executing"] \/ pc' = [pc EXCEPT ![c] = "failed"]
      /\ UNCHANGED card \/ Carded(c, Containment(Verdict(c)))
  BY DEF Attempt
<1>2. (card = [d \in Calls |-> card[d]])'
  <2>1. CASE UNCHANGED card
    BY <2>1 DEF StateOK
  <2>2. CASE Carded(c, Containment(Verdict(c)))
    BY <2>2, CardedTypes
  <2> QED BY <1>1, <2>1, <2>2
<1>3. pc' \in [Calls -> {"idle", "executing", "failed", "done"}]
  BY <1>1 DEF StateOK
<1>4. attempt' \in [Calls -> 0 .. MaxRetries + 1] /\ before' \in [Calls -> Contents]
  BY <1>1 DEF StateOK
<1> QED BY <1>2, <1>3, <1>4

LEMMA TypesKept ==
  ASSUME StateOK, \A c \in Calls : CallInv(c), Next PROVE StateOK'
<1> USE DEF StateOK
<1>1. /\ MaxRequests \in Nat /\ MaxNow \in Nat /\ MaxRestarts \in Nat
      /\ MaxWrites \in Nat /\ MaxRetries \in Nat /\ 1 \in 0 .. MaxRetries + 1
  BY ServerAssumption
<1>2. serial' \in BOOLEAN
  BY DEF Next
<1>3. ASSUME NEW c \in Calls, CallStep(c) PROVE StateOK'
  <2>1. CASE SidecarRefuses(c) \/ BadRequest(c)
    <3>1. PICK failure \in FailureTypes : Carded(c, failure) /\ Answered(c, failure)
      BY <2>1 DEF SidecarRefuses, BadRequest, FailureTypes
    <3>2. /\ requests' \in 0 .. MaxRequests /\ attempt' = [attempt EXCEPT ![c] = 1]
          /\ UNCHANGED <<before, content, fails, opened, now, session>>
      BY <1>1, <2>1 DEF SidecarRefuses, BadRequest, Arrives
    <3>3. attempt' \in [Calls -> 0 .. MaxRetries + 1]
      BY <1>1, <3>2
    <3>4. (card = [d \in Calls |-> card[d]])'
      BY <3>1, CardedTypes
    <3>5. /\ pc' \in [Calls -> {"idle", "executing", "failed", "done"}]
          /\ told' \in [Calls -> {"waiting", "success"} \cup FailureTypes]
      BY <3>1, AnsweredTypes
    <3> QED BY <1>2, <3>2, <3>3, <3>4, <3>5
  <2>2. CASE Begin(c) \/ Seed(c) \/ Replay(c)
    <3>1. PICK events : Attempt(c, 1, events, <<>>)
      BY <2>2 DEF Begin, Seed, Replay
    <3>2. /\ requests' \in 0 .. MaxRequests
          /\ UNCHANGED <<content, fails, opened, told, now, session>>
      BY <1>1, <2>2 DEF Begin, Seed, Replay, Arrives
    <3>3. /\ pc' \in [Calls -> {"idle", "executing", "failed", "done"}]
          /\ attempt' \in [Calls -> 0 .. MaxRetries + 1]
          /\ before' \in [Calls -> Contents]
          /\ (card = [d \in Calls |-> card[d]])'
      BY <1>1, <3>1, AttemptTypes
    <3> QED BY <1>2, <3>2, <3>3
  <2>3. CASE Complete(c)
    <3>1. /\ fails' = [fails EXCEPT ![Target(c)] = 0]
          /\ opened' = [opened EXCEPT ![Target(c)] = Closed]
          /\ Answered(c, "success")
          /\ UNCHANGED <<attempt, card, before, content, now, requests, session>>
      BY <2>3 DEF Complete
    <3>2. fails' \in [Targets -> Nat] /\ opened' \in [Targets -> {Closed} \cup 0 .. MaxNow]
      BY <3>1
    <3>3. /\ pc' \in [Calls -> {"idle", "executing", "failed", "done"}]
          /\ told' \in [Calls -> {"waiting", "success"} \cup FailureTypes]
      BY <3>1, AnsweredTypes
    <3> QED BY <1>2, <3>1, <3>2, <3>3
  <2>4. ASSUME NEW failure \in FailureTypes, FailAttempt(c, failure) PROVE StateOK'
    <3>1. /\ fails' = [fails EXCEPT ![Target(c)] = IF failure \in Qualifying THEN @ + 1 ELSE @]
          /\ opened' = [opened EXCEPT ![Target(c)] = IF Opens(c, failure) THEN now ELSE @]
          /\ Carded(c, failure) /\ pc' = [pc EXCEPT ![c] = "failed"]
          /\ UNCHANGED <<attempt, before, content, told, now, requests, session>>
      BY <2>4 DEF FailAttempt
    <3>2. fails' \in [Targets -> Nat]
      <4> DEFINE t == Target(c)
                 n == IF failure \in Qualifying THEN fails[t] + 1 ELSE fails[t]
      <4>1. t \in Targets
        BY DEF Targets
      <4>2. fails' = [fails EXCEPT ![t] = n]
        BY <3>1
      <4> HIDE DEF t
      <4>3. n \in Nat
        BY <4>1
      <4> HIDE DEF n
      <4> QED BY <4>1, <4>2, <4>3
    <3>3. opened' \in [Targets -> {Closed} \cup 0 .. MaxNow]
      BY <3>1
    <3>4. (card = [d \in Calls |-> card[d]])'
      BY <3>1, CardedTypes
    <3>5. pc' \in [Calls -> {"idle", "executing", "failed", "done"}]
      BY <3>1
    <3> QED BY <1>2, <3>1, <3>2, <3>3, <3>4, <3>5
  <2>5. CASE Retry(c)
    <3>1. PICK events, entries : Attempt(c, attempt[c] + 1, events, entries)
      BY <2>5 DEF Retry
    <3>2. /\ attempt[c] <= MaxRetries
          /\ UNCHANGED <<content, fails, opened, told, now, requests, session>>
      BY <2>5 DEF Retry, Retries
    <3>3. attempt[c] + 1 \in 0 .. MaxRetries + 1
      BY <1>1, <3>2
    <3>4. /\ pc' \in [Calls -> {"idle", "executing", "failed", "done"}]
          /\ attempt' \in [Calls -> 0 .. MaxRetries + 1]
          /\ before' \in [Calls -> Contents]
          /\ (card = [d \in Calls |-> card[d]])'
      BY <3>1, <3>3, AttemptTypes
    <3> QED BY <1>2, <3>2, <3>4
  <2>6. CASE GiveUp(c)
    <3>1. /\ pc[c] = "failed" /\ Answered(c, card[c].failure)
          /\ UNCHANGED <<ledger, attempt, card, before, content, fails, opened, now, requests, session>>
      BY <2>6 DEF GiveUp
    <3>2. card[c].failure \in FailureTypes
      BY <3>1 DEF CallInv
    <3>3. /\ pc' \in [Calls -> {"idle", "executing", "failed", "done"}]
          /\ told' \in [Calls -> {"waiting", "success"} \cup FailureTypes]
      BY <3>1, <3>2, AnsweredTypes
    <3> QED BY <1>2, <3>1, <3>3
  <2>7. CASE ClientGivesUp(c)
    <3>1. "sidecar_unavailable" \in FailureTypes
      BY DEF FailureTypes
    <3>2. told' \in [Calls -> {"waiting", "success"} \cup FailureTypes]
      BY <2>7, <3>1 DEF ClientGivesUp
    <3> QED BY <1>2, <2>7, <3>2 DEF ClientGivesUp
  <2>8. CASE ToolWrites(c)
    <3>1. PICK place \in Places :
            content[place] < MaxWrites /\ content' = [content EXCEPT ![place] = @ + 1]
      BY <2>8, ServerAssumption DEF ToolWrites
    <3>2. content' \in Contents
      BY <1>1, <3>1 DEF Contents
    <3> QED BY <1>2, <2>8, <3>2 DEF ToolWrites, callVars
  <2> QED BY <1>3, <2>1, <2>2, <2>3, <2>4, <2>5, <2>6, <2>7, <2>8 DEF CallStep
<1>4. ASSUME NEW t \in Tasks, TaskStep(t) PROVE StateOK'
  <2>1. Quiet /\ requests' \in 0 .. MaxRequests
    BY <1>1, <1>4 DEF TaskStep, Import, Simulate, Verify, Does
  <2> QED BY <1>2, <2>1 DEF Quiet, callVars
<1>5. CASE Generate \/ ExportBundle \/ \E f \in Forwarded : Ingest(f)
  <2>1. Quiet /\ requests' \in 0 .. MaxRequests
    BY <1>1, <1>5 DEF Generate, ExportBundle, Ingest
  <2> QED BY <1>2, <2>1 DEF Quiet, callVars
<1>6. CASE Tick \/ Write
  BY <1>1, <1>2, <1>6 DEF Tick, Write, callVars
<1>7. CASE Restart
  <2>1. /\ session < MaxRestarts /\ session' = session + 1
        /\ pc' = [c \in Calls |-> IF pc[c] = "idle" THEN "idle" ELSE "done"]
        /\ told' = [c \in Calls |-> IF pc[c] # "idle" /\ (told[c] = "waiting" \/ ~Settled(c))
                                   THEN "sidecar_unavailable" ELSE told[c]]
        /\ attempt' = [c \in Calls |-> 0] /\ card' = [c \in Calls |-> NoCard]
        /\ fails' = [t \in Targets |-> 0] /\ opened' = [t \in Targets |-> Closed]
        /\ before' = [c \in Calls |-> content]
        /\ UNCHANGED <<content, now, requests>>
    BY <1>7 DEF Restart
  <2>2. "sidecar_unavailable" \in FailureTypes
    BY DEF FailureTypes
  <2>3. session' \in 0 .. MaxRestarts /\ (card = [d \in Calls |-> card[d]])'
    BY <1>1, <2>1
  <2>4. attempt' \in [Calls -> 0 .. MaxRetries + 1]
    BY <1>1, <2>1
  <2>5. before' \in [Calls -> Contents]
    BY <1>1, <2>1
  <2> QED BY <1>2, <2>1, <2>2, <2>3, <2>4, <2>5
<1> QED BY <1>3, <1>4, <1>5, <1>6, <1>7 DEF Next, Step

-----------------------------------------------------------------------------
(* What holds of every behaviour.                                          *)

LEMMA InitialInvariant == Init => IInv
<1> SUFFICES ASSUME Init PROVE IInv
  OBVIOUS
<1>1. StateOK
  <2>1. content \in Contents
    BY ServerAssumption DEF Init, Contents
  <2> QED BY <2>1, ServerAssumption DEF Init, StateOK
<1>2. Sound(log) /\ DOMAIN log = {}
  BY EmptyPending DEF Init, Pending
<1>3. LedgerInv
  BY NoEntries DEF Init, LedgerInv
<1>4. \A c \in Calls : CallInv(c)
  BY DEF Init, CallInv
<1>5. unwritten = {}
  BY DEF Init
<1> QED BY <1>1, <1>2, <1>3, <1>4, <1>5 DEF IInv, Histories, LogInv

LEMMA StepsKeep ==
  ASSUME StateOK, Histories, Next PROVE Histories' /\ (Grown \/ Restart)
<1>1. ASSUME NEW c \in Calls, CallStep(c) PROVE Histories' /\ Grown
  <2>1. CASE SidecarRefuses(c)
    BY <2>1, SidecarRefusesKeeps
  <2>2. CASE BadRequest(c)
    BY <2>2, BadRequestKeeps
  <2>3. CASE Begin(c) \/ Seed(c) \/ Replay(c)
    BY <2>3, FirstAttemptKeeps
  <2>4. CASE Complete(c)
    BY <2>4, CompleteKeeps
  <2>5. ASSUME NEW failure \in FailureTypes, FailAttempt(c, failure) PROVE Histories' /\ Grown
    BY <2>5, FailAttemptKeeps
  <2>6. CASE Retry(c)
    BY <2>6, RetryKeeps
  <2>7. CASE GiveUp(c)
    BY <2>7, GiveUpKeeps
  <2>8. CASE ClientGivesUp(c)
    <3>1. UNCHANGED <<log, ledger, unwritten, history, pc, attempt, card>>
      BY <2>8 DEF ClientGivesUp
    <3>2. \A d \in Calls : told'[d] # told[d] =>
            pc[d] \in {"executing", "failed"} /\ told'[d] = "sidecar_unavailable"
      BY <2>8 DEF ClientGivesUp, StateOK
    <3> QED BY <3>1, <3>2, SilentKeeps
  <2>9. CASE ToolWrites(c)
    <3>1. UNCHANGED <<log, ledger, unwritten, history, pc, attempt, card, told>>
      BY <2>9 DEF ToolWrites, callVars
    <3> QED BY <3>1, SilentKeeps
  <2> QED BY <1>1, <2>1, <2>2, <2>3, <2>4, <2>5, <2>6, <2>7, <2>8, <2>9 DEF CallStep
<1>2. ASSUME NEW t \in Tasks, TaskStep(t) PROVE Histories' /\ Grown
  BY <1>2, TaskStepKeeps
<1>3. ASSUME NEW f \in Forwarded, Ingest(f) PROVE Histories' /\ Grown
  BY <1>3, IngestKeeps
<1>4. CASE Generate \/ ExportBundle
  BY <1>4, MakingKeeps
<1>5. CASE Tick
  <2>1. UNCHANGED <<log, ledger, unwritten, history, pc, attempt, card, told>>
    BY <1>5 DEF Tick, callVars
  <2> QED BY <2>1, SilentKeeps
<1>6. CASE Restart
  BY <1>6, RestartKeeps
<1>7. CASE Write
  BY <1>7, WriteKeeps
<1> QED BY <1>1, <1>2, <1>3, <1>4, <1>5, <1>6, <1>7 DEF Next, Step

LEMMA InvariantKept == IInv /\ [Next]_vars => IInv'
<1> SUFFICES ASSUME IInv, [Next]_vars PROVE IInv'
  OBVIOUS
<1>1. StateOK /\ Histories
  BY DEF IInv
<1>2. CASE UNCHANGED vars
  BY <1>2 DEF vars, IInv, StateOK, Histories, LogInv, LedgerInv, CallInv
<1>3. CASE Next
  BY <1>1, <1>3, TypesKept, StepsKeep DEF IInv, Histories
<1> QED BY <1>2, <1>3

LEMMA Invariance == Spec => []IInv
BY InitialInvariant, InvariantKept, PTL DEF Spec

\* Every variable has its type, and log and ledger hold only what is known.
THEOREM CoreTypesCorrect == Spec => []TypeOK
<1>1. IInv => TypeOK
  <2> SUFFICES ASSUME IInv PROVE TypeOK
    OBVIOUS
  <2>1. \A i \in DOMAIN log : log[i].call \in AllCalls \cup {NoCall}
    BY DEF IInv, Histories, LogInv, Sound
  <2>2. \A k \in DOMAIN ledger : ledger[k].call \in AllCalls /\ ledger[k].effect \in EffectStates
    BY DEF IInv, Histories, LedgerInv, Supported, Backed, Own, AllCalls
  <2>3. unwritten \subseteq { log[i] : i \in DOMAIN log }
    BY DEF IInv, Histories, LogInv
  <2> QED BY <2>1, <2>2, <2>3 DEF IInv, StateOK, TypeOK, Contents
<1> QED BY <1>1, Invariance, PTL

\* What a client was told of its call is what the log says of it last, however
\* often the call was retried, whatever other calls, tasks and runs appended
\* meanwhile and whenever the core was restarted.
THEOREM ClientsAreTold == Spec => []ClientTold
<1>1. IInv => ClientTold
  <2> SUFFICES ASSUME IInv, NEW c \in Calls,
                      VerdictsOn(log, c) # {}, told[c] \notin {"waiting", "sidecar_unavailable"}
               PROVE  Says(log[Max(VerdictsOn(log, c))], told[c])
    <3>1. ASSUME NEW c \in Calls
          PROVE  VerdictsOn(log, c) = { i \in DOMAIN log : log[i].call = c /\ log[i].type \in Terminal }
      BY DEF VerdictsOn, Verdicts
    <3> QED BY <3>1 DEF ClientTold, Says
  <2>1. CallInv(c) /\ pc[c] \in {"idle", "executing", "failed", "done"} /\ IsSeq(log)
    BY DEF IInv, Histories, StateOK, LogInv, Sound
  <2>2. Concludes(log, c, told[c])
    BY <2>1 DEF CallInv
  <2>3. PICK k \in VerdictsOn(log, c) :
          (\A j \in VerdictsOn(log, c) : j <= k) /\ Says(log[k], told[c])
    BY <2>2 DEF Concludes
  <2>4. VerdictsOn(log, c) \subseteq Nat
    <3>1. DOMAIN log = 1 .. Len(log)
      BY <2>1, Concatenated
    <3> QED BY <3>1 DEF VerdictsOn, Verdicts
  <2>5. Max(VerdictsOn(log, c)) = k
    BY <2>3, <2>4 DEF Max
  <2> QED BY <2>3, <2>5
<1> QED BY <1>1, Invariance, PTL

\* Once what was emitted is written, and where requests came one at a time, a
\* restart costs no route its claim: every event the matrix counts is in the
\* history, so that what the new process reads is what the old one merged.
THEOREM ClaimsSurviveRestart == Spec => ClaimSurvivesRestart
<1> DEFINE Kept == session' # session /\ serial /\ unwritten = {} =>
              \A route \in Routes :
                Claim(CoverageRow(Merge(history', log'), route, now))
                  = Claim(CoverageRow(Merge(history, log), route, now))
<1>1. ASSUME IInv, [Next]_vars PROVE [Kept]_vars
  <2>1. CASE session' = session
    BY <2>1
  <2>2. CASE session' # session /\ unwritten = {}
    <3>1. Restart
      <4>1. Next
        BY <1>1, <2>2 DEF vars
      <4>2. ASSUME NEW c \in Calls, CallStep(c) PROVE FALSE
        BY <2>2, <4>2 DEF CallStep, SidecarRefuses, BadRequest, Begin, Seed, Replay, Complete,
             FailAttempt, Retry, GiveUp, ClientGivesUp, ToolWrites
      <4>3. ASSUME NEW t \in Tasks, TaskStep(t) PROVE FALSE
        BY <2>2, <4>3 DEF TaskStep, Import, Simulate, Verify, Quiet
      <4>4. ASSUME Generate \/ ExportBundle \/ Write \/ Tick \/ \E f \in Forwarded : Ingest(f) PROVE FALSE
        BY <2>2, <4>4 DEF Generate, ExportBundle, Write, Tick, Ingest, Quiet
      <4> QED BY <4>1, <4>2, <4>3, <4>4 DEF Next, Step
    <3>2. log' = <<>> /\ history' = history
      BY <2>2, <3>1 DEF Restart
    <3>3. ToSet(log') = {}
      BY <3>2 DEF ToSet
    <3>4. \A e \in ToSet(log) : IsCoverageEvent(e) => e \in history
      BY <1>1, <2>2 DEF ToSet, IInv, Histories, LogInv
    <3>5. Merge(history', log') = Merge(history, log)
      BY <3>2, <3>3, <3>4 DEF Merge
    <3> QED BY <3>5
  <2>3. CASE unwritten # {}
    BY <2>3
  <2> QED BY <2>1, <2>2, <2>3
<1> QED BY <1>1, Invariance, PTL DEF Spec, ClaimSurvivesRestart

-----------------------------------------------------------------------------
(* The graph.                                                              *)

\* A set of places has a last one.
LEMMA LastPlace ==
  ASSUME NEW N \in Nat, NEW T, T \subseteq 0 .. N, T # {}
  PROVE  \E m \in T : \A k \in T : k <= m
<1> DEFINE Left == { N - k : k \in T }
<1>1. Left \subseteq Nat /\ Left # {}
  <2>1. \A k \in T : k \in 0 .. N
    OBVIOUS
  <2>2. \A k \in T : N - k \in Nat
    BY <2>1
  <2> QED BY <2>2
<1>2. PICK x \in Left : \A y \in Left : ~(<<y, x>> \in OpToRel(<, Nat))
  BY <1>1, NatLessThanWellFounded, WFMin
<1>3. \A y \in Left : ~(y < x)
  BY <1>1, <1>2 DEF OpToRel
<1>4. PICK m \in T : x = N - m
  BY <1>2
<1>5. ASSUME NEW k \in T PROVE k <= m
  <2>1. N - k \in Left /\ k \in Int /\ m \in Int
    BY <1>4
  <2> HIDE DEF Left
  <2>2. ~(N - k < N - m)
    BY <1>3, <1>4, <2>1
  <2> QED BY <2>1, <2>2
<1> QED BY <1>5

LEMMA MaxOfPlaces ==
  ASSUME NEW N \in Nat, NEW T, T \subseteq 0 .. N, T # {}
  PROVE  Max(T) \in T
<1>1. PICK m \in T : \A k \in T : k <= m
  BY LastPlace
<1>2. \A k \in T : m >= k
  BY <1>1
<1> QED BY <1>2 DEF Max

\* Both ends of an edge an event draws are nodes of it or of an earlier event
\* of its call, or the artifact that it cites.
LEMMA EdgesOfEvents ==
  ASSUME IInv, NEW i \in SourceEvents(log)
  PROVE  Ends(EventEdges(log, i)) \subseteq Nodes(log, ledger)
<1> DEFINE e == log[i]
           c == e.call
           x == ContextOf(e)
           a == AttemptNode(c, e.attempt)
           all == Nodes(log, ledger)
<1>1. IsSeq(log) /\ Sound(log) /\ i \in DOMAIN log
  BY DEF IInv, Histories, LogInv, Sound, SourceEvents
<1>2. DOMAIN log = 1 .. Len(log) /\ Len(log) \in Nat
  BY <1>1, Concatenated
<1>3. \A j \in SourceEvents(log) : EventNodes(log, j) \subseteq all
  BY DEF Nodes
<1>4. e.type \in OwnTypes => c \in Own /\ c # NoCall /\ e.copied = FALSE
  BY <1>1, EventAssumption DEF Sound, Own, AllCalls
<1>5. e.type = "output.sanitized" => e.type \in OwnTypes
  BY DEF OwnTypes
<1>6. \A j \in DOMAIN log : log[j].call \in Own /\ log[j].type = "evidence.artifact.created"
                            => j \in SourceEvents(log)
  BY EventAssumption DEF SourceEvents, RunOf, Own, AllCalls
<1>7. x # NoCall => /\ RunNode("harness", x) \in all /\ RunNode("adapter", x) \in all
                   /\ \A k \in ContextKinds(e) : RunNode(k, x) \in all
  <2>1. x # NoCall => { RunNode(k, x) : k \in ContextKinds(e) } \subseteq all
    BY <1>3 DEF EventNodes
  <2>2. {"harness", "adapter"} \subseteq ContextKinds(e)
    BY DEF ContextKinds
  <2> QED BY <2>1, <2>2
<1>8. c # NoCall => ToolNode(c) \in all /\ a \in all /\ RunNode("server", c) \in all
  <2>1. c # NoCall => ToolNode(c) \in all /\ a \in all
    BY <1>3 DEF EventNodes
  <2>2. c # NoCall => x = c /\ "server" \in ContextKinds(e)
    BY DEF ContextOf, ContextKinds
  <2> QED BY <1>7, <2>1, <2>2
<1>9. Decides(e) => c # NoCall /\ PolicyNode(c, e.attempt) \in all
  <2>1. Decides(e) => c # NoCall
    BY <1>4 DEF Decides, OwnTypes
  <2>2. Decides(e) => PolicyNode(c, e.attempt) \in all
    BY <1>3 DEF EventNodes
  <2> QED BY <2>1, <2>2
<1>10. Stops(e) => Decides(e)
  BY <1>4 DEF Stops, Decides, OwnTypes
<1>11. e.type = "evidence.artifact.created"
         => c # NoCall /\ ArtifactNode(c, e.attempt, e.data.kind) \in all
  <2>1. e.type = "evidence.artifact.created" => ArtifactNode(c, e.attempt, e.data.kind) \in all
    BY <1>3 DEF EventNodes
  <2> QED BY <1>4, <2>1 DEF OwnTypes
<1>12. e.type = "output.sanitized"
         => c # NoCall /\ ArtifactNode(c, e.attempt, "raw-result") \in all
  <2>1. SUFFICES ASSUME e.type = "output.sanitized"
                 PROVE  ArtifactNode(c, e.attempt, "raw-result") \in all
    BY <1>4, <1>5
  <2>2. PICK j \in DOMAIN log :
          /\ log[j].type = "evidence.artifact.created" /\ log[j].call = c
          /\ log[j].attempt = e.attempt /\ log[j].data.kind = "raw-result"
    BY <1>1, <2>1 DEF Sound, Shows
  <2>3. j \in SourceEvents(log)
    BY <1>4, <1>5, <1>6, <2>1, <2>2
  <2>4. ArtifactNode(c, e.attempt, "raw-result") \in EventNodes(log, j)
    BY <2>2 DEF EventNodes
  <2> QED BY <1>3, <2>3, <2>4
<1>13. e.type = "tool.retry.scheduled"
         => c # NoCall /\ \A n \in Previous(log, i) : AttemptNode(c, n) \in all
  <2>1. SUFFICES ASSUME e.type = "tool.retry.scheduled", NEW n \in Previous(log, i)
                 PROVE  AttemptNode(c, n) \in all
    BY <1>4 DEF OwnTypes
  <2> DEFINE earlier == { j \in SourceEvents(log) : j < i /\ log[j].call = log[i].call }
  <2>2. earlier # {} /\ n = log[Max(earlier)].attempt
    BY DEF Previous
  <2>3. earlier \subseteq 0 .. Len(log)
    BY <1>2 DEF SourceEvents
  <2>4. Max(earlier) \in earlier
    BY <1>2, <2>2, <2>3, MaxOfPlaces
  <2>5. PICK j \in SourceEvents(log) : log[j].call = c /\ n = log[j].attempt
    BY <2>2, <2>4
  <2>6. c # NoCall
    BY <1>4, <2>1 DEF OwnTypes
  <2>7. AttemptNode(c, n) \in EventNodes(log, j)
    BY <2>5, <2>6 DEF EventNodes
  <2> QED BY <1>3, <2>5, <2>7
<1>14. e.type \in Circuits => c # NoCall /\ CircuitNode(c) \in all
  <2>1. e.type \in Circuits => CircuitNode(c) \in all
    BY <1>3 DEF EventNodes
  <2> QED BY <1>4, <2>1 DEF OwnTypes
<1>15. ASSUME NEW edge \in EventEdges(log, i) PROVE edge[2] \in all /\ edge[3] \in all
  <2> HIDE DEF all, x
  <2>1. CASE /\ x # NoCall
             /\ \/ edge = <<"routed", RunNode("harness", x), RunNode("adapter", x)>>
                \/ \E k \in ContextKinds(e) : edge = <<"routed", RunNode("adapter", x), RunNode(k, x)>>
    BY <1>7, <2>1
  <2>2. CASE /\ c # NoCall
             /\ \/ edge = <<"routed", RunNode("server", c), ToolNode(c)>>
                \/ edge = <<"routed", ToolNode(c), a>>
    BY <1>8, <2>2
  <2>3. CASE Decides(e) /\ edge = <<"caused-by", a, PolicyNode(c, e.attempt)>>
    BY <1>8, <1>9, <2>3
  <2>4. CASE Stops(e) /\ edge = <<"blocked-by", a, PolicyNode(c, e.attempt)>>
    BY <1>8, <1>9, <1>10, <2>4
  <2>5. CASE /\ e.type = "evidence.artifact.created"
             /\ edge = <<"produced", a, ArtifactNode(c, e.attempt, e.data.kind)>>
    BY <1>8, <1>11, <2>5
  <2>6. CASE /\ e.type = "output.sanitized"
             /\ edge = <<"sanitized-to", a, ArtifactNode(c, e.attempt, "raw-result")>>
    BY <1>8, <1>12, <2>6
  <2>7. CASE /\ e.type = "tool.retry.scheduled"
             /\ \E n \in Previous(log, i) : edge = <<"retried-as", AttemptNode(c, n), a>>
    BY <1>8, <1>13, <2>7
  <2>8. CASE e.type \in Circuits /\ edge = <<"caused-by", CircuitNode(c), a>>
    BY <1>8, <1>14, <2>8
  <2> QED BY <1>15, <2>1, <2>2, <2>3, <2>4, <2>5, <2>6, <2>7, <2>8 DEF EventEdges, x
<1> QED BY <1>15 DEF Ends

\* An entry's attempt and what it shows are nodes of events of its call.
LEMMA EdgesOfEntries ==
  ASSUME IInv, NEW k \in SourceLedger(log, ledger)
  PROVE  Ends(LedgerEdges(ledger, k)) \subseteq Nodes(log, ledger)
<1> DEFINE entry == ledger[k]
           c == entry.call
           all == Nodes(log, ledger)
<1>1. Backed(entry, log)
  BY DEF IInv, Histories, LedgerInv, Supported, SourceLedger
<1>2. c \in Own /\ c # NoCall /\ RequestOf[c].run = "own"
  BY <1>1, EventAssumption DEF Backed, Own, AllCalls
<1>3. \A j \in SourceEvents(log) : EventNodes(log, j) \subseteq all
  BY DEF Nodes
<1>4. EffectNode(k) \in all
  BY DEF Nodes
<1>5. AttemptNode(c, entry.attempt) \in all
  <2>1. PICK j \in DOMAIN log :
          /\ log[j].type \notin {"topology.generated", "narrative.generated"}
          /\ log[j].call = c /\ log[j].attempt = entry.attempt
    BY <1>1 DEF Backed, Mentions
  <2>2. j \in SourceEvents(log)
    BY <1>2, <2>1 DEF SourceEvents, RunOf
  <2>3. AttemptNode(c, entry.attempt) \in EventNodes(log, j)
    BY <1>2, <2>1 DEF EventNodes
  <2> QED BY <1>3, <2>2, <2>3
<1>6. ASSUME NEW x \in entry.artifacts PROVE ArtifactNode(c, x[1], x[2]) \in all
  <2>1. PICK j \in DOMAIN log :
          /\ log[j].type = "evidence.artifact.created" /\ log[j].call = c
          /\ log[j].attempt = x[1] /\ log[j].data.kind = x[2]
    BY <1>1 DEF Backed, Shows
  <2>2. j \in SourceEvents(log)
    BY <1>2, <2>1 DEF SourceEvents, RunOf
  <2>3. ArtifactNode(c, x[1], x[2]) \in EventNodes(log, j)
    BY <2>1 DEF EventNodes
  <2> QED BY <1>3, <2>2, <2>3
<1>7. ASSUME NEW edge \in LedgerEdges(ledger, k) PROVE edge[2] \in all /\ edge[3] \in all
  <2> HIDE DEF all
  <2>1. \/ edge = <<"caused-by", EffectNode(k), AttemptNode(c, entry.attempt)>>
        \/ \E x \in entry.artifacts : edge = <<"produced", EffectNode(k), ArtifactNode(c, x[1], x[2])>>
    BY <1>7 DEF LedgerEdges
  <2> QED BY <1>4, <1>5, <1>6, <2>1
<1> QED BY <1>7 DEF Ends

\* The graph of a run is closed, whatever its calls did and in which order, and
\* whoever forwarded events into it: every event of an attempt puts the attempt
\* into the graph, and an artifact is announced before anything refers to it.
THEOREM GraphsAreClosed == Spec => []GraphClosed
<1>1. ASSUME IInv PROVE GraphClosed
  <2>1. \A i \in SourceEvents(log) : Ends(EventEdges(log, i)) \subseteq Nodes(log, ledger)
    BY <1>1, EdgesOfEvents
  <2>2. \A k \in SourceLedger(log, ledger) : Ends(LedgerEdges(ledger, k)) \subseteq Nodes(log, ledger)
    BY <1>1, EdgesOfEntries
  <2>3. ASSUME NEW e \in Edges(log, ledger)
        PROVE  e[2] \in Nodes(log, ledger) /\ e[3] \in Nodes(log, ledger)
    <3>1. \/ \E i \in SourceEvents(log) : e \in EventEdges(log, i)
          \/ \E k \in SourceLedger(log, ledger) : e \in LedgerEdges(ledger, k)
      BY <2>3 DEF Edges
    <3> QED BY <2>1, <2>2, <3>1 DEF Ends
  <2> QED BY <2>3 DEF GraphClosed, Ends
<1> QED BY <1>1, Invariance, PTL

-----------------------------------------------------------------------------
(* What a step enters in the ledger.                                       *)

New == DOMAIN ledger' \ DOMAIN ledger

LEMMA NewEntries ==
  ASSUME IsSeq(ledger), NEW entries, IsSeq(entries), Record(entries), NEW k \in New
  PROVE  \E j \in DOMAIN entries : ledger'[k] = entries[j]
BY Concatenated DEF Record, New

LEMMA NewEntry ==
  ASSUME IsSeq(ledger), NEW x, Record(<<x>>), NEW k \in New
  PROVE  ledger'[k] = x
<1>1. PICK j \in DOMAIN <<x>> : ledger'[k] = <<x>>[j]
  BY SequencesOf, NewEntries
<1>2. DOMAIN <<x>> = {1} /\ <<x>>[1] = x
  OBVIOUS
<1> QED BY <1>1, <1>2

LEMMA FailureEntryOf ==
  ASSUME NEW c, NEW n, NEW failure, NEW impact
  PROVE  \E x : /\ FailureEntry(c, n, failure, impact) = <<x>> /\ x.call = c
               /\ x.effect = EffectState(RequestOf[c], IF failure \in Blocked THEN "blocked" ELSE "failed",
                                         failure, impact)
<1> DEFINE outcome == IF failure \in Blocked THEN "blocked" ELSE "failed"
           loop == CardOf(c, failure).loop
           links == FailureLinks(n, failure)
           x == LedgerEntry(c, n, outcome, failure, impact, loop, links)
<1>1. FailureEntry(c, n, failure, impact) = <<x>>
  BY DEF FailureEntry
<1> HIDE DEF outcome, loop, links
<1>2. x.call = c /\ x.effect = EffectState(RequestOf[c], outcome, failure, impact)
  BY EntryFields
<1> HIDE DEF x
<1> QED BY <1>1, <1>2 DEF outcome

\* What an attempt that begins enters is its own.
LEMMA AttemptEntries ==
  ASSUME IsSeq(ledger), NEW c, NEW n, NEW events, NEW entries, IsSeq(entries),
         \A j \in DOMAIN entries : entries[j].call = c,
         Attempt(c, n, events, entries), NEW k \in New
  PROVE  ledger'[k].call = c
<1> DEFINE failure == Containment(Verdict(c))
           impact == Impact(RequestOf[c], content, content)
           blocked == FailureEntry(c, n, failure, impact)
<1>1. Record(entries) \/ Record(entries \o blocked)
  BY DEF Attempt
<1>2. CASE Record(entries)
  BY <1>2, NewEntries
<1>3. CASE Record(entries \o blocked)
  <2> HIDE DEF failure, impact
  <2>1. PICK x : blocked = <<x>> /\ x.call = c
    BY FailureEntryOf
  <2> HIDE DEF blocked
  <2>2. IsSeq(blocked) /\ \A j \in DOMAIN blocked : blocked[j].call = c
    <3>1. DOMAIN <<x>> = {1} /\ <<x>>[1] = x
      OBVIOUS
    <3> QED BY <2>1, <3>1, SequencesOf
  <2>3. IsSeq(entries \o blocked)
    BY <2>2, Concatenated
  <2>4. PICK j \in DOMAIN (entries \o blocked) : ledger'[k] = (entries \o blocked)[j]
    BY <1>3, <2>3, NewEntries
  <2>5. CASE j \in DOMAIN entries
    BY <2>2, <2>4, <2>5, Concatenated
  <2>6. CASE j \notin DOMAIN entries
    <3>1. j - Len(entries) \in DOMAIN blocked /\ (entries \o blocked)[j] = blocked[j - Len(entries)]
      BY <2>2, <2>6, Concatenated
    <3> QED BY <2>2, <2>4, <3>1
  <2> QED BY <2>5, <2>6
<1> QED BY <1>1, <1>2, <1>3

\* An effect that a deadline left unknown is cleared only where nothing changed
\* that the look covers.
LEMMA ClearedUnchanged ==
  ASSUME NEW r, r.workspace = "temp", NEW was, NEW is,
         EffectState(r, "failed", "timeout", Impact(r, was, is)) = "none"
  PROVE  was.covered = is.covered
<1>1. InferEffect(r, "failed", "timeout") = "unknown"
  BY DEF InferEffect, Containments
<1>2. ImpactOutcome(Impact(r, was, is), "unknown") = "none"
  BY <1>1 DEF EffectState
<1>3. ASSUME was.covered # is.covered PROVE Impact(r, was, is).changed
  <2>1. Look(r, was) # Look(r, is)
    BY <1>3 DEF Look
  <2> QED BY <2>1 DEF Impact
<1>4. ~Impact(r, was, is).changed
  <2> DEFINE impact == Impact(r, was, is)
  <2>1. ImpactOutcome(impact, "unknown") = "none"
    BY <1>2
  <2> HIDE DEF impact
  <2>2. ~impact.changed
    BY <2>1 DEF ImpactOutcome
  <2> QED BY <2>2 DEF impact
<1> QED BY <1>3, <1>4

\* A completed call's effect is never none.
LEMMA CompletedHasEffect ==
  ASSUME NEW r, NEW impact PROVE EffectState(r, "completed", "none", impact) # "none"
<1>1. InferEffect(r, "completed", "none") \in {"simulated", "completed"}
  BY DEF InferEffect, Containments
<1> QED BY <1>1 DEF EffectState

\* What is entered of a call that executes is entered when its tool answers or
\* fails.
LEMMA EntriesOfExecuting ==
  ASSUME IInv, Next, NEW k \in New, NEW c \in Calls, ledger'[k].call = c, pc[c] = "executing"
  PROVE  Complete(c) \/ \E failure \in FailureTypes : FailAttempt(c, failure)
<1>1. IsSeq(ledger)
  BY DEF IInv, Histories, LedgerInv, Supported
<1>2. ledger' # ledger
  BY DEF New
<1>3. ASSUME NEW d \in Calls, CallStep(d)
      PROVE  \/ Complete(c) \/ \E failure \in FailureTypes : FailAttempt(c, failure)
  <2>1. CASE Complete(d)
    <3> DEFINE impact == Impact(RequestOf[d], before[d], content)
               x == LedgerEntry(d, attempt[d], "completed", "none", impact, "none",
                                {<<attempt[d], "raw-result">>})
    <3>1. Record(<<x>>)
      BY <2>1 DEF Complete, SuccessEntry
    <3>2. x.call = d
      BY EntryFields
    <3> HIDE DEF x
    <3>3. d = c
      BY <1>1, <3>1, <3>2, NewEntry
    <3> QED BY <2>1, <3>3
  <2>2. ASSUME NEW failure \in FailureTypes, FailAttempt(d, failure) PROVE FailAttempt(c, failure)
    <3> DEFINE impact == IF failure \in UnsafeOutput THEN NoImpact
                         ELSE Impact(RequestOf[d], before[d], content)
    <3>1. Record(FailureEntry(d, attempt[d], failure, impact))
      BY <2>2 DEF FailAttempt
    <3> HIDE DEF impact
    <3>2. PICK x : FailureEntry(d, attempt[d], failure, impact) = <<x>> /\ x.call = d
      BY FailureEntryOf
    <3>3. d = c
      BY <1>1, <3>1, <3>2, NewEntry
    <3> QED BY <2>2, <3>3
  <2>3. CASE SidecarRefuses(d) \/ BadRequest(d)
    <3>1. PICK failure : Record(FailureEntry(d, 1, failure, NoImpact)) /\ pc[d] = "idle"
      BY <2>3 DEF SidecarRefuses, BadRequest, Arrives
    <3>2. PICK x : FailureEntry(d, 1, failure, NoImpact) = <<x>> /\ x.call = d
      BY FailureEntryOf
    <3>3. d = c
      BY <1>1, <3>1, <3>2, NewEntry
    <3> QED BY <3>1, <3>3
  <2>4. CASE Begin(d) \/ Seed(d) \/ Replay(d)
    <3>1. PICK events : Attempt(d, 1, events, <<>>) /\ pc[d] = "idle"
      BY <2>4 DEF Begin, Seed, Replay, Arrives
    <3>2. d = c
      BY <1>1, <3>1, SequencesOf, AttemptEntries
    <3> QED BY <3>1, <3>2
  <2>5. CASE Retry(d)
    <3> DEFINE n == attempt[d] + 1
               loop == LoopClass(card[d].repeated, TRUE)
               links == FailureLinks(attempt[d], card[d].failure)
               x == LedgerEntry(d, n, "retry", card[d].failure, NoImpact, loop, links)
    <3>1. pc[d] = "failed" /\ \E events : Attempt(d, n, events, <<x>>)
      BY <2>5 DEF Retry
    <3> HIDE DEF n, loop, links
    <3>2. x.call = d
      BY EntryFields
    <3> HIDE DEF x
    <3>3. IsSeq(<<x>>) /\ \A j \in DOMAIN <<x>> : <<x>>[j].call = d
      BY <3>2, SequencesOf
    <3>4. d = c
      BY <1>1, <3>1, <3>3, AttemptEntries
    <3> QED BY <3>1, <3>4
  <2>6. CASE GiveUp(d) \/ ClientGivesUp(d) \/ ToolWrites(d)
    BY <1>2, <2>6 DEF GiveUp, ClientGivesUp, ToolWrites
  <2> QED BY <1>3, <2>1, <2>2, <2>3, <2>4, <2>5, <2>6 DEF CallStep
<1>4. ASSUME NEW t \in Tasks, TaskStep(t) PROVE FALSE
  <2>1. Verify(t)
    BY <1>2, <1>4 DEF TaskStep, Import, Simulate
  <2> DEFINE p == RequestOf[t].probe
             x == LedgerEntry(p, 1, "completed", "none", NoImpact, "none", {<<1, "raw-result">>})
  <2>2. p \in Tasks \cup {NoCall} /\ Record(ProbeEntries(p))
    BY <2>1, ServerAssumption DEF Verify, Does
  <2>3. ProbeEntries(p) = <<x>> \/ ProbeEntries(p) = <<>>
    BY DEF ProbeEntries, SuccessEntry
  <2>4. x.call = p
    BY EntryFields
  <2> HIDE DEF x, p
  <2>5. CASE ProbeEntries(p) = <<>>
    <3>1. PICK j \in DOMAIN <<>> : ledger'[k] = <<>>[j]
      BY <1>1, <2>2, <2>5, SequencesOf, NewEntries
    <3> QED BY <3>1
  <2>6. CASE ProbeEntries(p) = <<x>>
    <3>1. c = p
      BY <1>1, <2>2, <2>4, <2>6, NewEntry
    <3> QED BY <2>2, <3>1, EventAssumption DEF AllCalls
  <2> QED BY <2>3, <2>5, <2>6
<1>5. ASSUME Generate \/ ExportBundle \/ Write \/ Tick \/ \E f \in Forwarded : Ingest(f) PROVE FALSE
  BY <1>2, <1>5 DEF Generate, ExportBundle, Write, Tick, Ingest
<1>6. ASSUME Restart PROVE FALSE
  BY <1>6 DEF Restart, New
<1> QED BY <1>3, <1>4, <1>5, <1>6 DEF Next, Step

\* The ledger says "none" of a call that passed its deadline in a temporary
\* directory only if nothing that is looked at there changed since the attempt
\* began, whichever tool wrote it and however the calls interleave.
THEOREM ClearedOnlyIfQuiet == Spec => ClearedWasQuiet
<1> DEFINE Cleared == \A k \in DOMAIN ledger' \ DOMAIN ledger :
              LET c == ledger'[k].call IN
              /\ c \in Calls /\ RequestOf[c].workspace = "temp"
              /\ pc[c] = "executing" /\ card'[c].failure = "timeout"
              /\ ledger'[k].effect = "none"
              => content.covered = before[c].covered
<1>1. ASSUME IInv, [Next]_vars PROVE [Cleared]_vars
  <2>1. SUFFICES ASSUME Next, NEW k \in New, NEW c \in Calls, ledger'[k].call = c,
                        RequestOf[c].workspace = "temp", pc[c] = "executing",
                        card'[c].failure = "timeout", ledger'[k].effect = "none"
                 PROVE  content.covered = before[c].covered
    BY <1>1 DEF New
  <2>2. IsSeq(ledger) /\ DOMAIN card = Calls
    BY <1>1 DEF IInv, Histories, LedgerInv, Supported, StateOK
  <2>3. CASE Complete(c)
    <3> DEFINE impact == Impact(RequestOf[c], before[c], content)
               x == LedgerEntry(c, attempt[c], "completed", "none", impact, "none",
                                {<<attempt[c], "raw-result">>})
    <3>1. Record(<<x>>)
      BY <2>3 DEF Complete, SuccessEntry
    <3> HIDE DEF impact
    <3>2. x.effect = EffectState(RequestOf[c], "completed", "none", impact)
      BY EntryFields
    <3>3. x.effect # "none"
      BY <3>2, CompletedHasEffect
    <3> HIDE DEF x
    <3> QED BY <2>1, <2>2, <3>1, <3>3, NewEntry
  <2>4. ASSUME NEW failure \in FailureTypes, FailAttempt(c, failure)
        PROVE  content.covered = before[c].covered
    <3>1. card'[c].failure = failure
      BY <2>2, <2>4 DEF FailAttempt, Carded, CardOf
    <3>2. failure = "timeout"
      BY <2>1, <3>1
    <3> DEFINE impact == Impact(RequestOf[c], before[c], content)
    <3>3. Record(FailureEntry(c, attempt[c], "timeout", impact))
      BY <2>4, <3>2 DEF FailAttempt, UnsafeOutput
    <3> HIDE DEF impact
    <3>4. PICK x : /\ FailureEntry(c, attempt[c], "timeout", impact) = <<x>>
                   /\ x.effect = EffectState(RequestOf[c], IF "timeout" \in Blocked THEN "blocked" ELSE "failed",
                                             "timeout", impact)
      BY FailureEntryOf
    <3>5. x.effect = "none"
      BY <2>1, <2>2, <3>3, <3>4, NewEntry
    <3>6. EffectState(RequestOf[c], "failed", "timeout", impact) = "none"
      BY <3>4, <3>5 DEF Blocked
    <3> QED BY <2>1, <3>6, ClearedUnchanged DEF impact
  <2>5. Complete(c) \/ \E failure \in FailureTypes : FailAttempt(c, failure)
    BY <1>1, <2>1, EntriesOfExecuting
  <2> QED BY <2>3, <2>4, <2>5
<1> QED BY <1>1, Invariance, PTL DEF Spec, ClearedWasQuiet

-----------------------------------------------------------------------------
(* The severity of a group.                                                *)

LEMMA SeveralIn ==
  ASSUME NEW S, IsFiniteSet(S)
  PROVE  Cardinality(S) > 1 <=> \E a, b \in S : a # b
<1>1. ASSUME NEW a \in S, NEW b \in S, a # b PROVE Cardinality(S) > 1
  <2>1. IsFiniteSet({a}) /\ Cardinality({a}) = 1
    BY FS_Singleton
  <2>2. IsFiniteSet({a} \cup {b}) /\ Cardinality({a} \cup {b}) = 2
    <3>1. b \notin {a}
      BY <1>1
    <3>2. Cardinality({a} \cup {b}) = Cardinality({a}) + 1 /\ IsFiniteSet({a} \cup {b})
      BY <2>1, <3>1, FS_AddElement
    <3> QED BY <2>1, <3>2
  <2>3. Cardinality({a} \cup {b}) <= Cardinality(S) /\ Cardinality(S) \in Nat
    BY <1>1, FS_Subset, FS_CardinalityType
  <2> QED BY <2>2, <2>3
<1>2. ASSUME \A a, b \in S : a = b PROVE ~(Cardinality(S) > 1)
  <2>1. CASE S = {}
    BY <2>1, FS_EmptySet
  <2>2. CASE S # {}
    <3>1. PICK a \in S : S = {a}
      BY <1>2, <2>2
    <3> QED BY <3>1, FS_Singleton
  <2> QED BY <2>1, <2>2
<1> QED BY <1>1, <1>2

\* The card a group shows is that of one of its occurrences.
LEMMA LastIsMember ==
  ASSUME NEW l, IsSeq(l), \A i \in DOMAIN l : l[i].at \in 0 .. MaxNow,
         NEW g, Members(l, g) # {}
  PROVE  LastMember(l, g) \in Members(l, g)
<1> DEFINE M == Members(l, g)
           Times == { l[i].at : i \in M }
<1>1. Len(l) \in Nat /\ DOMAIN l = 1 .. Len(l)
  BY Concatenated
<1>2. M \subseteq DOMAIN l
  BY DEF Members, Failures, Of
<1>3. Times \subseteq 0 .. MaxNow /\ Times # {}
  BY <1>2
<1> HIDE DEF M
<1>4. PICK t \in Times : \A u \in Times : u <= t
  <2> HIDE DEF Times
  <2> QED BY <1>3, ServerAssumption, LastPlace
<1> DEFINE Latest == { i \in M : l[i].at = t }
<1>5. Latest \subseteq 0 .. Len(l) /\ Latest # {}
  BY <1>1, <1>2, <1>4
<1>6. PICK i \in Latest : \A j \in Latest : j <= i
  <2> HIDE DEF Latest
  <2> QED BY <1>1, <1>5, LastPlace
<1>7. \A j \in M : l[j].at < l[i].at \/ (l[j].at = l[i].at /\ j <= i)
  <2> TAKE j \in M
  <2>1. l[j].at \in Nat /\ t \in Nat /\ l[j].at <= t /\ l[i].at = t
    BY <1>2, <1>3, <1>4, <1>6, ServerAssumption
  <2>2. CASE l[j].at = t
    BY <1>6, <2>1, <2>2
  <2> QED BY <2>1, <2>2
<1> QED BY <1>6, <1>7 DEF LastMember, M

LEMMA MembersGrow ==
  ASSUME Grown, NEW g
  PROVE  /\ \A i \in Members(log, g) : i \in Members(log', g) /\ log'[i] = log[i]
         /\ \A k \in RelatedLedger(log, ledger, g) :
              k \in RelatedLedger(log', ledger', g) /\ ledger'[k] = ledger[k]
<1>1. \A i \in Members(log, g) : i \in Members(log', g) /\ log'[i] = log[i]
  BY DEF Grown, Members, Failures, Of, Fingerprint
<1> QED BY <1>1 DEF Grown, RelatedLedger

LEMMA MembersFinite ==
  ASSUME NEW l, IsSeq(l), NEW g PROVE IsFiniteSet(Members(l, g))
<1>1. Len(l) \in Nat /\ DOMAIN l = 1 .. Len(l)
  BY Concatenated
<1>2. Members(l, g) \subseteq 1 .. Len(l)
  BY <1>1 DEF Members, Failures, Of
<1>3. IsFiniteSet(1 .. Len(l))
  BY <1>1, FS_Interval
<1> QED BY <1>2, <1>3, FS_Subset

\* What raises the score.
Points(cond, n) == IF cond THEN n ELSE 0
Insistent(l, g) ==
  \/ l[LastMember(l, g)].data.loop = "loop-detected"
  \/ l[LastMember(l, g)].data.repeated > 1
  \/ Cardinality(Members(l, g)) > 1
Doubtful(l, led, g) == \E k \in RelatedLedger(l, led, g) : Suspect(led[k])

LEMMA ScoreOf ==
  ASSUME NEW l, NEW led, NEW g
  PROVE  SeverityScore(l, led, g) =
           Points(l[LastMember(l, g)].data.failure \in {"destructive_action_blocked", "policy_blocked"}, 4)
           + Points(l[LastMember(l, g)].data.failure = "secret_leak_risk", 4)
           + Points(Insistent(l, g), 3)
           + Points(Doubtful(l, led, g), 3)
           + Points(l[LastMember(l, g)].data.failure \in DoNotRetrySameCall, 1)
BY DEF SeverityScore, Points, Insistent, Doubtful

LEMMA PointsGrow ==
  ASSUME NEW C, NEW D, C => D, NEW n \in Nat
  PROVE  Points(C, n) \in Nat /\ Points(D, n) \in Nat /\ Points(C, n) <= Points(D, n)
BY DEF Points

LEMMA ScoreGrows ==
  ASSUME IInv, LogInv', Grown, NEW g \in Groups(log)
  PROVE  SeverityScore(log', ledger', g) >= SeverityScore(log, ledger, g)
<1> DEFINE m == LastMember(log, g)
           n == LastMember(log', g)
<1>1. /\ IsSeq(log) /\ IsSeq(log')
      /\ \A i \in DOMAIN log : log[i].at \in 0 .. MaxNow
      /\ \A i \in DOMAIN log' : log'[i].at \in 0 .. MaxNow
  BY DEF IInv, Histories, LogInv, Sound
<1>2. m \in Members(log, g)
  <2>1. Members(log, g) # {}
    BY DEF Groups, Members
  <2> QED BY <1>1, <2>1, LastIsMember
<1>3. m \in Members(log', g) /\ log'[m] = log[m]
  BY <1>2, MembersGrow
<1>4. n \in Members(log', g)
  BY <1>1, <1>3, LastIsMember
<1>5. log[m].data.failure = g[2] /\ log'[n].data.failure = g[2]
  BY <1>2, <1>4 DEF Members, Fingerprint
<1>6. Insistent(log, g) => Insistent(log', g)
  <2>1. IsFiniteSet(Members(log, g)) /\ IsFiniteSet(Members(log', g))
    BY <1>1, MembersFinite
  <2>2. Cardinality(Members(log, g)) > 1 => Cardinality(Members(log', g)) > 1
    BY <2>1, SeveralIn, MembersGrow
  <2>3. n # m => Cardinality(Members(log', g)) > 1
    BY <1>3, <1>4, <2>1, SeveralIn
  <2> QED BY <1>3, <2>2, <2>3 DEF Insistent
<1>7. Doubtful(log, ledger, g) => Doubtful(log', ledger', g)
  BY MembersGrow DEF Doubtful
<1>8. SeverityScore(log, ledger, g) =
        Points(g[2] \in {"destructive_action_blocked", "policy_blocked"}, 4)
        + Points(g[2] = "secret_leak_risk", 4) + Points(Insistent(log, g), 3)
        + Points(Doubtful(log, ledger, g), 3) + Points(g[2] \in DoNotRetrySameCall, 1)
  BY <1>5, ScoreOf
<1>9. SeverityScore(log', ledger', g) =
        Points(g[2] \in {"destructive_action_blocked", "policy_blocked"}, 4)
        + Points(g[2] = "secret_leak_risk", 4) + Points(Insistent(log', g), 3)
        + Points(Doubtful(log', ledger', g), 3) + Points(g[2] \in DoNotRetrySameCall, 1)
  BY <1>5, ScoreOf
<1>10. /\ Points(Insistent(log, g), 3) \in Nat /\ Points(Insistent(log', g), 3) \in Nat
       /\ Points(Insistent(log, g), 3) <= Points(Insistent(log', g), 3)
  BY <1>6, PointsGrow
<1>11. /\ Points(Doubtful(log, ledger, g), 3) \in Nat /\ Points(Doubtful(log', ledger', g), 3) \in Nat
       /\ Points(Doubtful(log, ledger, g), 3) <= Points(Doubtful(log', ledger', g), 3)
  BY <1>7, PointsGrow
<1>12. /\ Points(g[2] \in {"destructive_action_blocked", "policy_blocked"}, 4) \in Nat
       /\ Points(g[2] = "secret_leak_risk", 4) \in Nat
       /\ Points(g[2] \in DoNotRetrySameCall, 1) \in Nat
  BY DEF Points
<1> QED BY <1>8, <1>9, <1>10, <1>11, <1>12

\* While a session lasts no group of failures is ever rated lower than before:
\* the failures of a group and the rows of their calls only become more, and
\* what the card shown says is the group's type or is outweighed by a second
\* occurrence.
THEOREM SeverityIsKept == Spec => SeverityNeverDrops
<1> DEFINE Kept == session' = session =>
              \A g \in Groups(log) :
                SeverityScore(log', ledger', g) >= SeverityScore(log, ledger, g)
<1>1. ASSUME IInv, IInv', [Next]_vars PROVE [Kept]_vars
  <2>1. CASE session' # session
    BY <2>1
  <2>2. ASSUME Next, session' = session PROVE Kept
    <3>1. ~Restart
      BY <1>1, <2>2 DEF Restart, IInv, StateOK
    <3>2. Grown /\ LogInv'
      BY <1>1, <2>2, <3>1, StepsKeep DEF IInv, Histories
    <3> QED BY <1>1, <3>2, ScoreGrows
  <2> QED BY <1>1, <2>1, <2>2
<1> QED BY <1>1, Invariance, PTL DEF Spec, SeverityNeverDrops
-----------------------------------------------------------------------------
(* Counter-evidence.                                                       *)

\* What an entry says of a call in a temporary directory holds: it denies a
\* mutation only if nothing that is looked at changed since the attempt began.
Honest(x) ==
  x.call \in Calls /\ RequestOf[x.call].workspace = "temp" /\ x.unmutated =>
    content.covered = before'[x.call].covered
HonestAll(entries) == IsSeq(entries) /\ \A j \in DOMAIN entries : Honest(entries[j])

\* An entry of an attempt that was not looked at, or looked at from its
\* beginning to now.
LEMMA LookedAt ==
  ASSUME NEW c, NEW n, NEW outcome, NEW failure, NEW impact, NEW loop, NEW artifacts,
         impact = NoImpact \/ (c \in Calls => impact = Impact(RequestOf[c], before'[c], content))
  PROVE  HonestAll(<<LedgerEntry(c, n, outcome, failure, impact, loop, artifacts)>>)
<1> DEFINE x == LedgerEntry(c, n, outcome, failure, impact, loop, artifacts)
<1>1. x.call = c
  BY EntryFields
<1>2. x.unmutated => impact.seen /\ ~impact.changed
  BY DEF LedgerEntry
<1> HIDE DEF x
<1>3. Honest(x)
  <2> SUFFICES ASSUME c \in Calls, RequestOf[c].workspace = "temp", x.unmutated
               PROVE  content.covered = before'[c].covered
    BY <1>1 DEF Honest
  <2>1. impact.seen /\ ~impact.changed
    BY <1>2
  <2>2. impact # NoImpact
    BY <2>1 DEF NoImpact
  <2>3. ~Impact(RequestOf[c], before'[c], content).changed
    BY <2>1, <2>2
  <2>4. Look(RequestOf[c], before'[c]) = Look(RequestOf[c], content)
    BY <2>3 DEF Impact
  <2> QED BY <2>4 DEF Look
<1>4. DOMAIN <<x>> = {1} /\ <<x>>[1] = x
  OBVIOUS
<1>5. HonestAll(<<x>>)
  BY <1>3, <1>4, SequencesOf DEF HonestAll
<1> QED BY <1>5 DEF x

LEMMA HonestJoined ==
  ASSUME NEW a, NEW b, HonestAll(a), HonestAll(b)
  PROVE  HonestAll(a \o b)
<1> SUFFICES ASSUME NEW j \in DOMAIN (a \o b) PROVE Honest((a \o b)[j])
  BY Concatenated DEF HonestAll
<1>1. CASE j \in DOMAIN a
  BY <1>1, Concatenated DEF HonestAll
<1>2. CASE j \notin DOMAIN a
  <2>1. j - Len(a) \in DOMAIN b /\ (a \o b)[j] = b[j - Len(a)]
    BY <1>2, Concatenated DEF HonestAll
  <2> QED BY <2>1 DEF HonestAll
<1> QED BY <1>1, <1>2

LEMMA FailureLookedAt ==
  ASSUME NEW c, NEW n, NEW failure, NEW impact,
         impact = NoImpact \/ (c \in Calls => impact = Impact(RequestOf[c], before'[c], content))
  PROVE  HonestAll(FailureEntry(c, n, failure, impact))
<1> DEFINE outcome == IF failure \in Blocked THEN "blocked" ELSE "failed"
           loop == CardOf(c, failure).loop
           links == FailureLinks(n, failure)
<1>1. FailureEntry(c, n, failure, impact)
        = <<LedgerEntry(c, n, outcome, failure, impact, loop, links)>>
  BY DEF FailureEntry
<1> HIDE DEF outcome, loop, links
<1> QED BY <1>1, LookedAt

\* What an attempt enters that begins, or is contained as it begins.
LEMMA AttemptHonest ==
  ASSUME StateOK, NEW c \in Calls, NEW n, NEW events, NEW entries, HonestAll(entries),
         Attempt(c, n, events, entries)
  PROVE  \E es : HonestAll(es) /\ Record(es)
<1> DEFINE failure == Containment(Verdict(c))
           impact == Impact(RequestOf[c], content, content)
<1>1. Record(entries) \/ Record(entries \o FailureEntry(c, n, failure, impact))
  BY DEF Attempt
<1>2. before'[c] = content
  BY DEF Attempt, StateOK
<1>3. impact = Impact(RequestOf[c], before'[c], content)
  BY <1>2
<1> HIDE DEF failure, impact
<1>4. HonestAll(FailureEntry(c, n, failure, impact))
  BY <1>3, FailureLookedAt
<1> QED BY <1>1, <1>4, HonestJoined

\* Whatever a step enters in the ledger is honest.
LEMMA StepsHonest ==
  ASSUME IInv, Next
  PROVE  \/ New = {}
         \/ \E es : HonestAll(es) /\ Record(es)
<1>1. StateOK
  BY DEF IInv
<1>e. HonestAll(<<>>)
  BY SequencesOf DEF HonestAll
<1>2. ASSUME NEW c \in Calls, CallStep(c)
      PROVE  New = {} \/ \E es : HonestAll(es) /\ Record(es)
  <2>1. CASE SidecarRefuses(c) \/ BadRequest(c)
    <3>1. PICK failure : Record(FailureEntry(c, 1, failure, NoImpact))
      BY <2>1 DEF SidecarRefuses, BadRequest
    <3> QED BY <3>1, FailureLookedAt
  <2>2. CASE Begin(c) \/ Seed(c) \/ Replay(c)
    <3>1. PICK events : Attempt(c, 1, events, <<>>)
      BY <2>2 DEF Begin, Seed, Replay
    <3> QED BY <1>1, <1>e, <3>1, AttemptHonest
  <2>3. CASE Complete(c)
    <3> DEFINE impact == Impact(RequestOf[c], before[c], content)
               es == <<LedgerEntry(c, attempt[c], "completed", "none", impact, "none",
                                   {<<attempt[c], "raw-result">>})>>
    <3>1. Record(es) /\ before' = before
      BY <2>3 DEF Complete, SuccessEntry
    <3>2. impact = Impact(RequestOf[c], before'[c], content)
      BY <3>1
    <3> HIDE DEF impact
    <3>3. HonestAll(es)
      BY <3>2, LookedAt
    <3> QED BY <3>1, <3>3
  <2>4. ASSUME NEW failure \in FailureTypes, FailAttempt(c, failure)
        PROVE  \E es : HonestAll(es) /\ Record(es)
    <3> DEFINE impact == IF failure \in UnsafeOutput THEN NoImpact
                         ELSE Impact(RequestOf[c], before[c], content)
    <3>1. Record(FailureEntry(c, attempt[c], failure, impact)) /\ before' = before
      BY <2>4 DEF FailAttempt
    <3>2. impact = NoImpact \/ impact = Impact(RequestOf[c], before'[c], content)
      BY <3>1
    <3> HIDE DEF impact
    <3>3. HonestAll(FailureEntry(c, attempt[c], failure, impact))
      BY <3>2, FailureLookedAt
    <3> QED BY <3>1, <3>3
  <2>5. CASE Retry(c)
    <3> DEFINE n == attempt[c] + 1
               loop == LoopClass(card[c].repeated, TRUE)
               links == FailureLinks(attempt[c], card[c].failure)
               es == <<LedgerEntry(c, n, "retry", card[c].failure, NoImpact, loop, links)>>
    <3>1. PICK events : Attempt(c, n, events, es)
      BY <2>5 DEF Retry
    <3> HIDE DEF n, loop, links
    <3>2. HonestAll(es)
      BY LookedAt
    <3> HIDE DEF es
    <3> QED BY <1>1, <3>1, <3>2, AttemptHonest
  <2>6. CASE GiveUp(c) \/ ClientGivesUp(c) \/ ToolWrites(c)
    BY <2>6 DEF GiveUp, ClientGivesUp, ToolWrites, New
  <2> QED BY <1>2, <2>1, <2>2, <2>3, <2>4, <2>5, <2>6 DEF CallStep
<1>3. ASSUME NEW t \in Tasks, TaskStep(t)
      PROVE  New = {} \/ \E es : HonestAll(es) /\ Record(es)
  <2>1. CASE Import(t) \/ Simulate(t)
    BY <2>1 DEF Import, Simulate, New
  <2>2. CASE Verify(t)
    <3> DEFINE p == RequestOf[t].probe
               es == <<LedgerEntry(p, 1, "completed", "none", NoImpact, "none", {<<1, "raw-result">>})>>
    <3>1. Record(ProbeEntries(p))
      BY <2>2 DEF Verify
    <3>2. ProbeEntries(p) = es \/ ProbeEntries(p) = <<>>
      BY DEF ProbeEntries, SuccessEntry
    <3> HIDE DEF p
    <3>3. HonestAll(es)
      BY LookedAt
    <3> QED BY <1>e, <3>1, <3>2, <3>3
  <2> QED BY <1>3, <2>1, <2>2 DEF TaskStep
<1>4. ASSUME Generate \/ ExportBundle \/ Write \/ Tick \/ \E f \in Forwarded : Ingest(f) PROVE New = {}
  BY <1>4 DEF Generate, ExportBundle, Write, Tick, Ingest, New
<1>5. ASSUME Restart PROVE New = {}
  BY <1>5 DEF Restart, New
<1> QED BY <1>2, <1>3, <1>4, <1>5 DEF Next, Step

\* Where a directory is looked at file by file, counter-evidence against a
\* mutation can be relied on for what the look covers: whatever the call's
\* outcome and whatever other tools write meanwhile, an entry that denies a
\* mutation was made while every file that is looked at was what it was when
\* the attempt began.  Of the files the look passes over, and of directories
\* that are not temporary, this is not true: CounterEvidenceHolds is violated.
THEOREM WatchedCounterEvidence ==
  Spec => [][\A k \in DOMAIN ledger' \ DOMAIN ledger :
               LET c == ledger'[k].call IN
               c \in Calls /\ RequestOf[c].workspace = "temp" /\ ledger'[k].unmutated
               => content.covered = before'[c].covered]_vars
<1> DEFINE Denied == \A k \in DOMAIN ledger' \ DOMAIN ledger :
               LET c == ledger'[k].call IN
               c \in Calls /\ RequestOf[c].workspace = "temp" /\ ledger'[k].unmutated
               => content.covered = before'[c].covered
<1>1. ASSUME IInv, [Next]_vars PROVE [Denied]_vars
  <2>1. SUFFICES ASSUME Next, NEW k \in New PROVE Honest(ledger'[k])
    BY <1>1 DEF New, Honest
  <2>2. IsSeq(ledger)
    BY <1>1 DEF IInv, Histories, LedgerInv, Supported
  <2>3. PICK es : HonestAll(es) /\ Record(es)
    BY <1>1, <2>1, StepsHonest
  <2>4. PICK j \in DOMAIN es : ledger'[k] = es[j]
    BY <2>1, <2>2, <2>3, NewEntries DEF HonestAll
  <2> QED BY <2>3, <2>4 DEF HonestAll
<1> QED BY <1>1, Invariance, PTL DEF Spec
===============================================================================
