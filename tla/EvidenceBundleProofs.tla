------------------------- MODULE EvidenceBundleProofs -------------------------
(***************************************************************************)
(* Theorems about EvidenceBundle for every set of calls, of contents and of *)
(* exports: what an export nobody disturbs leaves behind, and what a bundle *)
(* that calls itself safe holds.                                           *)
(***************************************************************************)
EXTENDS EvidenceBundle, TLAPS

AllCalls == Calls \cup Forwarded
BundleNames == BundleFiles \cup {"manifest"}
Hash == {Missing} \cup { <<x>> : x \in Contents }
LogEntry == Types \X (AllCalls \cup {Nobody}) \X Hash \X Texts

\* TypeOK with the sets its proof needs: what a log entry is, and that log and
\* ledger are sequences.
StateOK ==
  /\ log \in Seq(LogEntry)
  /\ ledger \in Seq(Calls)
  /\ artifact \in [AllCalls -> Hash]
  /\ stage \in [AllCalls -> {"idle", "written", "cited"}]
  /\ attempts \in 0 .. MaxAttempts
  /\ DOMAIN bundle = BundleNames
  /\ pc \in [Exports -> Steps]
  /\ safe \in [Exports -> BOOLEAN]
  /\ sound \in [Exports -> BOOLEAN]
  /\ answer \in [Exports -> BOOLEAN]
  /\ faults \in 0 .. MaxFaults
  /\ owner \in Exports \cup {Nobody}
  /\ alone \in [Exports -> BOOLEAN]
  /\ overlap \in BOOLEAN

-----------------------------------------------------------------------------
(* What holds while an export goes on that nobody disturbs.                *)

\* The stages after the ledger is copied, the artifacts, the decision.
Copied == {"evidence", "replay", "events", "hash", "validate"}
Gathered == {"replay", "events", "hash", "validate"}
Decided == {"events", "hash", "validate"}

\* Every cited file holds what its event says.
Intact == \A i \in Artifacts : artifact[log[i][2]] = log[i][3]

\* Every copy of a cited file is what the event says.
CopiesIntact ==
  \A p \in bundle["evidence"][1] : p[1] \in Artifacts => p[2] = log[p[1]][3]

\* What an undisturbed export has done so far.
Progress(e) ==
  /\ pc[e] = "check" => manifest[1].listed = Artifacts
  /\ pc[e] \in {"views", "evidence"} /\ sound[e] => Intact
  /\ pc[e] \in Copied => owner = e /\ bundle["ledger"] = <<ledger>>
  /\ pc[e] \in Gathered /\ sound[e] => CopiesIntact
  /\ pc[e] \in Decided => /\ bundle["repro"] = <<Routes(ledger)>>
                          /\ safe[e] => bundle["instructions"] # Missing
  /\ pc[e] \in {"hash", "validate"} => bundle["validation"] = <<TRUE>>
  /\ pc[e] = "validate" =>
       bundle["manifest"] = <<[hashes |-> HashFiles(bundle), safe |-> safe[e]]>>

\* Who has not written to the bundle does not own it.
NotYetOwner == \A e \in Exports : pc[e] \in {"idle", "check", "views"} => owner # e

\* A copy is named for an event there already is.
CopiesArePast == \A p \in bundle["evidence"][1] : p[1] \in DOMAIN log

QuietInv ==
  /\ \A e \in Exports : alone[e] => Progress(e)
  /\ NotYetOwner /\ CopiesArePast
  /\ QuietExportValid /\ CopiesMatchEvents

-----------------------------------------------------------------------------
(* What holds as long as exports do not overlap.                           *)

AllSafe(entries) == \A i \in DOMAIN entries : IsReplaySafe(EntryOf[entries[i]])

OneAtATime == \A e, f \in Running : e = f

\* The ledger in the bundle is what the ledger was when it was copied.
CopyIsPast ==
  \A i \in DOMAIN bundle["ledger"][1] :
    i \in DOMAIN ledger /\ bundle["ledger"][1][i] = ledger[i]

OrderInv ==
  ~overlap =>
    /\ OneAtATime
    /\ \A e \in Exports : pc[e] \in Copied => CopyIsPast
    /\ \A e \in Exports : pc[e] \in Decided /\ safe[e] => AllSafe(bundle["ledger"][1])
    /\ bundle["manifest"] # Missing /\ bundle["manifest"][1].safe =>
         AllSafe(bundle["manifest"][1].hashes["ledger"][1])

-----------------------------------------------------------------------------
(* Types.                                                                  *)

LEMMA InitTypes == Init => StateOK
<1> SUFFICES ASSUME Init PROVE StateOK
  OBVIOUS
<1>1. log \in Seq(LogEntry) /\ ledger \in Seq(Calls)
  BY DEF Init
<1>2. artifact \in [AllCalls -> Hash]
  BY DEF Init, AllCalls, Hash
<1>3. DOMAIN bundle = BundleNames
  BY DEF Init, BundleNames
<1>4. attempts \in 0 .. MaxAttempts /\ faults \in 0 .. MaxFaults
  BY BundleAssumption DEF Init
<1>5. pc \in [Exports -> Steps]
  BY DEF Init, Steps
<1> QED BY <1>1, <1>2, <1>3, <1>4, <1>5 DEF Init, StateOK, AllCalls

\* Appending keeps what there is.
LEMMA Appended ==
  ASSUME NEW S, NEW s \in Seq(S), NEW x \in S
  PROVE  /\ Append(s, x) \in Seq(S) /\ DOMAIN Append(s, x) = DOMAIN s \cup {Len(s) + 1}
         /\ Len(s) + 1 \notin DOMAIN s
         /\ \A i \in DOMAIN s : Append(s, x)[i] = s[i]
         /\ Append(s, x)[Len(s) + 1] = x
OBVIOUS

\* What the session and the exports append to the log are entries.
LEMMA EntriesAreTyped ==
  ASSUME NEW c \in AllCalls, NEW h \in Hash, NEW text \in TextsOf[c]
  PROVE  /\ <<"artifact", c, h, text>> \in LogEntry
         /\ <<"effect", c, Missing, text>> \in LogEntry
<1>1. text \in Texts
  BY BundleAssumption DEF AllCalls
<1> QED BY <1>1 DEF LogEntry, Types, Hash

LEMMA NextTypes == StateOK /\ [Next]_vars => StateOK'
<1> SUFFICES ASSUME StateOK, [Next]_vars PROVE StateOK'
  OBVIOUS
<1> USE DEF StateOK
<1>0. \A self : Disturb(self) => alone' \in [Exports -> BOOLEAN]
  BY DEF Disturb
<1>s. SessionStep => /\ alone' \in [Exports -> BOOLEAN] /\ DOMAIN bundle' = BundleNames
                     /\ UNCHANGED <<pc, safe, sound, answer, faults, owner, overlap>>
  BY <1>0 DEF SessionStep, jobVars
<1>a. ASSUME NEW e \in Exports, NEW from, NEW to \in Steps, At(e, from, to)
      PROVE  /\ alone' \in [Exports -> BOOLEAN] /\ pc' \in [Exports -> Steps]
             /\ UNCHANGED <<ledger, artifact, stage, attempts, faults>>
  BY <1>a, <1>0 DEF At
<1>e. /\ <<"report.exported", Nobody, Missing, "plain">> \in LogEntry
      /\ <<"bundle.exported", Nobody, Missing, "plain">> \in LogEntry
  BY DEF LogEntry, Types, Hash, Texts
<1>1. ASSUME NEW c \in Calls, NEW x \in Contents, WriteArtifact(c, x) PROVE StateOK'
  <2>1. artifact' \in [AllCalls -> Hash] /\ attempts' \in 0 .. MaxAttempts
    BY <1>1, BundleAssumption DEF WriteArtifact, AllCalls, Hash
  <2>2. stage' \in [AllCalls -> {"idle", "written", "cited"}]
    BY <1>1 DEF WriteArtifact
  <2> QED BY <1>1, <1>s, <2>1, <2>2 DEF WriteArtifact
<1>2. ASSUME NEW c \in Calls, CiteArtifact(c) PROVE StateOK'
  <2>1. log' \in Seq(LogEntry)
    <3>1. c \in AllCalls /\ artifact[c] \in Hash
      BY DEF AllCalls
    <3>2. <<"artifact", c, artifact[c], "plain">> \in LogEntry
      BY <3>1 DEF LogEntry, Types, Texts
    <3> QED BY <1>2, <3>2, Appended DEF CiteArtifact
  <2>2. stage' \in [AllCalls -> {"idle", "written", "cited"}]
    BY <1>2 DEF CiteArtifact
  <2> QED BY <1>2, <1>s, <2>1, <2>2 DEF CiteArtifact
<1>3. ASSUME NEW c \in Calls, NEW text \in TextsOf[c], RecordEffect(c, text) PROVE StateOK'
  <2>1. log' \in Seq(LogEntry)
    <3>1. c \in AllCalls /\ Missing \in Hash
      BY DEF AllCalls, Hash
    <3> QED BY <1>3, <3>1, EntriesAreTyped, Appended DEF RecordEffect
  <2>2. stage' \in [AllCalls -> {"idle", "written", "cited"}]
    BY <1>3 DEF RecordEffect
  <2>3. ledger' \in Seq(Calls)
    BY <1>3, Appended DEF RecordEffect
  <2> QED BY <1>3, <1>s, <2>1, <2>2, <2>3 DEF RecordEffect
<1>4. ASSUME NEW c \in Forwarded, NEW x \in Contents, NEW text \in TextsOf[c],
             Ingest(c, x, text)
      PROVE  StateOK'
  <2>1. log' \in Seq(LogEntry)
    <3>1. c \in AllCalls /\ <<x>> \in Hash
      BY DEF AllCalls, Hash
    <3> QED BY <1>4, <3>1, EntriesAreTyped, Appended DEF Ingest
  <2>2. attempts' \in 0 .. MaxAttempts
    BY <1>4, BundleAssumption DEF Ingest
  <2> QED BY <1>4, <1>s, <2>1, <2>2 DEF Ingest
<1>5. ASSUME NEW e \in Exports, WriteReport(e) PROVE StateOK'
  <2>1. log' \in Seq(LogEntry)
    BY <1>5, <1>e, Appended DEF WriteReport
  <2>2. overlap' \in BOOLEAN /\ UNCHANGED <<bundle, safe, sound, answer, owner>>
    BY <1>5 DEF WriteReport, jobVars
  <2>3. At(e, "idle", "check") /\ "check" \in Steps
    BY <1>5 DEF WriteReport, Steps
  <2> QED BY <1>a, <2>1, <2>2, <2>3
<1>6. ASSUME NEW e \in Exports, CheckReport(e) PROVE StateOK'
  <2>1. PICK to \in {"views", "done"} : At(e, "check", to)
    BY <1>6 DEF CheckReport
  <2>2. ReportValid(manifest) \in BOOLEAN
    BY DEF ReportValid
  <2>3. sound' \in [Exports -> BOOLEAN]
    BY <1>6, <2>2 DEF CheckReport
  <2>4. UNCHANGED <<log, bundle, safe, answer, owner, overlap>>
    BY <1>6 DEF CheckReport
  <2>5. to \in Steps
    BY DEF Steps
  <2> QED BY <1>a, <2>1, <2>3, <2>4, <2>5
<1>7. ASSUME NEW e \in Exports, CopyViews(e) PROVE StateOK'
  <2>1. PICK to \in {"evidence", "failed"} : At(e, "views", to)
    BY <1>7 DEF CopyViews
  <2>2. DOMAIN bundle' = BundleNames /\ owner' = e
    BY <1>7 DEF CopyViews, Write
  <2>3. UNCHANGED <<log, safe, sound, answer, overlap>>
    BY <1>7 DEF CopyViews, jobVars
  <2>4. to \in Steps
    BY DEF Steps
  <2> QED BY <1>a, <2>1, <2>2, <2>3, <2>4
<1>8. ASSUME NEW e \in Exports, CopyEvidence(e) PROVE StateOK'
  <2>1. At(e, "evidence", "replay") /\ "replay" \in Steps
    BY <1>8 DEF CopyEvidence, Steps
  <2>2. DOMAIN bundle' = BundleNames /\ owner' = e
    BY <1>8 DEF CopyEvidence, Write
  <2>3. UNCHANGED <<log, safe, sound, answer, overlap>>
    BY <1>8 DEF CopyEvidence, jobVars
  <2> QED BY <1>a, <2>1, <2>2, <2>3
<1>9. ASSUME NEW e \in Exports, CopyFails(e) PROVE StateOK'
  <2>1. At(e, "evidence", "failed") /\ "failed" \in Steps
    BY <1>9 DEF CopyFails, Steps
  <2>2. UNCHANGED <<log, bundle, safe, sound, answer, owner, overlap>>
    BY <1>9 DEF CopyFails, jobVars
  <2> QED BY <1>a, <2>1, <2>2
<1>10. ASSUME NEW e \in Exports, DecideReplay(e) PROVE StateOK'
  <2>1. At(e, "replay", "events") /\ "events" \in Steps
    BY <1>10 DEF DecideReplay, Steps
  <2>2. DOMAIN bundle' = BundleNames /\ owner' = e
    BY <1>10 DEF DecideReplay, Write
  <2>3. safe' \in [Exports -> BOOLEAN]
    <3>1. ReplayDecision \in BOOLEAN
      BY DEF ReplayDecision
    <3> QED BY <1>10, <3>1 DEF DecideReplay
  <2>4. UNCHANGED <<log, sound, answer, overlap>>
    BY <1>10 DEF DecideReplay
  <2> QED BY <1>a, <2>1, <2>2, <2>3, <2>4
<1>11. ASSUME NEW e \in Exports, CopyEvents(e) PROVE StateOK'
  <2>1. At(e, "events", "hash") /\ "hash" \in Steps
    BY <1>11 DEF CopyEvents, Steps
  <2>2. DOMAIN bundle' = BundleNames /\ owner' = e
    BY <1>11 DEF CopyEvents, Write
  <2>3. log' \in Seq(LogEntry)
    BY <1>11, <1>e, Appended DEF CopyEvents
  <2>4. UNCHANGED <<safe, sound, answer, overlap>>
    BY <1>11 DEF CopyEvents, jobVars
  <2> QED BY <1>a, <2>1, <2>2, <2>3, <2>4
<1>12. ASSUME NEW e \in Exports, WriteManifest(e) PROVE StateOK'
  <2>1. At(e, "hash", "validate") /\ "validate" \in Steps
    BY <1>12 DEF WriteManifest, Steps
  <2>2. DOMAIN bundle' = BundleNames /\ owner' = e
    BY <1>12 DEF WriteManifest, Write
  <2>3. UNCHANGED <<log, safe, sound, answer, overlap>>
    BY <1>12 DEF WriteManifest, jobVars
  <2> QED BY <1>a, <2>1, <2>2, <2>3
<1>13. ASSUME NEW e \in Exports, Validate(e) PROVE StateOK'
  <2>1. At(e, "validate", "done") /\ "done" \in Steps
    BY <1>13 DEF Validate, Steps
  <2>2. DOMAIN bundle' = BundleNames /\ owner' = e
    BY <1>13 DEF Validate, Write
  <2>3. answer' \in [Exports -> BOOLEAN]
    <3>1. Valid(bundle) \in BOOLEAN
      BY DEF Valid
    <3> QED BY <1>13, <3>1 DEF Validate
  <2>4. UNCHANGED <<log, safe, sound, overlap>>
    BY <1>13 DEF Validate
  <2> QED BY <1>a, <2>1, <2>2, <2>3, <2>4
<1>14. ASSUME NEW e \in Exports, Fault(e) PROVE StateOK'
  <2>1. pc' \in [Exports -> Steps] /\ faults' \in 0 .. MaxFaults
    BY <1>14, BundleAssumption DEF Fault, Steps
  <2>2. alone' \in [Exports -> BOOLEAN]
    BY <1>14, <1>0 DEF Fault
  <2>3. UNCHANGED <<log, ledger, artifact, stage, attempts, bundle, safe, sound, answer,
                    owner, overlap>>
    BY <1>14 DEF Fault, recordVars, jobVars
  <2> QED BY <2>1, <2>2, <2>3
<1>15. CASE UNCHANGED vars
  BY <1>15 DEF vars, recordVars, jobVars, historyVars
<1> QED BY <1>1, <1>2, <1>3, <1>4, <1>5, <1>6, <1>7, <1>8, <1>9, <1>10, <1>11, <1>12,
           <1>13, <1>14, <1>15 DEF Next, Record, Export

\* Every variable of an export and of the session it reads stays in its set.
THEOREM BundleTypeCorrect == Spec => []TypeOK
<1>1. StateOK => TypeOK
  <2> SUFFICES ASSUME StateOK PROVE TypeOK
    OBVIOUS
  <2>1. \A i \in DOMAIN log : log[i][1] \in Types
    BY DEF StateOK, LogEntry
  <2>2. \A c \in Calls \cup Forwarded : Len(artifact[c]) <= 1
    <3> SUFFICES ASSUME NEW c \in Calls \cup Forwarded PROVE Len(artifact[c]) <= 1
      OBVIOUS
    <3>1. artifact[c] \in Hash
      BY DEF StateOK, AllCalls
    <3>2. CASE artifact[c] = <<>>
      BY <3>2
    <3>3. ASSUME NEW x, artifact[c] = <<x>> PROVE Len(artifact[c]) <= 1
      BY <3>3
    <3> QED BY <3>1, <3>2, <3>3 DEF Hash, Missing
  <2> QED BY <2>1, <2>2 DEF StateOK, TypeOK, AllCalls, BundleNames
<1>2. StateOK /\ [Next]_vars => StateOK'
  BY NextTypes
<1> QED BY <1>1, <1>2, InitTypes, PTL DEF Spec

-----------------------------------------------------------------------------
(* Quiet exports.                                                          *)

LogGrows == \A i \in DOMAIN log : i \in DOMAIN log' /\ log'[i] = log[i]

LEMMA LogIsAppended ==
  ASSUME StateOK, NEW x, log' = Append(log, x)
  PROVE  LogGrows
BY DEF StateOK, LogGrows

\* The events of exports cite no artifact.
LEMMA SameArtifacts ==
  ASSUME StateOK, NEW type, type # "artifact",
         log' = Append(log, <<type, Nobody, Missing, "plain">>)
  PROVE  Artifacts' = Artifacts
<1> DEFINE x == <<type, Nobody, Missing, "plain">>
<1>1. DOMAIN log' = DOMAIN log \cup {Len(log) + 1} /\ log'[Len(log) + 1] = x
  BY DEF StateOK
<1>2. LogGrows
  BY LogIsAppended
<1>3. x[1] = type
  OBVIOUS
<1> HIDE DEF x
<1> QED BY <1>1, <1>2, <1>3 DEF LogGrows, Artifacts

\* An export in whose turn another one steps is disturbed, or does not run.
LEMMA OthersRest ==
  ASSUME StateOK, NEW self, Disturb(self), NEW f \in Exports, f # self, alone'[f]
  PROVE  alone[f] /\ pc[f] \in {"idle", "done", "failed"}
<1>1. alone'[f] = (alone[f] /\ (f \in Running => f = self))
  BY DEF Disturb
<1> QED BY <1>1 DEF Running, StateOK

LEMMA SelfIsAlone ==
  ASSUME StateOK, NEW e \in Exports, Disturb(e)
  PROVE  alone'[e] <=> alone[e]
<1>1. alone'[e] = (alone[e] /\ (e \in Running => e = e))
  BY DEF Disturb
<1> QED BY <1>1 DEF StateOK

\* Nothing has to hold of an export that does not run.
LEMMA RestingProgress ==
  ASSUME NEW f \in Exports, pc'[f] \in {"idle", "done", "failed"}
  PROVE  Progress(f)'
BY DEF Progress, Copied, Gathered, Decided

\* The copies in the bundle remain what the events say while the log grows.
LEMMA CopiesStay ==
  ASSUME LogGrows, CopiesArePast, bundle'["evidence"] = bundle["evidence"], CopiesIntact
  PROVE  CopiesIntact'
<1> SUFFICES ASSUME NEW p \in bundle["evidence"][1], p[1] \in Artifacts'
             PROVE  p[2] = log'[p[1]][3]
  BY DEF CopiesIntact
<1>1. p[1] \in DOMAIN log /\ log'[p[1]] = log[p[1]]
  BY DEF CopiesArePast, LogGrows
<1>2. p[1] \in Artifacts
  BY <1>1 DEF Artifacts
<1> QED BY <1>1, <1>2 DEF CopiesIntact

LEMMA PastStays ==
  ASSUME LogGrows, CopiesArePast, bundle'["evidence"] = bundle["evidence"]
  PROVE  CopiesArePast'
BY DEF LogGrows, CopiesArePast

\* A step that leaves the bundle alone, of the session or of an export that is
\* not done thereby unless it never wrote.
LEMMA BundleUntouched ==
  ASSUME StateOK, QuietInv, NEW self, Disturb(self), LogGrows,
         bundle' = bundle, owner' = owner, answer' = answer,
         \A f \in Exports : f # self => pc'[f] = pc[f] /\ sound'[f] = sound[f],
         self \in Exports =>
           /\ alone[self] => Progress(self)'
           /\ owner = self => pc'[self] \notin {"idle", "check", "views", "done"}
  PROVE  QuietInv'
<1>1. \A f \in Exports : alone'[f] => Progress(f)'
  <2> SUFFICES ASSUME NEW f \in Exports, alone'[f] PROVE Progress(f)'
    OBVIOUS
  <2>1. CASE f = self
    BY <2>1, SelfIsAlone
  <2>2. CASE f # self
    BY <2>2, OthersRest, RestingProgress
  <2> QED BY <2>1, <2>2
<1>2. NotYetOwner'
  BY DEF QuietInv, NotYetOwner
<1>3. CopiesArePast'
  BY PastStays DEF QuietInv
<1>4. \A f \in Exports : Left(f)' /\ alone'[f] =>
        f # self /\ Left(f) /\ alone[f] /\ sound'[f] = sound[f]
  BY OthersRest DEF Left
<1>5. QuietExportValid'
  BY <1>4 DEF QuietInv, QuietExportValid
<1>6. CopiesMatchEvents'
  <2> SUFFICES ASSUME NEW f \in Exports, Left(f)', alone'[f], sound'[f] PROVE CopiesIntact'
    BY DEF CopiesMatchEvents, CopiesIntact
  <2>1. CopiesIntact
    BY <1>4 DEF QuietInv, CopiesMatchEvents, CopiesIntact
  <2> QED BY <2>1, CopiesStay DEF QuietInv
<1> QED BY <1>1, <1>2, <1>3, <1>5, <1>6 DEF QuietInv

\* A step of an export that writes to the bundle and goes on.
LEMMA BundleWritten ==
  ASSUME StateOK, QuietInv, NEW e \in Exports, NEW from,
         NEW to \in {"evidence", "replay", "events", "hash", "validate", "failed"},
         At(e, from, to), owner' = e, CopiesArePast', alone[e] => Progress(e)'
  PROVE  QuietInv'
<1>0. Disturb(e) /\ \A f \in Exports : pc'[f] = IF f = e THEN to ELSE pc[f]
  BY DEF At, StateOK
<1>1. \A f \in Exports : alone'[f] => Progress(f)'
  <2> SUFFICES ASSUME NEW f \in Exports, alone'[f] PROVE Progress(f)'
    OBVIOUS
  <2>1. CASE f = e
    BY <1>0, <2>1, SelfIsAlone
  <2>2. CASE f # e
    BY <1>0, <2>2, OthersRest, RestingProgress
  <2> QED BY <2>1, <2>2
<1>2. NotYetOwner'
  BY <1>0 DEF NotYetOwner
<1>3. \A f \in Exports : ~Left(f)'
  BY <1>0 DEF Left
<1>4. QuietExportValid' /\ CopiesMatchEvents'
  BY <1>3 DEF QuietExportValid, CopiesMatchEvents
<1> QED BY <1>1, <1>2, <1>4 DEF QuietInv

\* The session records, or takes in an event.
LEMMA SessionIsQuiet ==
  ASSUME StateOK, QuietInv,
         \/ \E c \in Calls : Record(c)
         \/ \E c \in Forwarded, x \in Contents : \E text \in TextsOf[c] : Ingest(c, x, text)
  PROVE  QuietInv'
<1>1. SessionStep /\ LogGrows
  <2>1. ASSUME NEW c, NEW x, WriteArtifact(c, x) PROVE SessionStep /\ LogGrows
    BY <2>1 DEF WriteArtifact, LogGrows
  <2>2. ASSUME NEW c, CiteArtifact(c) PROVE SessionStep /\ LogGrows
    BY <2>2, LogIsAppended DEF CiteArtifact
  <2>3. ASSUME NEW c, NEW text, RecordEffect(c, text) PROVE SessionStep /\ LogGrows
    BY <2>3, LogIsAppended DEF RecordEffect
  <2>4. ASSUME NEW c, NEW x, NEW text, Ingest(c, x, text) PROVE SessionStep /\ LogGrows
    BY <2>4, LogIsAppended DEF Ingest
  <2> QED BY <2>1, <2>2, <2>3, <2>4 DEF Record
<1>2. Disturb(Nobody) /\ Nobody \notin Exports
  BY <1>1, BundleAssumption DEF SessionStep
<1> QED BY <1>1, <1>2, BundleUntouched DEF SessionStep, jobVars

\* What At says of the step of an export.
LEMMA Turn ==
  ASSUME StateOK, NEW e \in Exports, NEW from, NEW to, At(e, from, to)
  PROVE  /\ Disturb(e) /\ pc[e] = from /\ pc'[e] = to
         /\ \A f \in Exports : f # e => pc'[f] = pc[f]
         /\ ledger' = ledger /\ artifact' = artifact
BY DEF At, StateOK

LEMMA WriteReportIsQuiet ==
  ASSUME StateOK, QuietInv, NEW e \in Exports, WriteReport(e)
  PROVE  QuietInv'
<1>1. /\ At(e, "idle", "check") /\ bundle' = bundle /\ owner' = owner
      /\ sound' = sound /\ answer' = answer
      /\ log' = Append(log, <<"report.exported", Nobody, Missing, "plain">>)
      /\ manifest' = <<[listed |-> Artifacts, ledger |-> ledger]>>
  BY DEF WriteReport, jobVars
<1>2. Progress(e)'
  <2>1. manifest'[1].listed = Artifacts' /\ pc'[e] = "check"
    BY <1>1, Turn, SameArtifacts
  <2> QED BY <2>1 DEF Progress, Copied, Gathered, Decided
<1>3. owner # e
  BY <1>1, Turn DEF QuietInv, NotYetOwner
<1> QED BY <1>1, <1>2, <1>3, Turn, LogIsAppended, BundleUntouched

LEMMA CheckReportIsQuiet ==
  ASSUME StateOK, QuietInv, NEW e \in Exports, CheckReport(e)
  PROVE  QuietInv'
<1>1. PICK to \in {"views", "done"} : At(e, "check", to)
  BY DEF CheckReport
<1>2. /\ sound' = [sound EXCEPT ![e] = ReportValid(manifest)]
      /\ bundle' = bundle /\ owner' = owner /\ answer' = answer /\ log' = log
  BY DEF CheckReport
<1>3. owner # e
  BY <1>1, Turn DEF QuietInv, NotYetOwner
<1>4. ASSUME alone[e] PROVE Progress(e)'
  <2>1. manifest[1].listed = Artifacts
    BY <1>1, <1>4, Turn DEF QuietInv, Progress
  <2>2. ASSUME sound'[e] PROVE Intact'
    <3>1. ReportValid(manifest)
      BY <1>2, <2>2 DEF StateOK
    <3>2. Intact
      BY <2>1, <3>1 DEF ReportValid, Intact
    <3>3. artifact' = artifact
      BY <1>1, Turn
    <3> QED BY <1>2, <3>2, <3>3 DEF Intact, Artifacts
  <2> QED BY <1>1, <2>2, Turn DEF Progress, Copied, Gathered, Decided
<1>5. \A f \in Exports : f # e => sound'[f] = sound[f]
  BY <1>2 DEF StateOK
<1>6. LogGrows
  BY <1>2 DEF LogGrows
<1> QED BY <1>1, <1>2, <1>3, <1>4, <1>5, <1>6, Turn, BundleUntouched

LEMMA CopyViewsIsQuiet ==
  ASSUME StateOK, QuietInv, NEW e \in Exports, CopyViews(e)
  PROVE  QuietInv'
<1>1. PICK to \in {"evidence", "failed"} : At(e, "views", to)
  BY DEF CopyViews
<1>2. /\ owner' = e /\ log' = log /\ sound' = sound
      /\ bundle'["ledger"] = <<ledger>> /\ bundle'["evidence"] = bundle["evidence"]
  BY DEF CopyViews, Write, jobVars, StateOK, BundleNames, BundleFiles
<1>3. ASSUME alone[e] PROVE Progress(e)'
  <2>1. CASE to = "failed"
    BY <1>1, <2>1, Turn, RestingProgress
  <2>2. CASE to = "evidence"
    <3>1. pc'[e] = "evidence" /\ ledger' = ledger
      BY <1>1, <2>2, Turn
    <3>2. sound[e] => Intact
      BY <1>1, <1>3, Turn DEF QuietInv, Progress
    <3>3. sound'[e] => Intact'
      BY <1>1, <1>2, <3>2, Turn DEF Intact, Artifacts
    <3> QED BY <1>2, <3>1, <3>3 DEF Progress, Copied, Gathered, Decided
  <2> QED BY <2>1, <2>2
<1>4. CopiesArePast'
  BY <1>2 DEF QuietInv, CopiesArePast
<1> QED BY <1>1, <1>2, <1>3, <1>4, BundleWritten

LEMMA CopyEvidenceIsQuiet ==
  ASSUME StateOK, QuietInv, NEW e \in Exports, CopyEvidence(e)
  PROVE  QuietInv'
<1> DEFINE copies == { <<i, artifact[log[i][2]]>> : i \in Artifacts }
           kept == { p \in bundle["evidence"][1] : p[1] \notin Artifacts }
<1>1. /\ At(e, "evidence", "replay") /\ owner' = e /\ log' = log /\ sound' = sound
      /\ bundle' = [bundle EXCEPT !["evidence"] = <<kept \cup copies>>]
  BY DEF CopyEvidence, Write, jobVars
<1>2. bundle'["evidence"][1] = kept \cup copies /\ bundle'["ledger"] = bundle["ledger"]
  BY <1>1 DEF StateOK, BundleNames, BundleFiles
<1>3. ASSUME alone[e] PROVE Progress(e)'
  <2>0. pc'[e] = "replay" /\ ledger' = ledger
    BY <1>1, Turn
  <2>1. (sound[e] => Intact) /\ bundle["ledger"] = <<ledger>>
    BY <1>1, <1>3, Turn DEF QuietInv, Progress, Copied
  <2>2. ASSUME sound'[e] PROVE CopiesIntact'
    <3>1. Intact
      BY <1>1, <2>1, <2>2
    <3>2. \A p \in kept \cup copies : p[1] \in Artifacts => p[2] = log[p[1]][3]
      BY <3>1 DEF Intact
    <3>3. Artifacts' = Artifacts
      BY <1>1 DEF Artifacts
    <3> HIDE DEF kept, copies
    <3> QED BY <1>1, <1>2, <3>2, <3>3 DEF CopiesIntact
  <2> QED BY <1>1, <2>0, <1>2, <2>1, <2>2 DEF Progress, Copied, Gathered, Decided
<1>4. CopiesArePast'
  <2>1. \A p \in kept \cup copies : p[1] \in DOMAIN log
    BY DEF QuietInv, CopiesArePast, Artifacts
  <2> HIDE DEF kept, copies
  <2> QED BY <1>1, <1>2, <2>1 DEF CopiesArePast
<1> QED BY <1>1, <1>3, <1>4, BundleWritten

LEMMA CopyFailsIsQuiet ==
  ASSUME StateOK, QuietInv, NEW e \in Exports, CopyFails(e)
  PROVE  QuietInv'
<1>1. /\ At(e, "evidence", "failed") /\ bundle' = bundle /\ owner' = owner /\ log' = log
      /\ sound' = sound /\ answer' = answer
  BY DEF CopyFails, jobVars
<1>2. LogGrows
  BY <1>1 DEF LogGrows
<1> QED BY <1>1, <1>2, Turn, RestingProgress, BundleUntouched

LEMMA DecideReplayIsQuiet ==
  ASSUME StateOK, QuietInv, NEW e \in Exports, DecideReplay(e)
  PROVE  QuietInv'
<1>1. /\ At(e, "replay", "events") /\ owner' = e /\ log' = log /\ sound' = sound
      /\ safe' = [safe EXCEPT ![e] = ReplayDecision]
      /\ bundle' = [bundle EXCEPT
           !["recipes"] = <<ReplayDecision>>,
           !["repro"] = <<Routes(ledger)>>,
           !["instructions"] = IF ReplayDecision THEN <<"steps">> ELSE @]
  BY DEF DecideReplay, Write
<1>2. /\ bundle'["evidence"] = bundle["evidence"] /\ bundle'["ledger"] = bundle["ledger"]
      /\ bundle'["repro"] = <<Routes(ledger)>>
      /\ ReplayDecision => bundle'["instructions"] = <<"steps">>
  BY <1>1 DEF StateOK, BundleNames, BundleFiles
<1>3. LogGrows
  BY <1>1 DEF LogGrows
<1>4. ASSUME alone[e] PROVE Progress(e)'
  <2>0. pc'[e] = "events" /\ ledger' = ledger
    BY <1>1, Turn
  <2>1. bundle["ledger"] = <<ledger>> /\ (sound[e] => CopiesIntact)
    BY <1>1, <1>4, Turn DEF QuietInv, Progress, Copied, Gathered
  <2>2. sound'[e] => CopiesIntact'
    BY <1>1, <1>2, <1>3, <2>1, CopiesStay DEF QuietInv
  <2>3. safe'[e] => bundle'["instructions"] # Missing
    <3>1. safe'[e] = ReplayDecision
      BY <1>1 DEF StateOK
    <3>2. <<"steps">> # Missing
      BY DEF Missing
    <3> QED BY <1>2, <3>1, <3>2
  <2>4. ledger' = ledger
    BY <1>1, Turn
  <2>5. bundle'["repro"] = <<Routes(ledger)'>>
    BY <1>2, <2>4 DEF Routes
  <2> QED BY <1>1, <2>0, <1>2, <2>1, <2>2, <2>3, <2>4, <2>5
          DEF Progress, Copied, Gathered, Decided
<1> QED BY <1>1, <1>2, <1>3, <1>4, PastStays, BundleWritten DEF QuietInv

LEMMA CopyEventsIsQuiet ==
  ASSUME StateOK, QuietInv, NEW e \in Exports, CopyEvents(e)
  PROVE  QuietInv'
<1>1. /\ At(e, "events", "hash") /\ owner' = e /\ sound' = sound /\ safe' = safe
      /\ log' = Append(log, <<"bundle.exported", Nobody, Missing, "plain">>)
      /\ bundle' = [bundle EXCEPT !["events"] = <<log'>>, !["validation"] = <<TRUE>>]
  BY DEF CopyEvents, Write, jobVars
<1>2. /\ bundle'["evidence"] = bundle["evidence"] /\ bundle'["ledger"] = bundle["ledger"]
      /\ bundle'["repro"] = bundle["repro"] /\ bundle'["validation"] = <<TRUE>>
      /\ bundle'["instructions"] = bundle["instructions"]
  BY <1>1 DEF StateOK, BundleNames, BundleFiles
<1>3. LogGrows
  BY <1>1, LogIsAppended
<1>4. ASSUME alone[e] PROVE Progress(e)'
  <2>0. pc'[e] = "hash" /\ ledger' = ledger
    BY <1>1, Turn
  <2>1. /\ bundle["ledger"] = <<ledger>> /\ (sound[e] => CopiesIntact)
        /\ bundle["repro"] = <<Routes(ledger)>>
        /\ safe[e] => bundle["instructions"] # Missing
    BY <1>1, <1>4, Turn DEF QuietInv, Progress, Copied, Gathered, Decided
  <2>2. sound'[e] => CopiesIntact'
    BY <1>1, <1>2, <1>3, <2>1, CopiesStay DEF QuietInv
  <2>3. ledger' = ledger /\ Routes(ledger)' = Routes(ledger)
    BY <1>1, Turn DEF Routes
  <2> QED BY <1>1, <2>0, <1>2, <2>1, <2>2, <2>3 DEF Progress, Copied, Gathered, Decided
<1> QED BY <1>1, <1>2, <1>3, <1>4, PastStays, BundleWritten DEF QuietInv

LEMMA WriteManifestIsQuiet ==
  ASSUME StateOK, QuietInv, NEW e \in Exports, WriteManifest(e)
  PROVE  QuietInv'
<1> DEFINE made == [hashes |-> HashFiles(bundle), safe |-> safe[e]]
<1>1. /\ At(e, "hash", "validate") /\ owner' = e /\ log' = log /\ sound' = sound /\ safe' = safe
      /\ bundle' = [bundle EXCEPT !["manifest"] = <<made>>]
  BY DEF WriteManifest, Write, jobVars
<1>2. bundle'["manifest"] = <<made>> /\ \A f \in BundleFiles : bundle'[f] = bundle[f]
  BY <1>1 DEF StateOK, BundleNames, BundleFiles
<1>3. HashFiles(bundle)' = HashFiles(bundle)
  BY <1>2 DEF HashFiles
<1>4. /\ bundle'["evidence"] = bundle["evidence"] /\ bundle'["ledger"] = bundle["ledger"]
      /\ bundle'["repro"] = bundle["repro"] /\ bundle'["validation"] = bundle["validation"]
      /\ bundle'["instructions"] = bundle["instructions"]
  BY <1>2 DEF BundleFiles
<1>5. LogGrows
  BY <1>1 DEF LogGrows
<1>6. ASSUME alone[e] PROVE Progress(e)'
  <2>0. pc'[e] = "validate" /\ ledger' = ledger
    BY <1>1, Turn
  <2>1. /\ bundle["ledger"] = <<ledger>> /\ (sound[e] => CopiesIntact)
        /\ bundle["repro"] = <<Routes(ledger)>> /\ bundle["validation"] = <<TRUE>>
        /\ safe[e] => bundle["instructions"] # Missing
    BY <1>1, <1>6, Turn DEF QuietInv, Progress, Copied, Gathered, Decided
  <2>2. sound'[e] => CopiesIntact'
    BY <1>1, <1>4, <1>5, <2>1, CopiesStay DEF QuietInv
  <2>3. ledger' = ledger /\ Routes(ledger)' = Routes(ledger)
    BY <1>1, Turn DEF Routes
  <2>4. bundle'["manifest"] = <<[hashes |-> HashFiles(bundle)', safe |-> safe'[e]]>>
    BY <1>1, <1>2, <1>3
  <2> QED BY <1>1, <2>0, <1>4, <2>1, <2>2, <2>3, <2>4 DEF Progress, Copied, Gathered, Decided
<1> QED BY <1>1, <1>4, <1>5, <1>6, PastStays, BundleWritten DEF QuietInv

\* What an undisturbed export validates is valid but for a link elsewhere, and
\* it stays what it is when the result takes the place of the presumed one.
LEMMA QuietIsValid ==
  ASSUME StateOK, NEW e \in Exports, pc[e] = "validate", Progress(e),
         bundle' = [bundle EXCEPT !["validation"] = <<Valid(bundle)>>]
  PROVE  /\ Valid(bundle') = Valid(bundle)
         /\ LinksElsewhere(bundle') \/ Valid(bundle')
<1>1. /\ bundle["manifest"] = <<[hashes |-> HashFiles(bundle), safe |-> safe[e]]>>
      /\ bundle["ledger"] = <<ledger>> /\ bundle["repro"] = <<Routes(ledger)>>
      /\ safe[e] => bundle["instructions"] # Missing
      /\ bundle["validation"] = <<TRUE>>
  BY DEF Progress, Copied, Decided
<1>2. /\ bundle["manifest"] # Missing
      /\ bundle["manifest"][1].hashes = HashFiles(bundle)
      /\ bundle["manifest"][1].safe = safe[e]
      /\ bundle["repro"][1] = Routes(bundle["ledger"][1])
  BY <1>1 DEF Missing
<1>3. bundle'["views"] = bundle["views"]
  BY DEF StateOK, BundleNames, BundleFiles
<1>4. LinksElsewhere(bundle') = LinksElsewhere(bundle)
  BY <1>3 DEF LinksElsewhere
<1>5. CASE LinksElsewhere(bundle)
  <2>1. Valid(bundle) = FALSE
    BY <1>5 DEF Valid
  <2>2. Valid(bundle') = FALSE
    BY <1>4, <1>5 DEF Valid
  <2> QED BY <1>4, <1>5, <2>1, <2>2
<1>6. CASE ~LinksElsewhere(bundle)
  <2>1. Valid(bundle) = TRUE
    BY <1>1, <1>2, <1>6 DEF Valid
  <2>2. \A f \in BundleNames : bundle'[f] = bundle[f]
    BY <1>1, <2>1 DEF StateOK, BundleNames
  <2>3. HashFiles(bundle') = HashFiles(bundle)
    BY <2>2 DEF HashFiles, BundleNames
  <2>4. /\ bundle'["manifest"] = bundle["manifest"] /\ bundle'["ledger"] = bundle["ledger"]
        /\ bundle'["repro"] = bundle["repro"]
        /\ bundle'["instructions"] = bundle["instructions"]
    BY <2>2 DEF BundleNames, BundleFiles
  <2>5. Valid(bundle') = TRUE
    BY <1>1, <1>2, <1>4, <1>6, <2>3, <2>4 DEF Valid
  <2> QED BY <2>1, <2>5
<1> QED BY <1>5, <1>6

LEMMA ValidateIsQuiet ==
  ASSUME StateOK, QuietInv, NEW e \in Exports, Validate(e)
  PROVE  QuietInv'
<1>1. /\ At(e, "validate", "done") /\ owner' = e /\ log' = log /\ sound' = sound
      /\ answer' = [answer EXCEPT ![e] = Valid(bundle)]
      /\ bundle' = [bundle EXCEPT !["validation"] = <<Valid(bundle)>>]
  BY DEF Validate, Write
<1>2. /\ pc[e] = "validate" /\ pc'[e] = "done" /\ Disturb(e)
      /\ \A f \in Exports : f # e => pc'[f] = pc[f]
  BY <1>1, Turn
<1>3. bundle'["evidence"] = bundle["evidence"] /\ LogGrows
  BY <1>1 DEF StateOK, BundleNames, BundleFiles, LogGrows
<1>4. \A f \in Exports : alone'[f] => Progress(f)'
  <2> SUFFICES ASSUME NEW f \in Exports, alone'[f] PROVE Progress(f)'
    OBVIOUS
  <2>1. pc'[f] \in {"idle", "done", "failed"}
    BY <1>2, OthersRest
  <2> QED BY <2>1, RestingProgress
<1>5. NotYetOwner'
  BY <1>1, <1>2 DEF NotYetOwner
<1>6. CopiesArePast'
  BY <1>3, PastStays DEF QuietInv
<1>7. \A f \in Exports : Left(f)' /\ alone'[f] => f = e /\ alone[e]
  BY <1>1, <1>2, SelfIsAlone DEF Left
<1>8. ASSUME alone[e] PROVE Progress(e)
  BY <1>8 DEF QuietInv
<1>9. QuietExportValid'
  <2> SUFFICES ASSUME alone[e]
               PROVE  /\ answer'[e] = Valid(bundle')
                      /\ ~LinksElsewhere(bundle') => Valid(bundle')
    BY <1>7 DEF QuietExportValid
  <2>1. Valid(bundle') = Valid(bundle) /\ (LinksElsewhere(bundle') \/ Valid(bundle'))
    BY <1>1, <1>2, <1>8, QuietIsValid
  <2>2. answer'[e] = Valid(bundle)
    BY <1>1 DEF StateOK
  <2> QED BY <2>1, <2>2
<1>10. CopiesMatchEvents'
  <2> SUFFICES ASSUME alone[e], sound'[e] PROVE CopiesIntact'
    BY <1>7 DEF CopiesMatchEvents, CopiesIntact
  <2>1. CopiesIntact
    BY <1>1, <1>2, <1>8 DEF Progress, Gathered
  <2> QED BY <1>3, <2>1, CopiesStay DEF QuietInv
<1> QED BY <1>4, <1>5, <1>6, <1>9, <1>10 DEF QuietInv

LEMMA FaultIsQuiet ==
  ASSUME StateOK, QuietInv, NEW e \in Exports, Fault(e)
  PROVE  QuietInv'
<1>1. /\ bundle' = bundle /\ owner' = owner /\ log' = log /\ sound' = sound
      /\ answer' = answer /\ Disturb(e) /\ pc' = [pc EXCEPT ![e] = "failed"]
  BY DEF Fault, recordVars, jobVars
<1>2. pc'[e] = "failed" /\ \A f \in Exports : f # e => pc'[f] = pc[f]
  BY <1>1 DEF StateOK
<1>3. LogGrows
  BY <1>1 DEF LogGrows
<1> QED BY <1>1, <1>2, <1>3, RestingProgress, BundleUntouched

LEMMA InitQuiet == Init => QuietInv
<1> SUFFICES ASSUME Init PROVE QuietInv
  OBVIOUS
<1>1. \A e \in Exports : pc[e] = "idle" /\ owner # e
  BY BundleAssumption DEF Init
<1>2. \A e \in Exports : Progress(e) /\ ~Left(e)
  BY <1>1 DEF Progress, Copied, Gathered, Decided, Left
<1>3. bundle["evidence"][1] = {}
  BY DEF Init, BundleFiles
<1> QED BY <1>1, <1>2, <1>3
        DEF QuietInv, NotYetOwner, CopiesArePast, QuietExportValid, CopiesMatchEvents

LEMMA NextQuiet == StateOK /\ QuietInv /\ [Next]_vars => QuietInv'
<1> SUFFICES ASSUME StateOK, QuietInv, [Next]_vars PROVE QuietInv'
  OBVIOUS
<1>1. CASE \/ \E c \in Calls : Record(c)
           \/ \E c \in Forwarded, x \in Contents :
                \E text \in TextsOf[c] : Ingest(c, x, text)
  BY <1>1, SessionIsQuiet
<1>2. ASSUME NEW e \in Exports, Export(e) PROVE QuietInv'
  BY <1>2, WriteReportIsQuiet, CheckReportIsQuiet, CopyViewsIsQuiet, CopyEvidenceIsQuiet,
     CopyFailsIsQuiet, DecideReplayIsQuiet, CopyEventsIsQuiet, WriteManifestIsQuiet,
     ValidateIsQuiet DEF Export
<1>3. ASSUME NEW e \in Exports, Fault(e) PROVE QuietInv'
  BY <1>3, FaultIsQuiet
<1>4. CASE UNCHANGED vars
  <2>1. /\ UNCHANGED <<log, ledger, artifact, manifest, bundle, pc, safe, sound, answer,
                       owner, alone>>
    BY <1>4 DEF vars, recordVars, jobVars, historyVars
  <2>2. /\ Artifacts' = Artifacts /\ Routes(ledger)' = Routes(ledger)
        /\ Valid(bundle)' = Valid(bundle) /\ HashFiles(bundle)' = HashFiles(bundle)
        /\ LinksElsewhere(bundle)' = LinksElsewhere(bundle)
    BY <2>1 DEF Artifacts, Routes, Valid, HashFiles, LinksElsewhere
  <2>3. \A e \in Exports : Progress(e)' = Progress(e)
    BY <2>1, <2>2 DEF Progress, Intact, CopiesIntact
  <2>4. NotYetOwner' = NotYetOwner /\ CopiesArePast' = CopiesArePast
    BY <2>1 DEF NotYetOwner, CopiesArePast
  <2>5. QuietExportValid' = QuietExportValid /\ CopiesMatchEvents' = CopiesMatchEvents
    BY <2>1, <2>2 DEF QuietExportValid, CopiesMatchEvents, Left
  <2> QED BY <2>1, <2>3, <2>4, <2>5 DEF QuietInv
<1> QED BY <1>1, <1>2, <1>3, <1>4 DEF Next

\* An export nobody disturbs says of its bundle what the server goes on to say
\* until another export writes there, and nothing but a link elsewhere in a text
\* that tools gave makes it invalid (exportEvidenceBundle,
\* validateEvidenceBundleManifest).
THEOREM QuietExportsAreValid == Spec => []QuietExportValid
<1>1. StateOK /\ QuietInv /\ [Next]_vars => (StateOK /\ QuietInv)'
  BY NextTypes, NextQuiet
<1>2. QuietInv => QuietExportValid
  BY DEF QuietInv
<1> QED BY <1>1, <1>2, InitTypes, InitQuiet, PTL DEF Spec

\* What a report found valid cites is copied as the events say it, when nobody
\* interferes: a retry's artifact does not pass for the one before
\* (copyEvidenceArtifacts after validateReportManifest).
THEOREM CopiesAreOfTheEvents == Spec => []CopiesMatchEvents
<1>1. StateOK /\ QuietInv /\ [Next]_vars => (StateOK /\ QuietInv)'
  BY NextTypes, NextQuiet
<1>2. QuietInv => CopiesMatchEvents
  BY DEF QuietInv
<1> QED BY <1>1, <1>2, InitTypes, InitQuiet, PTL DEF Spec

-----------------------------------------------------------------------------
(* Exports one after the other.                                            *)

LedgerGrows == \A i \in DOMAIN ledger : i \in DOMAIN ledger' /\ ledger'[i] = ledger[i]

ManifestCovers ==
  bundle["manifest"] # Missing /\ bundle["manifest"][1].safe =>
    AllSafe(bundle["manifest"][1].hashes["ledger"][1])

\* A step of nobody that runs, or of one that goes on: the others do not run,
\* so that what it has done is all there is to say.
LEMMA OrderKept ==
  ASSUME StateOK, OrderInv, LedgerGrows, NEW e \in Exports, ~overlap',
         ~overlap /\ e \in Running,
         \A f \in Exports : f # e => pc'[f] = pc[f],
         pc'[e] \in Copied => CopyIsPast',
         pc'[e] \in Decided /\ safe'[e] => AllSafe(bundle'["ledger"][1]),
         ManifestCovers'
  PROVE  OrderInv'
<1>1. \A f \in Exports : f # e => pc'[f] \in {"idle", "done", "failed"}
  BY DEF OrderInv, OneAtATime, Running
<1>2. OneAtATime'
  BY <1>1 DEF OneAtATime, Running
<1>3. \A f \in Exports : f # e => pc'[f] \notin Copied \cup Decided
  BY <1>1 DEF Copied, Decided
<1> QED BY <1>2, <1>3 DEF OrderInv, ManifestCovers

LEMMA InitOrder == Init => OrderInv
<1> SUFFICES ASSUME Init PROVE OrderInv
  OBVIOUS
<1>1. \A e \in Exports : pc[e] = "idle"
  BY DEF Init
<1>2. Running = {} /\ bundle["manifest"] = Missing
  BY <1>1 DEF Init, Running
<1> QED BY <1>1, <1>2 DEF OrderInv, OneAtATime, Copied, Decided

\* What was copied stays what the ledger began with.
LEMMA PastLedgerStays ==
  ASSUME LedgerGrows, CopyIsPast, bundle'["ledger"] = bundle["ledger"]
  PROVE  CopyIsPast'
BY DEF LedgerGrows, CopyIsPast

\* Steps that leave the bundle and the decision alone and start nothing.
LEMMA OrderUntouched ==
  ASSUME StateOK, OrderInv, LedgerGrows, bundle' = bundle, safe' = safe,
         overlap' = overlap,
         \A f \in Exports : pc'[f] = pc[f] \/ (f \in Running /\ pc'[f] \in {"views", "done", "failed"})
  PROVE  OrderInv'
<1> SUFFICES ASSUME ~overlap PROVE OrderInv'
  BY DEF OrderInv
<1>1. OneAtATime'
  BY DEF OrderInv, OneAtATime, Running
<1>2. \A f \in Exports : pc'[f] \in Copied => pc[f] \in Copied
  BY DEF Copied
<1>3. \A f \in Exports : pc'[f] \in Decided => pc[f] \in Decided
  BY DEF Decided
<1>4. \A f \in Exports : pc'[f] \in Copied => CopyIsPast'
  BY <1>2, PastLedgerStays DEF OrderInv
<1> QED BY <1>1, <1>3, <1>4 DEF OrderInv

LEMMA NextOrder == StateOK /\ OrderInv /\ [Next]_vars => OrderInv'
<1> SUFFICES ASSUME StateOK, OrderInv, [Next]_vars PROVE OrderInv'
  OBVIOUS
<1>0. ledger' = ledger => LedgerGrows
  BY DEF LedgerGrows
<1>a. ASSUME NEW e \in Exports, NEW from, NEW to, At(e, from, to),
             from \notin {"idle", "done", "failed"}
      PROVE  e \in Running /\ LedgerGrows
  BY <1>a, <1>0, Turn DEF Running
<1>1. ASSUME NEW c \in Calls, Record(c) PROVE OrderInv'
  <2>1. SessionStep /\ LedgerGrows
    <3>1. ASSUME NEW x, WriteArtifact(c, x) PROVE SessionStep /\ LedgerGrows
      BY <3>1, <1>0 DEF WriteArtifact
    <3>2. CASE CiteArtifact(c)
      BY <3>2, <1>0 DEF CiteArtifact
    <3>3. ASSUME NEW text, RecordEffect(c, text) PROVE SessionStep /\ LedgerGrows
      BY <3>3 DEF RecordEffect, LedgerGrows, StateOK
    <3> QED BY <1>1, <3>1, <3>2, <3>3 DEF Record
  <2> QED BY <2>1, OrderUntouched DEF SessionStep, jobVars
<1>2. ASSUME NEW c \in Forwarded, NEW x \in Contents, NEW text, Ingest(c, x, text)
      PROVE  OrderInv'
  BY <1>2, <1>0, OrderUntouched DEF Ingest, SessionStep, jobVars
<1>3. ASSUME NEW e \in Exports, WriteReport(e) PROVE OrderInv'
  <2> SUFFICES ASSUME ~overlap' PROVE OrderInv'
    BY DEF OrderInv
  <2>1. /\ At(e, "idle", "check") /\ bundle' = bundle /\ safe' = safe
        /\ ~overlap /\ Running = {}
    BY <1>3 DEF WriteReport, jobVars, StateOK
  <2>2. pc'[e] = "check" /\ \A f \in Exports : f # e => pc'[f] = pc[f]
    BY <2>1, Turn
  <2>3. \A f \in Exports : f # e => pc'[f] \in {"idle", "done", "failed"}
    BY <2>1, <2>2 DEF Running
  <2>4. OneAtATime'
    BY <2>3 DEF OneAtATime, Running
  <2>5. \A f \in Exports : pc'[f] \notin Copied \cup Decided
    BY <2>2, <2>3 DEF Copied, Decided
  <2> QED BY <2>1, <2>4, <2>5 DEF OrderInv
<1>4. ASSUME NEW e \in Exports, CheckReport(e) PROVE OrderInv'
  <2>1. PICK to \in {"views", "done"} : At(e, "check", to)
    BY <1>4 DEF CheckReport
  <2>2. bundle' = bundle /\ safe' = safe /\ overlap' = overlap
    BY <1>4 DEF CheckReport
  <2> QED BY <2>1, <2>2, <1>a, Turn, OrderUntouched
<1>5. ASSUME NEW e \in Exports, CopyFails(e) PROVE OrderInv'
  <2>1. /\ At(e, "evidence", "failed") /\ bundle' = bundle /\ safe' = safe
        /\ overlap' = overlap
    BY <1>5 DEF CopyFails, jobVars
  <2> QED BY <2>1, <1>a, Turn, OrderUntouched
<1>6. ASSUME NEW e \in Exports, Fault(e) PROVE OrderInv'
  <2>1. /\ e \in Running /\ pc' = [pc EXCEPT ![e] = "failed"] /\ bundle' = bundle
        /\ safe' = safe /\ overlap' = overlap /\ ledger' = ledger
    BY <1>6 DEF Fault, recordVars, jobVars
  <2>2. \A f \in Exports : pc'[f] = IF f = e THEN "failed" ELSE pc[f]
    BY <2>1 DEF StateOK
  <2> QED BY <2>1, <2>2, <1>0, OrderUntouched
<1>7. ASSUME NEW e \in Exports,
             CopyViews(e) \/ CopyEvidence(e) \/ DecideReplay(e) \/ CopyEvents(e)
               \/ WriteManifest(e) \/ Validate(e)
      PROVE  OrderInv'
  <2> SUFFICES ASSUME ~overlap' PROVE OrderInv'
    BY DEF OrderInv
  <2>0. ~overlap
    BY <1>7 DEF CopyViews, CopyEvidence, DecideReplay, CopyEvents, WriteManifest, Validate
  <2>1. CASE CopyViews(e)
    <3>0. PICK to \in {"evidence", "failed"} : At(e, "views", to)
      BY <2>1 DEF CopyViews
    <3>1. /\ bundle'["ledger"] = <<ledger>>
          /\ bundle'["manifest"] = bundle["manifest"]
      BY <2>1 DEF CopyViews, Write, StateOK, BundleNames, BundleFiles
    <3>2. /\ e \in Running /\ LedgerGrows /\ pc'[e] = to /\ ledger' = ledger
          /\ \A f \in Exports : f # e => pc'[f] = pc[f]
      BY <3>0, <1>a, Turn
    <3>3. CopyIsPast'
      BY <3>1, <3>2 DEF CopyIsPast
    <3>4. ManifestCovers'
      BY <2>0, <3>1 DEF OrderInv, ManifestCovers
    <3>5. pc'[e] \notin Decided
      BY <3>2 DEF Decided
    <3> QED BY <2>0, <3>2, <3>3, <3>4, <3>5, OrderKept
  <2>2. CASE CopyEvidence(e)
    <3>1. /\ At(e, "evidence", "replay") /\ bundle'["ledger"] = bundle["ledger"]
          /\ bundle'["manifest"] = bundle["manifest"]
      BY <2>2 DEF CopyEvidence, Write, StateOK, BundleNames, BundleFiles
    <3>2. /\ e \in Running /\ LedgerGrows /\ pc[e] = "evidence" /\ pc'[e] = "replay"
          /\ \A f \in Exports : f # e => pc'[f] = pc[f]
      BY <3>1, <1>a, Turn
    <3>3. CopyIsPast'
      BY <2>0, <3>1, <3>2, PastLedgerStays DEF OrderInv, Copied
    <3>4. ManifestCovers'
      BY <2>0, <3>1 DEF OrderInv, ManifestCovers
    <3>5. pc'[e] \notin Decided
      BY <3>2 DEF Decided
    <3> QED BY <2>0, <3>2, <3>3, <3>4, <3>5, OrderKept
  <2>3. CASE DecideReplay(e)
    <3>1. /\ At(e, "replay", "events") /\ bundle'["ledger"] = bundle["ledger"]
          /\ bundle'["manifest"] = bundle["manifest"]
      BY <2>3 DEF DecideReplay, Write, StateOK, BundleNames, BundleFiles
    <3>2. /\ e \in Running /\ LedgerGrows /\ pc[e] = "replay" /\ pc'[e] = "events"
          /\ \A f \in Exports : f # e => pc'[f] = pc[f]
      BY <3>1, <1>a, Turn
    <3>3. CopyIsPast
      BY <2>0, <3>2 DEF OrderInv, Copied
    <3>4. ASSUME safe'[e] PROVE AllSafe(bundle'["ledger"][1])
      <4>1. safe'[e] = ReplayDecision
        BY <2>3 DEF DecideReplay, StateOK
      <4>2. AllSafe(ledger)
        BY <3>4, <4>1 DEF ReplayDecision, AllSafe
      <4> QED BY <3>1, <3>3, <4>2 DEF AllSafe, CopyIsPast
    <3>5. ManifestCovers'
      BY <2>0, <3>1 DEF OrderInv, ManifestCovers
    <3> QED BY <2>0, <3>1, <3>2, <3>3, <3>4, <3>5, OrderKept, PastLedgerStays
  <2>4. CASE CopyEvents(e)
    <3>1. /\ At(e, "events", "hash") /\ bundle'["ledger"] = bundle["ledger"]
          /\ bundle'["manifest"] = bundle["manifest"] /\ safe' = safe
      BY <2>4 DEF CopyEvents, Write, jobVars, StateOK, BundleNames, BundleFiles
    <3>2. /\ e \in Running /\ LedgerGrows /\ pc[e] = "events" /\ pc'[e] = "hash"
          /\ \A f \in Exports : f # e => pc'[f] = pc[f]
      BY <3>1, <1>a, Turn
    <3>3. CopyIsPast' /\ (safe'[e] => AllSafe(bundle'["ledger"][1]))
      BY <2>0, <3>1, <3>2, PastLedgerStays DEF OrderInv, Copied, Decided
    <3>4. ManifestCovers'
      BY <2>0, <3>1 DEF OrderInv, ManifestCovers
    <3> QED BY <2>0, <3>2, <3>3, <3>4, OrderKept
  <2>5. CASE WriteManifest(e)
    <3>1. /\ At(e, "hash", "validate") /\ bundle'["ledger"] = bundle["ledger"] /\ safe' = safe
          /\ bundle'["manifest"] = <<[hashes |-> HashFiles(bundle), safe |-> safe[e]]>>
      BY <2>5 DEF WriteManifest, Write, jobVars, StateOK, BundleNames, BundleFiles
    <3>2. /\ e \in Running /\ LedgerGrows /\ pc[e] = "hash" /\ pc'[e] = "validate"
          /\ \A f \in Exports : f # e => pc'[f] = pc[f]
      BY <3>1, <1>a, Turn
    <3>3. CopyIsPast' /\ (safe[e] => AllSafe(bundle["ledger"][1]))
      BY <2>0, <3>1, <3>2, PastLedgerStays DEF OrderInv, Copied, Decided
    <3>4. ManifestCovers'
      <4>1. /\ bundle'["manifest"][1].safe = safe[e]
            /\ bundle'["manifest"][1].hashes["ledger"] = bundle["ledger"]
        BY <3>1 DEF HashFiles, BundleFiles
      <4> QED BY <3>3, <4>1 DEF ManifestCovers
    <3> QED BY <2>0, <3>1, <3>2, <3>3, <3>4, OrderKept
  <2>6. CASE Validate(e)
    <3>1. /\ At(e, "validate", "done") /\ bundle'["manifest"] = bundle["manifest"]
      BY <2>6 DEF Validate, Write, StateOK, BundleNames, BundleFiles
    <3>2. /\ e \in Running /\ LedgerGrows /\ pc'[e] = "done"
          /\ \A f \in Exports : f # e => pc'[f] = pc[f]
      BY <3>1, <1>a, Turn
    <3>3. ManifestCovers'
      BY <2>0, <3>1 DEF OrderInv, ManifestCovers
    <3>4. pc'[e] \notin Copied \cup Decided
      BY <3>2 DEF Copied, Decided
    <3> QED BY <2>0, <3>2, <3>3, <3>4, OrderKept
  <2> QED BY <1>7, <2>1, <2>2, <2>3, <2>4, <2>5, <2>6
<1>8. CASE UNCHANGED vars
  <2>1. UNCHANGED <<bundle, safe, overlap, pc, ledger>>
    BY <1>8 DEF vars, recordVars, jobVars, historyVars
  <2> QED BY <2>1, <1>0, OrderUntouched
<1> QED BY <1>1, <1>2, <1>3, <1>4, <1>5, <1>6, <1>7, <1>8 DEF Next, Export

\* Unless exports overlapped, no unsafe entry is in the ledger of a valid
\* bundle that calls itself safe to replay, although its ledger and its
\* decision are of different moments and failed exports leave files behind
\* (replayDecision, validateEvidenceBundleManifest).
THEOREM SafeBundlesAreCovered == Spec => []SafeCoversLedger
<1>1. StateOK /\ OrderInv /\ [Next]_vars => (StateOK /\ OrderInv)'
  BY NextTypes, NextOrder
<1>2. OrderInv => SafeCoversLedger
  <2> SUFFICES ASSUME OrderInv, ~overlap, Valid(bundle), bundle["manifest"][1].safe
               PROVE  AllSafe(bundle["ledger"][1])
    BY DEF SafeCoversLedger, AllSafe
  <2>1. bundle["manifest"] # Missing /\ bundle["manifest"][1].hashes = HashFiles(bundle)
    BY DEF Valid
  <2>2. bundle["manifest"][1].hashes["ledger"] = bundle["ledger"]
    BY <2>1 DEF HashFiles, BundleFiles
  <2> QED BY <2>1, <2>2 DEF OrderInv
<1> QED BY <1>1, <1>2, InitTypes, InitOrder, PTL DEF Spec
===============================================================================
