---------------------------- MODULE EvidenceBundle ----------------------------
(***************************************************************************)
(* packages/core/src/bundle.ts and report.ts: an export puts the report,   *)
(* the ledger, the artifacts, a replay decision and the event log into one *)
(* directory, step by step, while the session goes on recording and other  *)
(* exports may run in the same directory.                                  *)
(*                                                                         *)
(* A step stands for the file operations between two points at which what  *)
(* others do could matter.  A hash of a file is its content, a file is <<>> *)
(* while it does not exist and <<content>> then.  Files that only restate  *)
(* the recorded events (topology, narrative, metrics, diagnostics, issue   *)
(* packet, visibility) are one file, "views", which holds the number of    *)
(* events it was made of and whether their texts have links in Markdown    *)
(* that lead elsewhere.  Rewrites of events.jsonl are EvidenceLog's.       *)
(***************************************************************************)
EXTENDS Naturals, Sequences, FiniteSets, SequencesExt

CONSTANTS
  Calls,        \* mediated calls of this session
  Forwarded,    \* calls of other sessions whose events are ingested
  EntryOf,      \* the ledger entry each call leaves
  Contents,     \* what an attempt may write into its call's artifact
  TextsOf,      \* the kinds of text, see Texts, the events of a call may have
  MaxAttempts,  \* bound on attempts and ingested events together
  Exports,      \* export requests
  MaxFaults     \* bound on failing file operations

VARIABLES
  log,       \* recorder.events: <<type, call, hash, text>>
  ledger,    \* recorder.ledger
  artifact,  \* artifacts/<call>.*: content of a call's artifact file
  stage,     \* of each call: where its current attempt is
  attempts,  \* attempts and ingested events so far
  manifest,  \* manifest.json of the run: [ledger]
  bundle,    \* the files of bundle/
  pc,        \* of each export: its next step
  safe,      \* replay.safe
  sound,     \* reportManifestValidation.valid
  answer,    \* validation.valid the export returned
  faults,    \* failed file operations so far
  owner,     \* history: the export that wrote to bundle/ last
  alone,     \* history: exports during which nobody else took a step
  overlap    \* history: two exports have run at once

recordVars == <<log, ledger, artifact, stage, attempts>>
jobVars == <<safe, sound, answer>>
historyVars == <<owner, alone, overlap>>
vars == <<recordVars, manifest, bundle, pc, jobVars, faults, historyVars>>

BundleFiles == {"report", "views", "ledger", "evidence", "recipes", "repro",
                "instructions", "events", "validation"}
Missing == <<>>
Nobody == "nobody"

\* A text without a link elsewhere; one with such a link that report or views
\* repeat; and one with a link that the issue packet repeats, as the summary
\* of a Failure Card, and that does not lead to the local API.
Texts == {"plain", "shown", "carded"}

\* No export has the name that stands for none.
ASSUME BundleAssumption ==
  /\ MaxAttempts \in Nat /\ MaxFaults \in Nat
  /\ Nobody \notin Exports
  /\ TextsOf \in [Calls \cup Forwarded -> SUBSET Texts]

Types == {"artifact", "effect", "report.exported", "bundle.exported"}
Steps == {"idle", "check", "views", "evidence", "replay", "events", "hash",
          "validate", "done", "failed"}

TypeOK ==
  /\ \A i \in DOMAIN log : log[i][1] \in Types
  /\ ledger \in Seq(Calls)
  /\ \A c \in Calls \cup Forwarded : Len(artifact[c]) <= 1
  /\ stage \in [Calls \cup Forwarded -> {"idle", "written", "cited"}]
  /\ attempts \in 0 .. MaxAttempts
  /\ DOMAIN bundle = BundleFiles \cup {"manifest"}
  /\ pc \in [Exports -> Steps]
  /\ safe \in [Exports -> BOOLEAN]
  /\ sound \in [Exports -> BOOLEAN]
  /\ answer \in [Exports -> BOOLEAN]
  /\ faults \in 0 .. MaxFaults
  /\ owner \in Exports \cup {Nobody}
  /\ alone \in [Exports -> BOOLEAN]
  /\ overlap \in BOOLEAN

Init ==
  /\ log = <<>> /\ ledger = <<>>
  /\ artifact = [c \in Calls \cup Forwarded |-> Missing]
  /\ stage = [c \in Calls \cup Forwarded |-> "idle"]
  /\ attempts = 0
  /\ manifest = Missing
  /\ bundle = [f \in BundleFiles \cup {"manifest"} |->
                 IF f = "evidence" THEN <<{}>> ELSE Missing]
  /\ pc = [e \in Exports |-> "idle"]
  /\ safe = [e \in Exports |-> FALSE]
  /\ sound = [e \in Exports |-> FALSE]
  /\ answer = [e \in Exports |-> FALSE]
  /\ faults = 0
  /\ owner = Nobody
  /\ alone = [e \in Exports |-> TRUE]
  /\ overlap = FALSE

Running == { e \in Exports : pc[e] \notin {"idle", "done", "failed"} }

\* Whoever takes a step disturbs the exports that run, but not itself.
Disturb(self) ==
  alone' = [e \in Exports |-> alone[e] /\ (e \in Running => e = self)]

-----------------------------------------------------------------------------
(* The session: an attempt writes its artifact, cites it in an event, and  *)
(* enters its effect in the ledger, with an event for that.                *)

SessionStep ==
  /\ Disturb(Nobody)
  /\ UNCHANGED <<manifest, bundle, pc, jobVars, faults, owner, overlap>>

\* The file is named for the call: an attempt replaces what the one before
\* wrote.
WriteArtifact(c, content) ==
  /\ stage[c] = "idle" /\ attempts < MaxAttempts
  /\ artifact' = [artifact EXCEPT ![c] = <<content>>]
  /\ stage' = [stage EXCEPT ![c] = "written"]
  /\ attempts' = attempts + 1
  /\ UNCHANGED <<log, ledger>> /\ SessionStep

CiteArtifact(c) ==
  /\ stage[c] = "written"
  /\ log' = Append(log, <<"artifact", c, artifact[c], "plain">>)
  /\ stage' = [stage EXCEPT ![c] = "cited"]
  /\ UNCHANGED <<ledger, artifact, attempts>> /\ SessionStep

\* The attempt ends, and its events tell how.
RecordEffect(c, text) ==
  /\ stage[c] = "cited"
  /\ ledger' = Append(ledger, c)
  /\ log' = Append(log, <<"effect", c, Missing, text>>)
  /\ stage' = [stage EXCEPT ![c] = "idle"]
  /\ UNCHANGED <<artifact, attempts>> /\ SessionStep

\* /api/events/ingest takes another session's event as it is; the file it
\* cites stays with that session.
Ingest(c, content, text) ==
  /\ attempts < MaxAttempts
  /\ log' = Append(log, <<"artifact", c, <<content>>, text>>)
  /\ attempts' = attempts + 1
  /\ UNCHANGED <<ledger, artifact, stage>> /\ SessionStep

-----------------------------------------------------------------------------
(* Replay safety and validation.                                           *)

Artifacts == { i \in DOMAIN log : log[i][1] = "artifact" }
Routes(entries) == { EntryOf[entries[i]].routeConfig : i \in DOMAIN entries }

IsFixture(entry) ==
  entry.fixture /\ entry.reversibility \in {"fixture-only", "reversible"}

\* The endpoint was verified for this tool and route, on a local port of the
\* product.
IsLoopback(entry) ==
  /\ entry.endpoint = "verified-loopback"
  /\ entry.reversibility = "reversible"

IsReplaySafe(entry) ==
  /\ entry.effectState \notin {"unknown", "partial"}
  /\ entry.reversibility \notin {"irreversible-risk", "manual-review"}
  /\ IsFixture(entry) \/ IsLoopback(entry)

\* Slip: the latest entry decides for the run.
LastEntryDecides ==
  /\ ledger # <<>>
  /\ IsReplaySafe(EntryOf[ledger[Len(ledger)]])

\* Whether a run may be replayed is told from its own ledger, and only if
\* there is one: events ingested from elsewhere have no part in it.
ReplayDecision ==
  /\ ledger # <<>>
  /\ \E i \in DOMAIN log : log[i][1] \in {"artifact", "effect"}
  /\ \A i \in DOMAIN ledger : IsReplaySafe(EntryOf[ledger[i]])

\* Slip: a file that is there will do, whatever its hash.
ReportThere(m) ==
  /\ m # Missing
  /\ m[1].ledger # <<>> => ledger = m[1].ledger
  /\ \A i \in m[1].listed : artifact[log[i][2]] # Missing

\* validateReportManifest: the files are there and have their hashes.
ReportValid(m) ==
  /\ m # Missing
  /\ m[1].ledger # <<>> => ledger = m[1].ledger
  /\ \A i \in m[1].listed : artifact[log[i][2]] = log[i][3]

\* hashBundleFiles: every file below bundle/ but the manifest and the list
\* itself.
HashFiles(b) == [f \in BundleFiles |-> b[f]]

HasText(kind) == \E i \in DOMAIN log : log[i][4] = kind

\* validateContainedLinks: a text in report or views links elsewhere.
LinksElsewhere(b) == b["views"] # Missing /\ b["views"][1].linked

\* validateEvidenceBundleManifest: what the manifest names is there, files
\* and hashes agree both ways, links stay here, and the routes are those of the
\* ledger.
Valid(b) ==
  /\ b["manifest"] # Missing
  /\ ~LinksElsewhere(b)
  /\ LET m == b["manifest"][1] IN
     /\ m.safe => b["instructions"] # Missing
     /\ m.hashes = HashFiles(b)
     /\ b["repro"] # Missing => b["repro"][1] = Routes(b["ledger"][1])

-----------------------------------------------------------------------------
(* exportEvidenceBundle                                                    *)

\* The export's part in every step: it is its turn, and others see it.
At(e, from, to) ==
  /\ pc[e] = from
  /\ pc' = [pc EXCEPT ![e] = to]
  /\ Disturb(e)
  /\ UNCHANGED <<ledger, artifact, stage, attempts, faults>>

Write(e, files) ==
  /\ bundle' = files
  /\ owner' = e

\* exportStaticReport reads events.jsonl, which is there once something was
\* recorded, hashes the ledger, writes report, manifest and hash list, and the
\* session records report.exported.
WriteReport(e) ==
  /\ At(e, "idle", "check") /\ log # <<>>
  /\ manifest' = <<[listed |-> Artifacts, ledger |-> ledger]>>
  /\ log' = Append(log, <<"report.exported", Nobody, Missing, "plain">>)
  /\ overlap' = (overlap \/ Running # {})
  /\ UNCHANGED <<bundle, jobVars, owner>>

\* A request for the report alone is answered now.
CheckReport(e) ==
  /\ \E to \in {"views", "done"} : At(e, "check", to)
  /\ sound' = [sound EXCEPT ![e] = ReportValid(manifest)]
  /\ UNCHANGED <<log, manifest, bundle, safe, answer, owner,
                 overlap>>

\* The issue packet comes last of the views.  It repeats Failure Cards, those
\* of forwarded calls too, and one with a link elsewhere ends the export.
CopyViews(e) ==
  /\ \/ ~HasText("carded") /\ At(e, "views", "evidence")
     \/ HasText("carded") /\ At(e, "views", "failed")
  /\ Write(e, [bundle EXCEPT
       !["report"] = manifest,
       !["views"] = <<[events |-> Len(log), linked |-> HasText("shown")]>>,
       !["ledger"] = <<ledger>>])
  /\ UNCHANGED <<log, manifest, jobVars, overlap>>

\* copyEvidenceArtifacts: files are named for the artifact, so each cited
\* artifact has a copy of its own, of what its file holds now.
CopyEvidence(e) ==
  /\ \A i \in Artifacts : artifact[log[i][2]] # Missing
  /\ At(e, "evidence", "replay")
  /\ LET copies == { <<i, artifact[log[i][2]]>> : i \in Artifacts }
         kept == { p \in bundle["evidence"][1] : p[1] \notin Artifacts }
     IN Write(e, [bundle EXCEPT !["evidence"] = <<kept \cup copies>>])
  /\ UNCHANGED <<log, manifest, jobVars, overlap>>

\* An artifact that is not below this run directory ends the export.
CopyFails(e) ==
  /\ \E i \in Artifacts : artifact[log[i][2]] = Missing
  /\ At(e, "evidence", "failed")
  /\ UNCHANGED <<log, manifest, bundle, jobVars, owner, overlap>>

\* replay-recipes.json, reproducibility-checks.json and, for a safe run, the
\* instructions; instructions of an earlier export are left where they are.
DecideReplay(e) ==
  /\ At(e, "replay", "events")
  /\ safe' = [safe EXCEPT ![e] = ReplayDecision]
  /\ Write(e, [bundle EXCEPT
       !["recipes"] = <<ReplayDecision>>,
       !["repro"] = <<Routes(ledger)>>,
       !["instructions"] = IF ReplayDecision THEN <<"steps">> ELSE @])
  /\ UNCHANGED <<log, manifest, sound, answer, overlap>>

\* Slip: the validation is not presumed before the files are hashed.
CopyEventsUnvalidated(e) ==
  /\ At(e, "events", "hash")
  /\ log' = Append(log, <<"bundle.exported", Nobody, Missing, "plain">>)
  /\ Write(e, [bundle EXCEPT !["events"] = <<log'>>])
  /\ UNCHANGED <<manifest, jobVars, overlap>>

\* bundle.exported is recorded, events.jsonl copied, a validation presumed.
CopyEvents(e) ==
  /\ At(e, "events", "hash")
  /\ log' = Append(log, <<"bundle.exported", Nobody, Missing, "plain">>)
  /\ Write(e, [bundle EXCEPT !["events"] = <<log'>>, !["validation"] = <<TRUE>>])
  /\ UNCHANGED <<manifest, jobVars, overlap>>

WriteManifest(e) ==
  /\ At(e, "hash", "validate")
  /\ Write(e, [bundle EXCEPT
       !["manifest"] = <<[hashes |-> HashFiles(bundle), safe |-> safe[e]]>>])
  /\ UNCHANGED <<log, manifest, jobVars, overlap>>

\* What is on disk is validated, and the result replaces the presumed one.
Validate(e) ==
  /\ At(e, "validate", "done")
  /\ answer' = [answer EXCEPT ![e] = Valid(bundle)]
  /\ Write(e, [bundle EXCEPT
       !["validation"] = <<Valid(bundle)>>])
  /\ UNCHANGED <<log, manifest, safe, sound, overlap>>

\* A file operation fails: the export ends where it is.
Fault(e) ==
  /\ e \in Running /\ faults < MaxFaults
  /\ faults' = faults + 1
  /\ pc' = [pc EXCEPT ![e] = "failed"]
  /\ Disturb(e)
  /\ UNCHANGED <<recordVars, manifest, bundle, jobVars, owner, overlap>>

Record(c) ==
  \/ \E x \in Contents : WriteArtifact(c, x)
  \/ CiteArtifact(c)
  \/ \E text \in TextsOf[c] : RecordEffect(c, text)

Export(e) ==
  \/ WriteReport(e) \/ CheckReport(e)
  \/ CopyViews(e) \/ CopyEvidence(e) \/ CopyFails(e)
  \/ DecideReplay(e) \/ CopyEvents(e)
  \/ WriteManifest(e) \/ Validate(e)

Next ==
  \/ \E c \in Calls : Record(c)
  \/ \E c \in Forwarded, x \in Contents : \E text \in TextsOf[c] : Ingest(c, x, text)
  \/ \E e \in Exports : Export(e) \/ Fault(e)

Spec == Init /\ [][Next]_vars

-----------------------------------------------------------------------------
(* Properties.                                                             *)

\* The bundle as its last writer left it.
Left(e) == owner = e /\ pc[e] = "done"

\* An export nobody disturbed says of its bundle what the server, which
\* validates again on every request, says too, as long as no other export writes
\* there; whatever earlier exports left in the directory.  Nothing but a link
\* elsewhere in a text the tools gave makes it invalid.
QuietExportValid ==
  \A e \in Exports : Left(e) /\ alone[e] =>
    /\ answer[e] = Valid(bundle)
    /\ ~LinksElsewhere(bundle) => Valid(bundle)

\* Unless exports overlapped, a valid bundle that calls itself safe to replay
\* holds no unsafe entry in its ledger, although ledger and decision are of
\* different moments and failed exports leave files behind.
SafeCoversLedger ==
  ~overlap /\ Valid(bundle) /\ bundle["manifest"][1].safe =>
    \A i \in DOMAIN bundle["ledger"][1] :
      IsReplaySafe(EntryOf[bundle["ledger"][1][i]])

\* If the report was found valid and nobody interfered, the copies in the
\* bundle are what the events say they are; a retry that replaced an artifact
\* does not pass for the original.
CopiesMatchEvents ==
  \A e \in Exports : Left(e) /\ alone[e] /\ sound[e] =>
    \A p \in bundle["evidence"][1] :
      p[1] \in Artifacts => p[2] = log[p[1]][3]

\* "omits replay instructions for unsafe scenarios": a bundle that withholds
\* replay has no instructions in it.  Those of an earlier export stay, so
\* this fails.
NoStaleInstructions ==
  \A e \in Exports : Left(e) /\ alone[e] /\ ~safe[e] =>
    bundle["instructions"] = Missing
=============================================================================
