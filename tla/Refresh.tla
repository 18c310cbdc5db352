------------------------------- MODULE Refresh -------------------------------
(***************************************************************************)
(* The semantic refresh of the engine: IngestionService.refresh as a       *)
(* sequence of writes to the graph store, the evidence index and the       *)
(* refresh files, started by HTTP callers and by the runtime bootstrap,    *)
(* with failing writes, crashes and restarts, while the source trees are   *)
(* edited from outside (an operator, or `sf project retrieve`).            *)
(*                                                                         *)
(* Node runs one handler at a time: `turn' is the handler that holds the   *)
(* event loop. A handler gives it up only where it awaits the graph store; *)
(* the synchronous file writes after that are separate steps, since the    *)
(* process may die between any two of them, but no other handler runs in   *)
(* between.                                                                *)
(***************************************************************************)
EXTENDS SemanticDrift

CONSTANTS
    Sources,            \* parse paths a refresh can be asked for
    FixturesSource,     \* the configured path the bootstrap refreshes from
    PathClass,          \* classifySourcePath of each source
    Trees,              \* what a source directory can hold
    Callers,            \* concurrent HTTP requests
    Boot,               \* the bootstrap, run before the server listens
    None,
    EnforceOnRefresh,   \* driftPolicy.enforceOnRefresh
    BootstrapModes,     \* the values runtimeBootstrapOnStartup may have
    MaxRequests,        \* bound: refreshes asked for over HTTP
    MaxEdits,           \* bound: edits of the sources
    MaxFaults           \* bound: crashes, and operations that throw

Handlers == Callers \cup {Boot}
PathClasses == {"fixtures", "retrieved_org", "custom"}
Layouts == {"absent", "flat", "nested"}
Payloads == {t.payload : t \in Trees} \cup {EmptyPayload}

ASSUME RefreshAssumption ==
    /\ FixturesSource \in Sources
    /\ PathClass \in [Sources -> PathClasses]
    /\ Boot \notin Callers /\ None \notin Handlers /\ None \notin Sources
    /\ \A t \in Trees : /\ t.layout \in Layouts /\ t.wellFormed \in BOOLEAN
                        /\ t.layout = "absent" => t.wellFormed /\ t.payload = EmptyPayload
    /\ EnforceOnRefresh \in BOOLEAN
    /\ BootstrapModes \subseteq BOOLEAN
    /\ MaxRequests \in Nat /\ MaxEdits \in Nat
    /\ MaxFaults \in Nat

VARIABLES
    tree, stamp,        \* each source's tree, and how often it was edited
    phase,              \* the process: "down", "booting" or "up" (listening)
    bootstrapState,     \* RuntimeBootstrapService.bootstrapState.status
    bootOutcome,        \* how the bootstrap's refresh ended, once it has
    refreshInProgress,  \* IngestionService.refreshInProgress
    turn,               \* the handler inside a synchronous section
    job,                \* each handler's call of refresh
    graph,              \* the payload in the graph store
    evidence,           \* the evidence index: which tree it was built from
    ontologyReport,     \* the payload of the last ontology report
    state, stateExists, \* refresh/state.json, and whether there is such a file
    audit,              \* the entries of the audit log
    semantic,           \* the latest semantic snapshot, the drift baseline
    history,            \* the snapshots kept by id
    artifact,           \* the newest semantic diff artifact: from and to snapshot
    requests, faults    \* how many so far

source  == <<tree, stamp>>
process == <<phase, bootstrapState, bootOutcome, refreshInProgress, turn, job>>
files   == <<ontologyReport, state, stateExists, audit, semantic, history, artifact>>
disk    == <<graph, evidence, files>>
bounds  == <<requests, faults>>
vars    == <<source, process, disk, bounds>>

------------------------------------------------------------------------------
(* Records.                                                                *)

\* The rows hashed by buildFixtureFingerprint are the files at the top level
\* of fifteen directories, with their times: every edit there gives a new
\* fingerprint, an edit of a tree whose metadata lies elsewhere (objects/**,
\* classes, triggers, permissionsets) the hash of no row at all.
NoRows == <<None, 0>>
buildFixtureFingerprint(s) ==
    IF tree[s].layout = "flat" THEN <<s, stamp[s]>> ELSE NoRows

\* The evidence index reads only five of those directories.
EvidenceTypes == {"Profile", "PermissionSet", "ApexClass", "ApexTrigger", "Flow"}
IndexOf(s) ==
    [sourcePath |-> s,
     fingerprint |-> buildFixtureFingerprint(s),
     documents |-> /\ tree[s].layout = "flat"
                   /\ \E n \in tree[s].payload.nodes : n.type \in EvidenceTypes]
NoEvidence == [sourcePath |-> None, fingerprint |-> NoRows, documents |-> FALSE]

\* What readState returns for a file that is absent or unreadable.
NoState == [snapshot |-> NoSnapshot, rebaselineApplied |-> FALSE]

Fingerprints == {NoRows} \cup (Sources \X Nat)
Snapshots == [fingerprint : Fingerprints, sourcePath : Sources, payload : Payloads]
Entries == [snapshot : Snapshots, rebaselineApplied : BOOLEAN]

Awaiting == {"counting", "recounting", "rebuild", "reindex"}
Writing  == {"parse", "report", "state", "audit", "semantic", "history", "artifact",
             "skipAudit"}
\* `seen' is not in the code: the payload of the tree when its fingerprint was
\* taken, for the property that judges a skip.
NoJob ==
    [pc |-> "idle", source |-> FixturesSource, rebaseline |-> FALSE,
     fingerprint |-> NoRows, seen |-> EmptyPayload, payload |-> EmptyPayload,
     previous |-> NoSnapshot, applied |-> FALSE]
Jobs ==
    [pc : {"idle"} \cup Awaiting \cup Writing, source : Sources, rebaseline : BOOLEAN,
     fingerprint : Fingerprints, seen : Payloads, payload : Payloads,
     previous : Snapshots \cup {NoSnapshot}, applied : BOOLEAN]

SourceTypeOK == tree \in [Sources -> Trees] /\ stamp \in [Sources -> Nat]

ProcessTypeOK ==
    /\ phase \in {"down", "booting", "up"}
    /\ bootstrapState \in {"pending", "disabled", "ready", "failed"}
    /\ bootOutcome \in {"none", "committed", "failed"}
    /\ refreshInProgress \in BOOLEAN
    /\ turn \in Handlers \cup {None}
    /\ job \in [Handlers -> Jobs]

DiskTypeOK ==
    /\ graph \in Payloads
    /\ evidence \in {NoEvidence} \cup
         [sourcePath : Sources, fingerprint : Fingerprints, documents : BOOLEAN]
    /\ ontologyReport \in Payloads
    /\ state \in Entries \cup {NoState} /\ stateExists \in BOOLEAN
    /\ audit \subseteq Entries
    /\ semantic \in Snapshots \cup {NoSnapshot}
    /\ history \subseteq Snapshots
    /\ artifact \in (Snapshots \cup {NoSnapshot}) \X (Snapshots \cup {NoSnapshot})

\* The type invariant.
TypeOK ==
    SourceTypeOK /\ ProcessTypeOK /\ DiskTypeOK /\ requests \in Nat /\ faults \in Nat

\* A fresh installation: sources as delivered, empty stores, first start.
Init ==
    /\ tree \in [Sources -> Trees] /\ stamp = [s \in Sources |-> 0]
    /\ phase = "booting" /\ bootstrapState = "pending" /\ bootOutcome = "none"
    /\ refreshInProgress = FALSE /\ turn = None
    /\ job = [h \in Handlers |-> NoJob]
    /\ graph = EmptyPayload /\ evidence = NoEvidence /\ ontologyReport = EmptyPayload
    /\ state = NoState /\ stateExists = FALSE /\ audit = {}
    /\ semantic = NoSnapshot /\ history = {} /\ artifact = <<NoSnapshot, NoSnapshot>>
    /\ requests = 0 /\ faults = 0

------------------------------------------------------------------------------
(* The control of one call of refresh.                                     *)

\* h runs on to pc, keeping the event loop, or awaits the graph store at pc.
RunTo(h, pc) == job' = [job EXCEPT ![h].pc = pc] /\ turn' = h
Await(h, pc) == job' = [job EXCEPT ![h].pc = pc] /\ turn' = None

\* Mutation: no `finally'.
Finish_KeepsFlag(h, outcome) ==
    /\ job' = [job EXCEPT ![h] = NoJob]
    /\ turn' = None
    /\ bootOutcome' = IF h = Boot THEN outcome ELSE bootOutcome
    /\ UNCHANGED <<phase, bootstrapState, refreshInProgress>>

\* The call returns or throws; `finally' clears the flag.
Finish(h, outcome) ==
    /\ job' = [job EXCEPT ![h] = NoJob]
    /\ turn' = None
    /\ refreshInProgress' = FALSE
    /\ bootOutcome' = IF h = Boot THEN outcome ELSE bootOutcome
    /\ UNCHANGED <<phase, bootstrapState>>

Running == UNCHANGED <<phase, bootstrapState, bootOutcome, refreshInProgress>>

At(h, pc) == job[h].pc = pc /\ turn = h
Resumes(h, pc) == job[h].pc = pc /\ turn = None

\* Mutation: the fingerprint is not compared.
StateMatches_SourceOnly(s, fingerprint) ==
    state # NoState /\ state.snapshot.sourcePath = s

StateMatches(s, fingerprint) ==
    /\ state # NoState
    /\ state.snapshot.sourcePath = s
    /\ state.snapshot.fingerprint = fingerprint

\* Mutation: the flag is not tested.
mayRefresh_Always == TRUE

\* Otherwise the caller gets a ConflictException, and nothing changes.
mayRefresh == ~refreshInProgress

Begun(s, rebaseline, pc) ==
    [pc |-> pc, source |-> s, rebaseline |-> rebaseline,
     fingerprint |-> buildFixtureFingerprint(s), seen |-> tree[s].payload,
     payload |-> EmptyPayload, previous |-> NoSnapshot, applied |-> FALSE]

\* From the lock to the first point where the call can yield: an incremental
\* refresh goes on to canSkipRefresh, and awaits the store there if the state
\* file names this source and this fingerprint.
Start(h, s, mode, rebaseline) ==
    LET fingerprint == buildFixtureFingerprint(s)
        waits == mode = "incremental" /\ StateMatches(s, fingerprint)
    IN  /\ job[h].pc = "idle" /\ turn = None
        /\ mayRefresh
        /\ refreshInProgress' = TRUE
        /\ job' = [job EXCEPT ![h] =
                     Begun(s, rebaseline, IF waits THEN "counting" ELSE "parse")]
        /\ turn' = IF waits THEN None ELSE h
        /\ UNCHANGED <<phase, bootstrapState, bootOutcome, source, disk, faults>>

Request(h) ==
    /\ phase = "up" /\ requests < MaxRequests
    /\ requests' = requests + 1
    /\ \E s \in Sources, mode \in {"full", "incremental"}, rebaseline \in BOOLEAN :
         Start(h, s, mode, rebaseline)

\* canServeQueries has answered. It reports FALSE when the store throws.
CanSkip(h) ==
    /\ Resumes(h, "counting")
    /\ \E servable \in BOOLEAN :
         /\ servable \/ faults < MaxFaults
         /\ faults' = IF servable THEN faults ELSE faults + 1
         /\ IF servable /\ evidence # NoEvidence
            THEN Await(h, "recounting")
            ELSE RunTo(h, "parse")
    /\ Running /\ UNCHANGED <<source, disk, requests>>

\* The incremental skip reports the state file's snapshot as unchanged.
SkipArtifact(h) ==
    /\ Resumes(h, "recounting")
    /\ artifact' = <<state.snapshot, state.snapshot>>
    /\ RunTo(h, "skipAudit")
    /\ Running
    /\ UNCHANGED <<source, graph, evidence, ontologyReport, state, stateExists, audit,
                   semantic, history, bounds>>

SkipAudit(h) ==
    /\ At(h, "skipAudit")
    /\ audit' = audit \cup {[snapshot |-> state.snapshot, rebaselineApplied |-> FALSE]}
    /\ Finish(h, "committed")
    /\ UNCHANGED <<source, graph, evidence, ontologyReport, state, stateExists, semantic,
                   history, artifact, bounds>>

------------------------------------------------------------------------------
(* Parsing and the gates: synchronous, and nothing is written.             *)

shouldBootstrapForSourceTransition(previous, s) ==
    /\ previous \in Sources /\ previous # s
    /\ PathClass[previous] = "fixtures" /\ PathClass[s] = "retrieved_org"

\* previousSemantic?.sourcePath ?? previousState?.sourcePath
PreviousSource ==
    IF semantic # NoSnapshot THEN semantic.sourcePath ELSE state.snapshot.sourcePath

rebaselineApplied(h) ==
    job[h].rebaseline \/ shouldBootstrapForSourceTransition(PreviousSource, job[h].source)

DriftRegression(fingerprint, current) ==
    /\ semantic # NoSnapshot
    /\ semantic.fingerprint = fingerprint
    /\ hasSemanticChanges(computeSemanticDiff(semantic, current))

\* Mutation: the ontology report is written but not acted on.
Admitted_AnyOntology(h, payload) ==
    LET current == buildSemanticSnapshot(job[h].fingerprint, payload, job[h].source)
    IN  \/ rebaselineApplied(h)
        \/ /\ ~DriftRegression(job[h].fingerprint, current)
           /\ EnforceOnRefresh => withinBudget(semantic, current)

Admitted(h, payload) ==
    LET current == buildSemanticSnapshot(job[h].fingerprint, payload, job[h].source)
    IN  /\ \/ rebaselineApplied(h)
           \/ /\ ~DriftRegression(job[h].fingerprint, current)
              /\ EnforceOnRefresh => withinBudget(semantic, current)
        /\ violations(payload) = {}

\* What the rest of the call uses is fixed here, the baseline included.
Parsed(h, payload) ==
    [pc |-> "report", source |-> job[h].source, rebaseline |-> job[h].rebaseline,
     fingerprint |-> job[h].fingerprint, seen |-> job[h].seen,
     payload |-> payload, previous |-> semantic, applied |-> rebaselineApplied(h)]

ParseAccepted(h) ==
    LET t == tree[job[h].source]
    IN  /\ At(h, "parse")
        /\ t.wellFormed /\ Admitted(h, t.payload)
        /\ job' = [job EXCEPT ![h] = Parsed(h, t.payload)]
        /\ UNCHANGED turn /\ Running
        /\ UNCHANGED <<source, disk, bounds>>

ParseRejected(h) ==
    LET t == tree[job[h].source]
    IN  /\ At(h, "parse")
        /\ ~(t.wellFormed /\ Admitted(h, t.payload))
        /\ Finish(h, "failed")
        /\ UNCHANGED <<source, disk, bounds>>

------------------------------------------------------------------------------
(* The commit: eight writes, one after the other.                          *)

\* Mutation: the string arguments are swapped.
Current_Swapped(h) ==
    buildSemanticSnapshot(job[h].source, job[h].payload, job[h].fingerprint)

Current(h) == buildSemanticSnapshot(job[h].fingerprint, job[h].payload, job[h].source)

\* Mutation: only the requested rebaseline is recorded.
Entry_AsRequested(h) == [snapshot |-> Current(h), rebaselineApplied |-> job[h].rebaseline]

Entry(h) == [snapshot |-> Current(h), rebaselineApplied |-> job[h].applied]

\* Ends by handing the payload to fullRebuild and awaiting it.
WriteOntologyReport(h) ==
    /\ At(h, "report")
    /\ ontologyReport' = job[h].payload
    /\ Await(h, "rebuild")
    /\ Running
    /\ UNCHANGED <<source, graph, evidence, state, stateExists, audit, semantic, history,
                   artifact, bounds>>

\* The store's transaction commits; the handler has not resumed yet.
FullRebuild(h) ==
    /\ Resumes(h, "rebuild")
    /\ graph' = job[h].payload
    /\ Await(h, "reindex")
    /\ Running /\ UNCHANGED <<source, evidence, files, bounds>>

\* Mutation: the configured path is indexed, not the requested one.
ReindexEvidence_Configured(h) ==
    /\ Resumes(h, "reindex")
    /\ evidence' = IndexOf(FixturesSource)
    /\ RunTo(h, "state")
    /\ Running /\ UNCHANGED <<source, graph, files, bounds>>

\* The tree is read a second time here.
ReindexEvidence(h) ==
    /\ Resumes(h, "reindex")
    /\ evidence' = IndexOf(job[h].source)
    /\ RunTo(h, "state")
    /\ Running /\ UNCHANGED <<source, graph, files, bounds>>

\* Mutation: the audit entry is left for later, and forgotten.
WriteState_NoAudit(h) ==
    /\ At(h, "state")
    /\ state' = Entry(h) /\ stateExists' = TRUE
    /\ RunTo(h, "semantic")
    /\ Running
    /\ UNCHANGED <<source, graph, evidence, ontologyReport, audit, semantic, history,
                   artifact, bounds>>

WriteState(h) ==
    /\ At(h, "state")
    /\ state' = Entry(h) /\ stateExists' = TRUE
    /\ RunTo(h, "audit")
    /\ Running
    /\ UNCHANGED <<source, graph, evidence, ontologyReport, audit, semantic, history,
                   artifact, bounds>>

AppendAudit(h) ==
    /\ At(h, "audit")
    /\ audit' = audit \cup {Entry(h)}
    /\ RunTo(h, "semantic")
    /\ Running
    /\ UNCHANGED <<source, graph, evidence, ontologyReport, state, stateExists, semantic,
                   history, artifact, bounds>>

WriteSemanticSnapshot(h) ==
    /\ At(h, "semantic")
    /\ semantic' = Current(h)
    /\ RunTo(h, "history")
    /\ Running
    /\ UNCHANGED <<source, graph, evidence, ontologyReport, state, stateExists, audit,
                   history, artifact, bounds>>

\* One file for each snapshot id; the id does not depend on the source's path.
OtherSnapshots(h) == {s \in history : snapshotId(s) # snapshotId(Current(h))}

WriteHistory(h) ==
    /\ At(h, "history")
    /\ history' = OtherSnapshots(h) \cup {Current(h)}
    /\ RunTo(h, "artifact")
    /\ Running
    /\ UNCHANGED <<source, graph, evidence, ontologyReport, state, stateExists, audit,
                   semantic, artifact, bounds>>

WriteDiffArtifact(h) ==
    /\ At(h, "artifact")
    /\ artifact' = <<job[h].previous, Current(h)>>
    /\ Finish(h, "committed")
    /\ UNCHANGED <<source, graph, evidence, ontologyReport, state, stateExists, audit,
                   semantic, history, bounds>>

------------------------------------------------------------------------------
(* Failures.                                                               *)

\* writeFileSync truncates before it writes: dying, or throwing, in the middle
\* of a write leaves a file that reads back as nothing.
Interrupted(pc) == \E h \in Handlers : At(h, pc)
Torn(pc) == {FALSE} \cup (IF Interrupted(pc) THEN {TRUE} ELSE {})

TearFiles ==
    /\ \E torn \in Torn("state") :
         /\ state' = IF torn THEN NoState ELSE state
         /\ stateExists' = (stateExists \/ torn)
    /\ \E torn \in Torn("semantic") : semantic' = IF torn THEN NoSnapshot ELSE semantic
    /\ \E torn \in Torn("history") :
         history' = IF torn
                    THEN {s \in history : \A h \in Handlers :
                                            At(h, "history") => s \in OtherSnapshots(h)}
                    ELSE history
    /\ UNCHANGED <<graph, evidence, ontologyReport, audit, artifact>>

\* A query, a read or a write throws, and the call with it.
OperationFails(h) ==
    /\ faults < MaxFaults
    /\ \/ At(h, job[h].pc) /\ job[h].pc \in Writing \ {"parse"}
       \/ Resumes(h, job[h].pc) /\ job[h].pc \in Awaiting \ {"counting"}
    /\ faults' = faults + 1
    /\ Finish(h, "failed")
    /\ TearFiles
    /\ UNCHANGED <<source, requests>>

Crash ==
    /\ phase # "down" /\ faults < MaxFaults
    /\ faults' = faults + 1
    /\ phase' = "down" /\ bootstrapState' = "pending" /\ bootOutcome' = "none"
    /\ refreshInProgress' = FALSE /\ turn' = None
    /\ job' = [h \in Handlers |-> NoJob]
    /\ TearFiles
    /\ UNCHANGED <<source, requests>>

------------------------------------------------------------------------------
(* Starting up: RuntimeBootstrapService.ensureRuntimeReady, then listen.   *)

Restart ==
    /\ phase = "down"
    /\ phase' = "booting"
    /\ UNCHANGED <<bootstrapState, bootOutcome, refreshInProgress, turn, job,
                   source, disk, bounds>>

hasGroundedRuntimeData ==
    /\ graph.nodes # {} /\ graph.edges # {}
    /\ stateExists
    /\ evidence.documents

Listen(status) ==
    /\ phase' = "up" /\ bootstrapState' = status /\ bootOutcome' = "none"
    /\ UNCHANGED <<refreshInProgress, turn, job, source, disk, bounds>>

\* Bootstrap off, fixtures missing, or data found that looks grounded.
BootstrapDecides ==
    /\ phase = "booting" /\ job[Boot].pc = "idle" /\ bootOutcome = "none"
    /\ \/ FALSE \in BootstrapModes /\ Listen("disabled")
       \/ /\ TRUE \in BootstrapModes
          /\ tree[FixturesSource].layout = "absent"
          /\ Listen("failed")
       \/ /\ TRUE \in BootstrapModes
          /\ tree[FixturesSource].layout # "absent" /\ hasGroundedRuntimeData
          /\ Listen("ready")

\* Rebaselined, so that no drift gate applies: only one attempt is ever made.
BootstrapRefreshes ==
    /\ phase = "booting" /\ bootOutcome = "none" /\ TRUE \in BootstrapModes
    /\ tree[FixturesSource].layout # "absent" /\ ~hasGroundedRuntimeData
    /\ Start(Boot, FixturesSource, "full", TRUE)
    /\ UNCHANGED requests

\* Mutation: an error of the refresh is not caught.
BootstrapEnds_Uncaught ==
    /\ phase = "booting" /\ bootOutcome = "committed"
    /\ Listen("ready")

BootstrapEnds ==
    /\ phase = "booting" /\ bootOutcome # "none"
    /\ Listen(IF bootOutcome = "committed" /\ graph.nodes # {} /\ graph.edges # {}
                 /\ evidence.documents
              THEN "ready" ELSE "failed")

------------------------------------------------------------------------------
(* The environment edits a source tree, whether or not the engine runs.    *)

Edit(s) ==
    /\ MapThenSumSet(LAMBDA i : stamp[i], Sources) < MaxEdits
    /\ \E t \in Trees : tree' = [tree EXCEPT ![s] = t]
    /\ stamp' = [stamp EXCEPT ![s] = @ + 1]
    /\ UNCHANGED <<process, disk, bounds>>

Step(h) ==
    \/ CanSkip(h) \/ SkipArtifact(h) \/ SkipAudit(h)
    \/ ParseAccepted(h) \/ ParseRejected(h)
    \/ WriteOntologyReport(h) \/ FullRebuild(h) \/ ReindexEvidence(h) \/ WriteState(h)
    \/ AppendAudit(h) \/ WriteSemanticSnapshot(h) \/ WriteHistory(h) \/ WriteDiffArtifact(h)

Bootstrap == BootstrapDecides \/ BootstrapRefreshes \/ BootstrapEnds

Next ==
    \/ \E h \in Callers : Request(h)
    \/ \E h \in Handlers : Step(h)
    \/ \E h \in Handlers : OperationFails(h)
    \/ Bootstrap \/ Restart \/ Crash
    \/ \E s \in Sources : Edit(s)

\* The event loop runs a section that has begun to its end, settles every
\* awaited query, and ensureRuntimeReady is awaited before listen. Requests,
\* restarts, edits and failures are never owed.
Progress == (\E h \in Handlers : Step(h)) \/ Bootstrap

Spec == Init /\ [][Next]_vars
FairSpec == Spec /\ WF_vars(Progress)

------------------------------------------------------------------------------
(* Properties.                                                             *)

Active(h) == job[h].pc # "idle"

\* The refreshInProgress flag admits one refresh at a time, across every await,
\* and is set exactly while one runs, whichever way that one ends.
OneRefresh ==
    /\ \A g, h \in Handlers : Active(g) /\ Active(h) => g = h
    /\ refreshInProgress <=> \E h \in Handlers : Active(h)

\* Whatever fails or crashes, the graph store never holds a payload that the
\* ontology gate refuses.
GraphAdmissible == violations(graph) = {}

Audited(snapshot) == \E e \in audit : e.snapshot = snapshot

\* Wherever the commit is cut off, a snapshot that serves as drift baseline, can
\* be looked up by id, or is reported as a change has its entry in the audit log.
AuditCoversSnapshots ==
    /\ semantic # NoSnapshot => Audited(semantic)
    /\ \A s \in history : Audited(s)
    /\ artifact[1] # artifact[2] => Audited(artifact[2])

WithinGates(previous, current) ==
    /\ withinBudget(previous, current)
    /\ previous.fingerprint = current.fingerprint =>
          ~hasSemanticChanges(computeSemanticDiff(previous, current))

\* A change of baseline that passes both drift gates, judged against the baseline it
\* replaces, or that the audit log records as a rebaseline.
GatedChange ==
    (/\ EnforceOnRefresh
     /\ semantic # NoSnapshot /\ semantic' # NoSnapshot /\ semantic' # semantic)
        => \/ WithinGates(semantic, semantic')
           \/ [snapshot |-> semantic', rebaselineApplied |-> TRUE] \in audit

\* No drift baseline is replaced but by a gated change: the gates were passed long
\* before the write, against a baseline read before every await of the commit.
DriftGate == [][GatedChange]_vars

Faultless == faults = 0
Quiet == \A h \in Handlers : ~Active(h)

\* While nothing has failed, every store and file agrees on the snapshot of the
\* last refresh whenever no refresh is running, however callers interleaved.
StoresAgree ==
    (Faultless /\ Quiet /\ state # NoState) =>
        /\ state \in audit
        /\ semantic = state.snapshot /\ semantic \in history
        /\ graph = state.snapshot.payload /\ ontologyReport = graph
        /\ evidence.sourcePath = state.snapshot.sourcePath
        /\ artifact[2] = state.snapshot

\* An incremental refresh that reports "no changes detected" is right: the graph
\* holds exactly what the source would have parsed to when it was asked.
SkipIsSound == \A h \in Handlers : job[h].pc = "skipAudit" => graph = job[h].seen

\* A payload that parses, satisfies the ontology and keeps to the drift budget
\* becomes the new semantic state: no other gate stands in its way.
ValidPayloadAdmitted ==
    \A h \in Handlers :
        LET t == tree[job[h].source]
            current == buildSemanticSnapshot(job[h].fingerprint, t.payload, job[h].source)
        IN  (/\ job[h].pc = "parse" /\ t.wellFormed /\ violations(t.payload) = {}
             /\ withinBudget(semantic, current))
            => Admitted(h, t.payload)

\* Every refresh ends and gives the flag back: no caller is refused for ever.
LockReleased == refreshInProgress ~> ~refreshInProgress

\* The bootstrap reaches a verdict, so the server listens, or the process dies.
StartupSettles == phase = "booting" ~> phase # "booting"
==============================================================================
