---------------------------- MODULE RefreshProofs ----------------------------
(***************************************************************************)
(* Proofs about Refresh, for every value of its constants.  First the      *)
(* types, and that one refresh runs at a time.  Then that the gates a      *)
(* refresh passes while it parses still hold when it writes: the ontology  *)
(* gate for the graph store, the audit log for every snapshot that is      *)
(* published, and the drift gates for the baseline; and that, while        *)
(* nothing fails, what the refresh writes one file after the other stays   *)
(* together.                                                               *)
(***************************************************************************)
EXTENDS Refresh, TLAPS

\* A call that is about to skip has seen a readable state file, and nobody else
\* can have taken it away: typing the skip's audit entry rests on this.
SkipHasState ==
    \A h \in Handlers :
        job[h].pc \in {"counting", "recounting", "skipAudit"} => state # NoState

IInv == TypeOK /\ OneRefresh /\ SkipHasState

\* The job of a handler that is not refreshing has the type of a job.
LEMMA NoJobType == NoJob \in Jobs
  BY RefreshAssumption DEF NoJob, Jobs, Fingerprints, NoRows, Payloads, Awaiting, Writing

\* Every tree carries a payload, and so does an empty store.
LEMMA PayloadTypes == EmptyPayload \in Payloads /\ \A t \in Trees : t.payload \in Payloads
  BY DEF Payloads

\* Whatever a source holds, its fingerprint is a fingerprint.
LEMMA FingerprintType ==
    ASSUME SourceTypeOK, NEW s \in Sources
    PROVE  buildFixtureFingerprint(s) \in Fingerprints
  BY DEF SourceTypeOK, buildFixtureFingerprint, Fingerprints

\* What a call has fixed when it parsed makes a snapshot and an entry.
LEMMA EntryType ==
    ASSUME ProcessTypeOK, NEW h \in Handlers
    PROVE  Current(h) \in Snapshots /\ Entry(h) \in Entries
  BY DEF ProcessTypeOK, Jobs, Current, Entry, buildSemanticSnapshot, Snapshots, Entries

\* A fresh installation satisfies the invariant.
LEMMA InitIInv == Init => IInv
  <1> SUFFICES ASSUME Init PROVE IInv
    OBVIOUS
  <1>1. TypeOK
    BY RefreshAssumption, NoJobType
    DEF Init, TypeOK, SourceTypeOK, ProcessTypeOK, DiskTypeOK, Payloads, Handlers
  <1>2. OneRefresh /\ SkipHasState
    BY DEF Init, OneRefresh, SkipHasState, Active, NoJob
  <1> QED BY <1>1, <1>2 DEF IInv

------------------------------------------------------------------------------
(* How a call begins, goes on and ends.                                    *)

\* A call that begins finds no other active, and waits to skip only if it has read
\* a state file.
LEMMA StartIInv ==
    ASSUME IInv, NEW h \in Handlers, NEW s \in Sources,
           NEW mode, NEW rebaseline \in BOOLEAN, Start(h, s, mode, rebaseline),
           requests' \in Nat
    PROVE  IInv'
  <1> DEFINE j == Begun(s, rebaseline,
                        IF mode = "incremental" /\ StateMatches(s, buildFixtureFingerprint(s))
                        THEN "counting" ELSE "parse")
  <1>1. j \in Jobs /\ j.pc \in {"counting", "parse"}
    <2>1. tree[s].payload \in Payloads
      BY PayloadTypes DEF IInv, TypeOK, SourceTypeOK
    <2>2. buildFixtureFingerprint(s) \in Fingerprints
      BY FingerprintType DEF IInv, TypeOK
    <2> QED BY <2>1, <2>2, PayloadTypes DEF Begun, Jobs, Awaiting, Writing
  <1>2. job' = [job EXCEPT ![h] = j]
    BY DEF Start
  <1>3. TypeOK'
    BY <1>1, <1>2
    DEF Start, IInv, TypeOK, SourceTypeOK, ProcessTypeOK, DiskTypeOK, source, disk, files
  <1>4. OneRefresh'
    BY <1>1, <1>2 DEF Start, mayRefresh, IInv, TypeOK, ProcessTypeOK, OneRefresh, Active
  <1>5. SkipHasState'
    <2>1. j.pc = "counting" => state # NoState
      BY DEF StateMatches, Begun
    <2> HIDE DEF j
    <2> QED BY <1>1, <1>2, <2>1
            DEF Start, IInv, TypeOK, ProcessTypeOK, SkipHasState, disk, files
  <1> QED BY <1>3, <1>4, <1>5 DEF IInv

\* An active call that goes on disturbs no other call and not the flag. If it is
\* about to skip, or the state file is left alone, SkipHasState needs its own word.
LEMMA GoesOn ==
    ASSUME IInv, NEW h \in Handlers, Active(h),
           NEW pc \in Awaiting \cup Writing,
           RunTo(h, pc) \/ Await(h, pc), Running
    PROVE  /\ ProcessTypeOK' /\ OneRefresh'
           /\ job'[h].pc = pc
           /\ \A g \in Handlers : Active(g)' => g = h
  <1>1. /\ job' = [job EXCEPT ![h].pc = pc] /\ turn' \in {h, None}
        /\ UNCHANGED <<phase, bootstrapState, bootOutcome, refreshInProgress>>
    BY DEF RunTo, Await, Running
  <1>2. ProcessTypeOK'
    BY <1>1 DEF IInv, TypeOK, ProcessTypeOK, Jobs
  <1>3. pc # "idle"
    BY DEF Awaiting, Writing
  <1> QED BY <1>1, <1>2, <1>3 DEF IInv, TypeOK, ProcessTypeOK, Jobs, OneRefresh, Active

\* A call that ends leaves no call active.
LEMMA Ends ==
    ASSUME IInv, NEW h \in Handlers, Active(h),
           NEW outcome \in {"committed", "failed"}, Finish(h, outcome)
    PROVE  ProcessTypeOK' /\ OneRefresh' /\ SkipHasState'
  <1>1. ProcessTypeOK'
    BY NoJobType DEF Finish, IInv, TypeOK, ProcessTypeOK
  <1>2. \A g \in Handlers : job'[g].pc = "idle"
    BY DEF Finish, IInv, TypeOK, ProcessTypeOK, OneRefresh, Active, NoJob
  <1> QED BY <1>1, <1>2 DEF Finish, OneRefresh, SkipHasState, Active

\* Tearing a file keeps the types.
LEMMA TearTypes ==
    ASSUME DiskTypeOK, TearFiles
    PROVE  DiskTypeOK'
  BY DEF DiskTypeOK, TearFiles, Torn

------------------------------------------------------------------------------
(* The invariant is inductive.                                             *)

\* The steps of a call: one step below for each action, under it the conjuncts
\* that the action can disturb.
LEMMA StepIInv ==
    ASSUME IInv, NEW h \in Handlers, Step(h)
    PROVE  IInv'
  <1> USE DEF IInv, TypeOK
  <1>1. CASE CanSkip(h)
    <2>1. Active(h) /\ UNCHANGED <<source, disk, requests>> /\ faults' \in Nat
      BY <1>1 DEF CanSkip, Resumes, Active
    <2>2. PICK pc \in {"recounting", "parse"} : (RunTo(h, pc) \/ Await(h, pc)) /\ Running
      BY <1>1 DEF CanSkip
    <2>3. ProcessTypeOK' /\ OneRefresh' /\ job'[h].pc = pc
          /\ \A g \in Handlers : Active(g)' => g = h
      BY <2>1, <2>2, GoesOn DEF Awaiting, Writing
    <2>4. state # NoState /\ UNCHANGED state
      BY <1>1, <2>1 DEF CanSkip, Resumes, SkipHasState, disk, files
    <2> QED BY <2>1, <2>3, <2>4
            DEF SourceTypeOK, DiskTypeOK, source, disk, files, SkipHasState, Active
  <1>2. CASE SkipArtifact(h)
    <2>1. Active(h) /\ RunTo(h, "skipAudit") /\ Running
      BY <1>2 DEF SkipArtifact, Resumes, Active
    <2>2. ProcessTypeOK' /\ OneRefresh' /\ \A g \in Handlers : Active(g)' => g = h
      BY <2>1, GoesOn DEF Writing
    <2>3. state # NoState /\ UNCHANGED state
      BY <1>2 DEF SkipArtifact, Resumes, SkipHasState
    <2>4. state.snapshot \in Snapshots
      BY <2>3 DEF DiskTypeOK, Entries
    <2> QED BY <1>2, <2>2, <2>3, <2>4
            DEF SkipArtifact, SourceTypeOK, DiskTypeOK, source, bounds, SkipHasState, Active
  <1>3. CASE SkipAudit(h)
    <2>1. Active(h) /\ Finish(h, "committed")
      BY <1>3 DEF SkipAudit, At, Active
    <2>2. state # NoState
      BY <1>3 DEF SkipAudit, At, SkipHasState
    <2>3. state.snapshot \in Snapshots
      BY <2>2 DEF DiskTypeOK, Entries
    <2>4. [snapshot |-> state.snapshot, rebaselineApplied |-> FALSE] \in Entries
      BY <2>3 DEF Entries
    <2> QED BY <1>3, <2>1, <2>4, Ends DEF SkipAudit, SourceTypeOK, DiskTypeOK, source, bounds
  <1>4. CASE ParseAccepted(h)
    <2> DEFINE t == tree[job[h].source]
    <2>1. job[h].pc = "parse" /\ job[h] \in Jobs /\ t.payload \in Payloads
      BY <1>4, PayloadTypes DEF ParseAccepted, At, ProcessTypeOK, SourceTypeOK, Jobs
    <2>2. Parsed(h, t.payload) \in Jobs /\ Parsed(h, t.payload).pc = "report"
      BY <2>1 DEF Parsed, Jobs, DiskTypeOK, rebaselineApplied, Writing
    <2>3. ProcessTypeOK' /\ OneRefresh' /\ SkipHasState'
      BY <1>4, <2>1, <2>2
      DEF ParseAccepted, ProcessTypeOK, OneRefresh, Active, SkipHasState, Running, disk, files
    <2> QED BY <1>4, <2>3
            DEF ParseAccepted, SourceTypeOK, DiskTypeOK, source, disk, files, bounds
  <1>5. CASE ParseRejected(h)
    <2>1. Active(h) /\ Finish(h, "failed")
      BY <1>5 DEF ParseRejected, At, Active
    <2> QED BY <1>5, <2>1, Ends
            DEF ParseRejected, SourceTypeOK, DiskTypeOK, source, disk, files, bounds
  <1>6. CASE WriteOntologyReport(h)
    <2>1. Active(h) /\ Await(h, "rebuild") /\ Running
      BY <1>6 DEF WriteOntologyReport, At, Active
    <2>2. ProcessTypeOK' /\ OneRefresh' /\ job'[h].pc = "rebuild"
          /\ \A g \in Handlers : Active(g)' => g = h
      BY <2>1, GoesOn DEF Awaiting
    <2> QED BY <1>6, <2>2
            DEF WriteOntologyReport, ProcessTypeOK, Jobs, SourceTypeOK, DiskTypeOK, source,
                bounds, SkipHasState, Active
  <1>7. CASE FullRebuild(h)
    <2>1. Active(h) /\ Await(h, "reindex") /\ Running
      BY <1>7 DEF FullRebuild, Resumes, Active
    <2>2. ProcessTypeOK' /\ OneRefresh' /\ job'[h].pc = "reindex"
          /\ \A g \in Handlers : Active(g)' => g = h
      BY <2>1, GoesOn DEF Awaiting
    <2> QED BY <1>7, <2>2
            DEF FullRebuild, ProcessTypeOK, Jobs, SourceTypeOK, DiskTypeOK, source, files,
                bounds, SkipHasState, Active
  <1>8. CASE ReindexEvidence(h)
    <2>1. Active(h) /\ RunTo(h, "state") /\ Running
      BY <1>8 DEF ReindexEvidence, Resumes, Active
    <2>2. ProcessTypeOK' /\ OneRefresh' /\ job'[h].pc = "state"
          /\ \A g \in Handlers : Active(g)' => g = h
      BY <2>1, GoesOn DEF Writing
    <2>3. job[h].source \in Sources
      BY DEF ProcessTypeOK, Jobs
    <2>4. evidence' \in [sourcePath : Sources, fingerprint : Fingerprints, documents : BOOLEAN]
      BY <1>8, <2>3, FingerprintType DEF ReindexEvidence, IndexOf
    <2> QED BY <1>8, <2>2, <2>4
            DEF ReindexEvidence, SourceTypeOK, DiskTypeOK, source, files, bounds,
                SkipHasState, Active
  <1>9. CASE WriteState(h)
    <2>1. Active(h) /\ RunTo(h, "audit") /\ Running
      BY <1>9 DEF WriteState, At, Active
    <2>2. ProcessTypeOK' /\ OneRefresh' /\ job'[h].pc = "audit"
          /\ \A g \in Handlers : Active(g)' => g = h
      BY <2>1, GoesOn DEF Writing
    <2> QED BY <1>9, <2>2, EntryType
            DEF WriteState, SourceTypeOK, DiskTypeOK, source, bounds, SkipHasState, Active
  <1>10. CASE AppendAudit(h)
    <2>1. Active(h) /\ RunTo(h, "semantic") /\ Running
      BY <1>10 DEF AppendAudit, At, Active
    <2>2. ProcessTypeOK' /\ OneRefresh' /\ job'[h].pc = "semantic"
          /\ \A g \in Handlers : Active(g)' => g = h
      BY <2>1, GoesOn DEF Writing
    <2> QED BY <1>10, <2>2, EntryType
            DEF AppendAudit, SourceTypeOK, DiskTypeOK, source, bounds, SkipHasState, Active
  <1>11. CASE WriteSemanticSnapshot(h)
    <2>1. Active(h) /\ RunTo(h, "history") /\ Running
      BY <1>11 DEF WriteSemanticSnapshot, At, Active
    <2>2. ProcessTypeOK' /\ OneRefresh' /\ job'[h].pc = "history"
          /\ \A g \in Handlers : Active(g)' => g = h
      BY <2>1, GoesOn DEF Writing
    <2> QED BY <1>11, <2>2, EntryType
            DEF WriteSemanticSnapshot, SourceTypeOK, DiskTypeOK, source, bounds, SkipHasState,
                Active
  <1>12. CASE WriteHistory(h)
    <2>1. Active(h) /\ RunTo(h, "artifact") /\ Running
      BY <1>12 DEF WriteHistory, At, Active
    <2>2. ProcessTypeOK' /\ OneRefresh' /\ job'[h].pc = "artifact"
          /\ \A g \in Handlers : Active(g)' => g = h
      BY <2>1, GoesOn DEF Writing
    <2> QED BY <1>12, <2>2, EntryType
            DEF WriteHistory, OtherSnapshots, SourceTypeOK, DiskTypeOK, source, bounds,
                SkipHasState, Active
  <1>13. CASE WriteDiffArtifact(h)
    <2>1. Active(h) /\ Finish(h, "committed")
      BY <1>13 DEF WriteDiffArtifact, At, Active
    <2>2. job[h].previous \in Snapshots \cup {NoSnapshot}
      BY DEF ProcessTypeOK, Jobs
    <2> QED BY <1>13, <2>1, <2>2, Ends, EntryType
            DEF WriteDiffArtifact, SourceTypeOK, DiskTypeOK, source, bounds
  <1> QED BY <1>1, <1>2, <1>3, <1>4, <1>5, <1>6, <1>7, <1>8, <1>9, <1>10, <1>11, <1>12,
             <1>13 DEF Step

\* An operation that throws ends its call and tears at most the file it wrote.
LEMMA FailureIInv ==
    ASSUME IInv, NEW h \in Handlers, OperationFails(h)
    PROVE  IInv'
  <1>1. Active(h) /\ Finish(h, "failed")
    BY DEF OperationFails, At, Resumes, Active, Awaiting, Writing
  <1>2. DiskTypeOK'
    BY TearTypes DEF OperationFails, IInv, TypeOK
  <1> QED BY <1>1, <1>2, Ends DEF OperationFails, IInv, TypeOK, SourceTypeOK, source

\* A crash ends every call, and the flag goes with the memory of the process.
LEMMA CrashIInv ==
    ASSUME IInv, Crash
    PROVE  IInv'
  <1>1. DiskTypeOK'
    BY TearTypes DEF Crash, IInv, TypeOK
  <1>2. ProcessTypeOK'
    BY NoJobType DEF Crash, ProcessTypeOK
  <1>3. \A h \in Handlers : job'[h].pc = "idle"
    BY DEF Crash, NoJob
  <1>4. OneRefresh' /\ SkipHasState'
    BY <1>3 DEF Crash, OneRefresh, SkipHasState, Active
  <1> QED BY <1>1, <1>2, <1>4 DEF Crash, IInv, TypeOK, SourceTypeOK, source

\* Everything the rest of Next does to the process is to change its phase.
LEMMA PhaseIInv ==
    ASSUME IInv, UNCHANGED <<refreshInProgress, turn, job, source, disk, bounds>>,
           phase' \in {"down", "booting", "up"},
           bootstrapState' \in {"pending", "disabled", "ready", "failed"},
           bootOutcome' \in {"none", "committed", "failed"}
    PROVE  IInv'
  BY DEF IInv, TypeOK, SourceTypeOK, ProcessTypeOK, DiskTypeOK, OneRefresh, SkipHasState,
         Active, source, disk, files, bounds

\* The bootstrap starts a call, or reaches a verdict and lets the server listen.
LEMMA BootstrapIInv ==
    ASSUME IInv, Bootstrap
    PROVE  IInv'
  <1>1. ASSUME NEW status \in {"disabled", "ready", "failed"}, Listen(status) PROVE IInv'
    BY <1>1, PhaseIInv DEF Listen
  <1>2. CASE BootstrapDecides
    BY <1>1, <1>2 DEF BootstrapDecides
  <1>3. CASE BootstrapRefreshes
    BY <1>3, StartIInv, RefreshAssumption DEF BootstrapRefreshes, Handlers, IInv, TypeOK
  <1>4. CASE BootstrapEnds
    BY <1>1, <1>4 DEF BootstrapEnds
  <1> QED BY <1>2, <1>3, <1>4 DEF Bootstrap

\* Editing a source disturbs nothing that a running call has fixed.
LEMMA EditIInv ==
    ASSUME IInv, NEW s \in Sources, Edit(s)
    PROVE  IInv'
  BY DEF Edit, IInv, TypeOK, SourceTypeOK, ProcessTypeOK, DiskTypeOK, OneRefresh,
         SkipHasState, Active, process, disk, files, bounds

\* One step for each disjunct of the next-state relation.
LEMMA NextIInv == IInv /\ [Next]_vars => IInv'
  <1> SUFFICES ASSUME IInv, [Next]_vars PROVE IInv'
    OBVIOUS
  <1>1. ASSUME NEW h \in Callers, Request(h) PROVE IInv'
    BY <1>1, StartIInv DEF Request, Handlers, IInv, TypeOK
  <1>2. ASSUME NEW h \in Handlers, Step(h) PROVE IInv'
    BY <1>2, StepIInv
  <1>3. ASSUME NEW h \in Handlers, OperationFails(h) PROVE IInv'
    BY <1>3, FailureIInv
  <1>4. CASE Bootstrap
    BY <1>4, BootstrapIInv
  <1>5. CASE Restart
    BY <1>5, PhaseIInv DEF Restart, IInv, TypeOK, ProcessTypeOK
  <1>6. CASE Crash
    BY <1>6, CrashIInv
  <1>7. ASSUME NEW s \in Sources, Edit(s) PROVE IInv'
    BY <1>7, EditIInv
  <1>8. CASE UNCHANGED vars
    BY <1>8, PhaseIInv DEF vars, process, bounds, IInv, TypeOK, ProcessTypeOK
  <1> QED BY <1>1, <1>2, <1>3, <1>4, <1>5, <1>6, <1>7, <1>8 DEF Next

\* The inductive invariant holds in every reachable state: the types, the mutual
\* exclusion and what a pending skip has seen.
THEOREM Inductive == Spec => []IInv
  BY InitIInv, NextIInv, PTL DEF Spec

\* Every variable keeps its type: no step writes a record of another shape to a file
\* of the engine, or a job it could not have (IngestionService.refresh).
THEOREM TypeCorrect == Spec => []TypeOK
  <1>1. IInv => TypeOK
    BY DEF IInv
  <1> QED BY <1>1, Inductive, PTL

\* At most one refresh runs at any time, and refreshInProgress says whether one does,
\* for any number of callers, the bootstrap, failures and crashes included.
THEOREM MutualExclusion == Spec => []OneRefresh
  <1>1. IInv => OneRefresh
    BY DEF IInv
  <1> QED BY <1>1, Inductive, PTL
------------------------------------------------------------------------------
(* The gates, and what stays together.                                     *)

BeforeBaseline == {"report", "rebuild", "reindex", "state", "audit", "semantic"}
AfterAudit     == {"semantic", "history", "artifact"}

\* What the commit has been admitted with stays admissible until the store has it.
CommitAdmissible ==
    \A h \in Handlers :
        job[h].pc \in BeforeBaseline => violations(job[h].payload) = {}

\* From AppendAudit on, the entry of the running commit is in the log.
CommitAudited == \A h \in Handlers : job[h].pc \in AfterAudit => Entry(h) \in audit

\* The baseline the commit was judged against is still the one it will replace.
CommitGated ==
    \A h \in Handlers :
        (/\ job[h].pc \in BeforeBaseline
         /\ EnforceOnRefresh /\ ~job[h].applied /\ semantic # NoSnapshot)
        => WithinGates(semantic, Current(h))

GateInv ==
    /\ GraphAdmissible /\ CommitAdmissible
    /\ AuditCoversSnapshots /\ CommitAudited
    /\ CommitGated

\* A fresh installation satisfies it: the empty graph violates nothing.
LEMMA InitGateInv == Init => GateInv
  <1> SUFFICES ASSUME Init PROVE GateInv
    OBVIOUS
  <1>1. violations(EmptyPayload) = {}
    BY DEF violations, EmptyPayload
  <1>2. \A h \in Handlers : job[h].pc = "idle"
    BY DEF Init, NoJob
  <1>3. GraphAdmissible
    BY <1>1 DEF Init, GraphAdmissible
  <1>4. AuditCoversSnapshots
    BY DEF Init, AuditCoversSnapshots
  <1>5. CommitAdmissible /\ CommitAudited /\ CommitGated
    BY <1>2 DEF CommitAdmissible, CommitAudited, CommitGated, BeforeBaseline, AfterAudit
  <1> QED BY <1>3, <1>4, <1>5 DEF GateInv

\* A call outside its commit owes nothing but what the stores hold already.
LEMMA NoCommit ==
    ASSUME \A h \in Handlers : job'[h].pc \notin BeforeBaseline \cup AfterAudit,
           GraphAdmissible', AuditCoversSnapshots'
    PROVE  GateInv'
  BY DEF GateInv, CommitAdmissible, CommitAudited, CommitGated

\* Moving on keeps what the call has fixed, and leaves it the only active one.
LEMMA Moves ==
    ASSUME IInv, NEW h \in Handlers, Active(h),
           NEW pc \in Awaiting \cup Writing,
           RunTo(h, pc) \/ Await(h, pc), Running
    PROVE  /\ job'[h].pc = pc
           /\ Current(h)' = Current(h) /\ Entry(h)' = Entry(h)
           /\ job'[h].payload = job[h].payload /\ job'[h].applied = job[h].applied
           /\ job'[h].source = job[h].source
           /\ \A g \in Handlers : g # h => job'[g].pc = "idle"
  <1>1. job' = [job EXCEPT ![h].pc = pc]
    BY DEF RunTo, Await
  <1>2. \A g \in Handlers : Active(g)' => g = h
    BY GoesOn
  <1>3. job'[h] = [job[h] EXCEPT !.pc = pc] /\ job[h] \in Jobs
    BY <1>1 DEF IInv, TypeOK, ProcessTypeOK
  <1>4. job'[h].pc = pc /\ \A f \in {"source", "fingerprint", "payload", "applied"} :
                              job'[h][f] = job[h][f]
    BY <1>3 DEF Jobs
  <1> QED BY <1>2, <1>4 DEF Active, Current, Entry, buildSemanticSnapshot

\* A call that ends leaves every job idle.
LEMMA EndsIdle ==
    ASSUME IInv, NEW h \in Handlers, Active(h),
           NEW outcome \in {"committed", "failed"}, Finish(h, outcome)
    PROVE  \A g \in Handlers : job'[g].pc \notin BeforeBaseline \cup AfterAudit
  <1>1. \A g \in Handlers : job'[g].pc = "idle"
    BY DEF Finish, IInv, TypeOK, ProcessTypeOK, OneRefresh, Active, NoJob
  <1> QED BY <1>1 DEF BeforeBaseline, AfterAudit

------------------------------------------------------------------------------
(* The invariant is inductive.                                             *)

\* The steps of a call, one by one: what they write was admitted, audited and
\* judged, and what is still to be written stays so.
LEMMA StepGateInv ==
    ASSUME IInv, GateInv, NEW h \in Handlers, Step(h)
    PROVE  GateInv'
  <1> USE DEF GateInv
  <1>1. CASE CanSkip(h)
    <2>1. Active(h)
      BY <1>1 DEF CanSkip, Resumes, Active
    <2>2. PICK pc \in {"recounting", "parse"} : (RunTo(h, pc) \/ Await(h, pc)) /\ Running
      BY <1>1 DEF CanSkip
    <2>3. \A g \in Handlers : job'[g].pc \notin BeforeBaseline \cup AfterAudit
      BY <2>1, <2>2, Moves DEF Awaiting, Writing, BeforeBaseline, AfterAudit
    <2>4. GraphAdmissible' /\ AuditCoversSnapshots'
      BY <1>1 DEF CanSkip, disk, files, GraphAdmissible, AuditCoversSnapshots, Audited
    <2> QED BY <2>3, <2>4, NoCommit
  <1>2. CASE SkipArtifact(h)
    <2>1. Active(h) /\ RunTo(h, "skipAudit") /\ Running
      BY <1>2 DEF SkipArtifact, Resumes, Active
    <2>2. \A g \in Handlers : job'[g].pc \notin BeforeBaseline \cup AfterAudit
      BY <2>1, Moves DEF Writing, BeforeBaseline, AfterAudit
    <2>3. GraphAdmissible' /\ AuditCoversSnapshots'
      BY <1>2 DEF SkipArtifact, GraphAdmissible, AuditCoversSnapshots, Audited
    <2> QED BY <2>2, <2>3, NoCommit
  <1>3. CASE SkipAudit(h)
    <2>1. Active(h) /\ Finish(h, "committed")
      BY <1>3 DEF SkipAudit, At, Active
    <2>2. GraphAdmissible' /\ AuditCoversSnapshots'
      BY <1>3 DEF SkipAudit, GraphAdmissible, AuditCoversSnapshots, Audited
    <2> QED BY <2>1, <2>2, EndsIdle, NoCommit
  <1>4. CASE ParseAccepted(h)
    <2> DEFINE payload == tree[job[h].source].payload
               current == buildSemanticSnapshot(job[h].fingerprint, payload, job[h].source)
    <2>1. /\ job' = [job EXCEPT ![h] = Parsed(h, payload)]
          /\ Admitted(h, payload) /\ UNCHANGED <<disk, refreshInProgress>>
          /\ job[h].pc = "parse"
      BY <1>4 DEF ParseAccepted, At, Running
    <2>2. \A g \in Handlers : g # h => job'[g].pc = "idle"
      BY <2>1 DEF IInv, TypeOK, ProcessTypeOK, OneRefresh, Active
    <2>3. /\ job'[h].payload = payload /\ job'[h].pc = "report"
          /\ job'[h].applied = rebaselineApplied(h) /\ Current(h)' = current
      BY <2>1 DEF IInv, TypeOK, ProcessTypeOK, Parsed, Current, buildSemanticSnapshot
    <2>4. violations(payload) = {}
      BY <2>1 DEF Admitted
    <2>5. \/ rebaselineApplied(h)
          \/ /\ ~DriftRegression(job[h].fingerprint, current)
             /\ EnforceOnRefresh => withinBudget(semantic, current)
      BY <2>1 DEF Admitted
    <2>6. (EnforceOnRefresh /\ ~rebaselineApplied(h) /\ semantic # NoSnapshot)
             => WithinGates(semantic, current)
      BY <2>5 DEF WithinGates, DriftRegression, buildSemanticSnapshot
    <2>7. UNCHANGED <<graph, audit, semantic, history, artifact>>
      BY <2>1 DEF disk, files
    <2>8. GraphAdmissible' /\ AuditCoversSnapshots'
      BY <2>7 DEF GraphAdmissible, AuditCoversSnapshots, Audited
    <2>9. CommitAdmissible' /\ CommitAudited'
      BY <2>2, <2>3, <2>4 DEF CommitAdmissible, CommitAudited, BeforeBaseline, AfterAudit
    <2>10. CommitGated'
      <3> HIDE DEF current, payload
      <3> QED BY <2>2, <2>3, <2>6, <2>7 DEF CommitGated, BeforeBaseline
    <2> QED BY <2>8, <2>9, <2>10
  <1>5. CASE ParseRejected(h)
    <2>1. Active(h) /\ Finish(h, "failed")
      BY <1>5 DEF ParseRejected, At, Active
    <2>2. GraphAdmissible' /\ AuditCoversSnapshots'
      BY <1>5 DEF ParseRejected, disk, files, GraphAdmissible, AuditCoversSnapshots, Audited
    <2> QED BY <2>1, <2>2, EndsIdle, NoCommit
  <1>6. CASE WriteOntologyReport(h)
    <2>1. Active(h) /\ Await(h, "rebuild") /\ Running /\ job[h].pc \in BeforeBaseline
      BY <1>6 DEF WriteOntologyReport, At, Active, BeforeBaseline
    <2> QED BY <1>6, <2>1, Moves
            DEF WriteOntologyReport, Awaiting, GraphAdmissible, CommitAdmissible,
                AuditCoversSnapshots, Audited, CommitAudited, CommitGated, BeforeBaseline,
                AfterAudit
  <1>7. CASE FullRebuild(h)
    <2>1. Active(h) /\ Await(h, "reindex") /\ Running /\ job[h].pc \in BeforeBaseline
      BY <1>7 DEF FullRebuild, Resumes, Active, BeforeBaseline
    <2> QED BY <1>7, <2>1, Moves
            DEF FullRebuild, Awaiting, files, GraphAdmissible, CommitAdmissible,
                AuditCoversSnapshots, Audited, CommitAudited, CommitGated, BeforeBaseline,
                AfterAudit
  <1>8. CASE ReindexEvidence(h)
    <2>1. Active(h) /\ RunTo(h, "state") /\ Running /\ job[h].pc \in BeforeBaseline
      BY <1>8 DEF ReindexEvidence, Resumes, Active, BeforeBaseline
    <2> QED BY <1>8, <2>1, Moves
            DEF ReindexEvidence, Writing, files, GraphAdmissible, CommitAdmissible,
                AuditCoversSnapshots, Audited, CommitAudited, CommitGated, BeforeBaseline,
                AfterAudit
  <1>9. CASE WriteState(h)
    <2>1. Active(h) /\ RunTo(h, "audit") /\ Running /\ job[h].pc \in BeforeBaseline
      BY <1>9 DEF WriteState, At, Active, BeforeBaseline
    <2> QED BY <1>9, <2>1, Moves
            DEF WriteState, Writing, GraphAdmissible, CommitAdmissible,
                AuditCoversSnapshots, Audited, CommitAudited, CommitGated, BeforeBaseline,
                AfterAudit
  <1>10. CASE AppendAudit(h)
    <2>1. Active(h) /\ RunTo(h, "semantic") /\ Running /\ job[h].pc \in BeforeBaseline
      BY <1>10 DEF AppendAudit, At, Active, BeforeBaseline
    <2> QED BY <1>10, <2>1, Moves
            DEF AppendAudit, Writing, GraphAdmissible, CommitAdmissible,
                AuditCoversSnapshots, Audited, CommitAudited, CommitGated, BeforeBaseline,
                AfterAudit
  <1>11. CASE WriteSemanticSnapshot(h)
    <2>1. Active(h) /\ RunTo(h, "history") /\ Running /\ job[h].pc \in AfterAudit
      BY <1>11 DEF WriteSemanticSnapshot, At, Active, AfterAudit
    <2>2. Entry(h) \in audit /\ Entry(h).snapshot = Current(h)
      BY <2>1 DEF CommitAudited, Entry
    <2> QED BY <1>11, <2>1, <2>2, Moves
            DEF WriteSemanticSnapshot, Writing, GraphAdmissible, CommitAdmissible,
                AuditCoversSnapshots, Audited, CommitAudited, CommitGated, BeforeBaseline,
                AfterAudit
  <1>12. CASE WriteHistory(h)
    <2>1. Active(h) /\ RunTo(h, "artifact") /\ Running /\ job[h].pc \in AfterAudit
      BY <1>12 DEF WriteHistory, At, Active, AfterAudit
    <2>2. Entry(h) \in audit /\ Entry(h).snapshot = Current(h)
      BY <2>1 DEF CommitAudited, Entry
    <2> QED BY <1>12, <2>1, <2>2, Moves
            DEF WriteHistory, OtherSnapshots, Writing, GraphAdmissible, CommitAdmissible,
                AuditCoversSnapshots, Audited, CommitAudited, CommitGated, BeforeBaseline,
                AfterAudit
  <1>13. CASE WriteDiffArtifact(h)
    <2>1. Active(h) /\ Finish(h, "committed") /\ job[h].pc \in AfterAudit
      BY <1>13 DEF WriteDiffArtifact, At, Active, AfterAudit
    <2>2. Entry(h) \in audit /\ Entry(h).snapshot = Current(h)
      BY <2>1 DEF CommitAudited, Entry
    <2>3. GraphAdmissible' /\ AuditCoversSnapshots'
      BY <1>13, <2>2
      DEF WriteDiffArtifact, GraphAdmissible, AuditCoversSnapshots, Audited
    <2> QED BY <2>1, <2>3, EndsIdle, NoCommit
  <1> QED BY <1>1, <1>2, <1>3, <1>4, <1>5, <1>6, <1>7, <1>8, <1>9, <1>10, <1>11, <1>12,
             <1>13 DEF Step

\* Dying in the middle of a write loses snapshots and publishes none.
LEMMA TornFiles ==
    ASSUME GateInv, TearFiles
    PROVE  GraphAdmissible' /\ AuditCoversSnapshots'
  <1>1. semantic' \in {semantic, NoSnapshot} /\ history' \subseteq history
        /\ UNCHANGED <<graph, audit, artifact>>
    BY DEF TearFiles, Torn
  <1> QED BY <1>1 DEF GateInv, GraphAdmissible, AuditCoversSnapshots, Audited

\* What changes only the process or the sources, and no call, keeps the gates.
LEMMA Elsewhere ==
    ASSUME GateInv, UNCHANGED <<job, disk>>
    PROVE  GateInv'
  BY DEF GateInv, GraphAdmissible, CommitAdmissible, AuditCoversSnapshots, Audited,
         CommitAudited, CommitGated, Current, Entry, disk, files

\* A call that begins has not parsed, and nobody else is active.
LEMMA StartGateInv ==
    ASSUME IInv, GateInv, NEW h \in Handlers, NEW s, NEW mode, NEW rebaseline,
           Start(h, s, mode, rebaseline)
    PROVE  GateInv'
  <1>1. PICK pc \in {"counting", "parse"} : job' = [job EXCEPT ![h] = Begun(s, rebaseline, pc)]
    BY DEF Start
  <1>2. ~refreshInProgress /\ UNCHANGED disk
    BY DEF Start, mayRefresh
  <1>3. \A g \in Handlers : job'[g].pc \in {"idle", "counting", "parse"}
    BY <1>1, <1>2 DEF Begun, IInv, TypeOK, ProcessTypeOK, OneRefresh, Active
  <1>4. \A g \in Handlers : job'[g].pc \notin BeforeBaseline \cup AfterAudit
    BY <1>3 DEF BeforeBaseline, AfterAudit
  <1>5. GraphAdmissible' /\ AuditCoversSnapshots'
    BY <1>2 DEF GateInv, disk, files, GraphAdmissible, AuditCoversSnapshots, Audited
  <1> QED BY <1>4, <1>5, NoCommit

\* One step for each disjunct of the next-state relation.
LEMMA NextGateInv == IInv /\ GateInv /\ [Next]_vars => GateInv'
  <1> SUFFICES ASSUME IInv, GateInv, [Next]_vars PROVE GateInv'
    OBVIOUS
  <1>1. ASSUME NEW h \in Callers, Request(h) PROVE GateInv'
    BY <1>1, StartGateInv DEF Request, Handlers
  <1>2. ASSUME NEW h \in Handlers, Step(h) PROVE GateInv'
    BY <1>2, StepGateInv
  <1>3. ASSUME NEW h \in Handlers, OperationFails(h) PROVE GateInv'
    <2>1. Active(h) /\ Finish(h, "failed") /\ TearFiles
      BY <1>3 DEF OperationFails, At, Resumes, Active, Awaiting, Writing
    <2> QED BY <2>1, EndsIdle, TornFiles, NoCommit
  <1>4. CASE Crash
    <2>1. \A g \in Handlers : job'[g].pc \notin BeforeBaseline \cup AfterAudit
      BY <1>4 DEF Crash, NoJob, BeforeBaseline, AfterAudit
    <2> QED BY <1>4, <2>1, TornFiles, NoCommit DEF Crash
  <1>5. CASE BootstrapRefreshes
    BY <1>5, StartGateInv DEF BootstrapRefreshes, Handlers
  <1>6. CASE BootstrapDecides \/ BootstrapEnds
    BY <1>6, Elsewhere DEF BootstrapDecides, BootstrapEnds, Listen
  <1>7. CASE Restart
    BY <1>7, Elsewhere DEF Restart
  <1>8. ASSUME NEW s \in Sources, Edit(s) PROVE GateInv'
    BY <1>8, Elsewhere DEF Edit, process
  <1>9. CASE UNCHANGED vars
    BY <1>9, Elsewhere DEF vars, process
  <1> QED BY <1>1, <1>2, <1>3, <1>4, <1>5, <1>6, <1>7, <1>8, <1>9 DEF Next, Bootstrap

\* The gates hold in every reachable state.
THEOREM GatesHold == Spec => []GateInv
  BY InitGateInv, NextGateInv, Inductive, PTL DEF Spec

\* Whatever fails or crashes, and however callers interleave, the graph store holds
\* only payloads that passed the ontology gate (IngestionService.refresh).
THEOREM OnlyAdmissibleGraphs == Spec => []GraphAdmissible
  <1>1. GateInv => GraphAdmissible
    BY DEF GateInv
  <1> QED BY <1>1, GatesHold, PTL

\* Every snapshot that is a baseline, is kept by id or is reported as a change has
\* an audit entry: the audit log is appended before the three files are written.
THEOREM AuditIsComplete == Spec => []AuditCoversSnapshots
  <1>1. GateInv => AuditCoversSnapshots
    BY DEF GateInv
  <1> QED BY <1>1, GatesHold, PTL

------------------------------------------------------------------------------
(* The drift gate: an action property.                                     *)

\* Only WriteSemanticSnapshot puts a new baseline in place of another.
LEMMA BaselineWriter ==
    ASSUME IInv, [Next]_vars
    PROVE  \/ semantic' \in {semantic, NoSnapshot}
           \/ \E h \in Handlers : WriteSemanticSnapshot(h)
  <1> DEFINE Kept == semantic' \in {semantic, NoSnapshot}
  <1>1. ASSUME NEW h \in Callers, Request(h) PROVE Kept
    BY <1>1 DEF Request, Start, disk, files
  <1>2. ASSUME NEW h \in Handlers, Step(h), ~WriteSemanticSnapshot(h) PROVE Kept
    BY <1>2
    DEF Step, CanSkip, SkipArtifact, SkipAudit, ParseAccepted, ParseRejected,
        WriteOntologyReport, FullRebuild, ReindexEvidence, WriteState, AppendAudit,
        WriteHistory, WriteDiffArtifact, disk, files
  <1>3. ASSUME NEW h \in Handlers, OperationFails(h) PROVE Kept
    BY <1>3 DEF OperationFails, TearFiles, Torn
  <1>4. CASE Crash
    BY <1>4 DEF Crash, TearFiles, Torn
  <1>5. CASE Bootstrap
    BY <1>5
    DEF Bootstrap, BootstrapDecides, BootstrapRefreshes, BootstrapEnds, Listen, Start,
        disk, files
  <1>6. CASE Restart
    BY <1>6 DEF Restart, disk, files
  <1>7. ASSUME NEW s \in Sources, Edit(s) PROVE Kept
    BY <1>7 DEF Edit, disk, files
  <1>8. CASE UNCHANGED vars
    BY <1>8 DEF vars, disk, files
  <1> QED BY <1>1, <1>2, <1>3, <1>4, <1>5, <1>6, <1>7, <1>8 DEF Next

\* The step that does so either kept to the gates or is logged as a rebaseline.
LEMMA StepGated == IInv /\ GateInv /\ [Next]_vars => [GatedChange]_vars
  <1> SUFFICES ASSUME IInv, GateInv, [Next]_vars,
                      EnforceOnRefresh, semantic # NoSnapshot,
                      semantic' # NoSnapshot, semantic' # semantic
               PROVE  \/ WithinGates(semantic, semantic')
                      \/ [snapshot |-> semantic', rebaselineApplied |-> TRUE] \in audit
    BY DEF GatedChange
  <1>1. PICK h \in Handlers : WriteSemanticSnapshot(h)
    BY BaselineWriter
  <1>2. job[h].pc = "semantic" /\ semantic' = Current(h)
    BY <1>1 DEF WriteSemanticSnapshot, At
  <1>3. CASE job[h].applied
    <2>1. Entry(h) = [snapshot |-> semantic', rebaselineApplied |-> TRUE]
      BY <1>2, <1>3 DEF Entry, IInv, TypeOK, ProcessTypeOK, Jobs
    <2>2. Entry(h) \in audit
      BY <1>2 DEF GateInv, CommitAudited, AfterAudit
    <2> QED BY <2>1, <2>2
  <1>4. CASE ~job[h].applied
    BY <1>2, <1>4 DEF GateInv, CommitGated, BeforeBaseline
  <1> QED BY <1>3, <1>4

\* No drift baseline is ever replaced behind the back of the drift gates, although
\* refresh judges the change long before it writes it, with two awaits between.
THEOREM BaselinesAreGated == Spec => DriftGate
  <1>1. IInv /\ GateInv /\ [Next]_vars => [GatedChange]_vars
    BY StepGated
  <1> QED BY <1>1, Inductive, GatesHold, PTL DEF Spec, DriftGate
------------------------------------------------------------------------------
(* The stores and files agree while nothing has failed.                    *)

Committing == {"report", "rebuild", "reindex", "state", "audit"} \cup AfterAudit

\* Every store and file tells of the refresh that left the entry e.
TellsOf(e) ==
    /\ e \in audit
    /\ semantic = e.snapshot /\ semantic \in history
    /\ graph = e.snapshot.payload /\ ontologyReport = graph
    /\ evidence.sourcePath = e.snapshot.sourcePath
    /\ artifact[2] = e.snapshot

\* How far the commit of h has got: what each write before job[h].pc has left.
Written(h) ==
    LET pc == job[h].pc
        past(points) == pc \in Committing \ points
    IN  /\ past({"report"}) => ontologyReport = job[h].payload
        /\ past({"report", "rebuild"}) => graph = job[h].payload
        /\ past({"report", "rebuild", "reindex"}) => evidence.sourcePath = job[h].source
        /\ pc \in {"audit"} \cup AfterAudit => state = Entry(h)
        /\ pc \in AfterAudit => state \in audit
        /\ pc \in {"history", "artifact"} => semantic = Current(h)
        /\ pc = "artifact" => Current(h) \in history

\* Outside a commit all agree on the state file, within one each has what is written.
Together ==
    /\ (\A h \in Handlers : job[h].pc \notin Committing) /\ state # NoState => TellsOf(state)
    /\ \A h \in Handlers : Written(h)

FaultlessInv == Faultless => Together

\* A fresh installation has no state file to disagree with.
LEMMA InitFaultless == Init => FaultlessInv
  BY DEF Init, NoJob, FaultlessInv, Together, Written, Committing, AfterAudit

\* A call whose commit goes on is the only active one: what the commit has left so
\* far is all there is to show.
LEMMA CommitGoesOn ==
    ASSUME IInv, NEW h \in Handlers, Active(h),
           NEW pc \in (Awaiting \cup Writing) \cap Committing,
           RunTo(h, pc) \/ Await(h, pc), Running, Written(h)'
    PROVE  Together'
  <1>1. job'[h].pc = pc /\ \A g \in Handlers : g # h => job'[g].pc = "idle"
    BY Moves
  <1>2. \A g \in Handlers : g # h => Written(g)'
    BY <1>1 DEF Written, Committing, AfterAudit
  <1> QED BY <1>1, <1>2 DEF Together

\* Where no commit is under way after a step, the agreement is all there is to show.
LEMMA NoneCommits ==
    ASSUME \A g \in Handlers : job'[g].pc \notin Committing,
           state' # NoState => TellsOf(state)'
    PROVE  Together'
  BY DEF Together, Written, Committing, AfterAudit

\* The agreement lasts while the files and stores do.
LEMMA AgreementLasts ==
    ASSUME Together, \A g \in Handlers : job[g].pc \notin Committing,
           \A g \in Handlers : job'[g].pc \notin Committing, UNCHANGED disk
    PROVE  Together'
  BY NoneCommits DEF Together, TellsOf, disk, files

\* Ended, a call no longer commits.
LEMMA EndsCommit ==
    ASSUME IInv, NEW h \in Handlers, Active(h),
           NEW outcome \in {"committed", "failed"}, Finish(h, outcome)
    PROVE  \A g \in Handlers : job'[g].pc \notin Committing
  <1>1. \A g \in Handlers : job'[g].pc = "idle"
    BY DEF Finish, IInv, TypeOK, ProcessTypeOK, OneRefresh, Active, NoJob
  <1> QED BY <1>1 DEF Committing, AfterAudit

\* A call that has not begun its commit is the only active one, so nobody commits.
LEMMA NotYet ==
    ASSUME IInv, NEW h \in Handlers, Active(h), job[h].pc \notin Committing
    PROVE  \A g \in Handlers : job[g].pc \notin Committing
  BY DEF IInv, OneRefresh, Active, Committing, AfterAudit

\* The steps of a call, one by one.
LEMMA StepTogether ==
    ASSUME IInv, Together, NEW h \in Handlers, Step(h)
    PROVE  Together'
  <1>1. CASE CanSkip(h)
    <2>1. Active(h) /\ job[h].pc \notin Committing /\ UNCHANGED disk
      BY <1>1 DEF CanSkip, Resumes, Active, Committing, AfterAudit
    <2>2. PICK pc \in {"recounting", "parse"} : (RunTo(h, pc) \/ Await(h, pc)) /\ Running
      BY <1>1 DEF CanSkip
    <2>3. \A g \in Handlers : job'[g].pc \notin Committing
      BY <2>1, <2>2, Moves DEF Awaiting, Writing, Committing, AfterAudit
    <2> QED BY <2>1, <2>3, NotYet, AgreementLasts
  <1>2. CASE SkipArtifact(h)
    <2>1. Active(h) /\ RunTo(h, "skipAudit") /\ Running /\ job[h].pc \notin Committing
      BY <1>2 DEF SkipArtifact, Resumes, Active, Committing, AfterAudit
    <2>2. \A g \in Handlers : job'[g].pc \notin Committing
      BY <2>1, Moves DEF Writing, Committing, AfterAudit
    <2>3. state' # NoState => TellsOf(state)'
      BY <1>2, <2>1, NotYet DEF SkipArtifact, Together, TellsOf
    <2> QED BY <2>2, <2>3, NoneCommits
  <1>3. CASE SkipAudit(h)
    <2>1. Active(h) /\ Finish(h, "committed") /\ job[h].pc \notin Committing
      BY <1>3 DEF SkipAudit, At, Active, Committing, AfterAudit
    <2>2. state' # NoState => TellsOf(state)'
      BY <1>3, <2>1, NotYet DEF SkipAudit, Together, TellsOf
    <2> QED BY <2>1, <2>2, EndsCommit, NoneCommits
  <1>4. CASE ParseAccepted(h)
    <2>1. /\ job' = [job EXCEPT ![h] = Parsed(h, tree[job[h].source].payload)]
          /\ job[h].pc = "parse"
      BY <1>4 DEF ParseAccepted, At
    <2>2. job'[h].pc = "report" /\ \A g \in Handlers : g # h => job'[g].pc = "idle"
      BY <2>1 DEF IInv, TypeOK, ProcessTypeOK, OneRefresh, Active, Parsed
    <2> QED BY <2>2 DEF Together, Written, Committing, AfterAudit
  <1>5. CASE ParseRejected(h)
    <2>1. Active(h) /\ Finish(h, "failed") /\ job[h].pc \notin Committing /\ UNCHANGED disk
      BY <1>5 DEF ParseRejected, At, Active, Committing, AfterAudit
    <2> QED BY <2>1, EndsCommit, NotYet, AgreementLasts
  <1>6. CASE WriteOntologyReport(h)
    <2>1. Active(h) /\ Await(h, "rebuild") /\ Running
      BY <1>6 DEF WriteOntologyReport, At, Active
    <2>2. Written(h)'
      BY <1>6, <2>1, Moves DEF WriteOntologyReport, Awaiting, Written, AfterAudit
    <2> QED BY <2>1, <2>2, CommitGoesOn DEF Awaiting, Committing
  <1>7. CASE FullRebuild(h)
    <2>1. Active(h) /\ Await(h, "reindex") /\ Running /\ Written(h) /\ job[h].pc = "rebuild"
      BY <1>7 DEF FullRebuild, Resumes, Active, Together
    <2>2. Written(h)'
      BY <1>7, <2>1, Moves DEF FullRebuild, files, Awaiting, Written, Committing, AfterAudit
    <2> QED BY <2>1, <2>2, CommitGoesOn DEF Awaiting, Committing
  <1>8. CASE ReindexEvidence(h)
    <2>1. Active(h) /\ RunTo(h, "state") /\ Running /\ Written(h) /\ job[h].pc = "reindex"
      BY <1>8 DEF ReindexEvidence, Resumes, Active, Together
    <2>2. evidence'.sourcePath = job[h].source
      BY <1>8 DEF ReindexEvidence, IndexOf
    <2>3. Written(h)'
      BY <1>8, <2>1, <2>2, Moves
      DEF ReindexEvidence, files, Writing, Written, Committing, AfterAudit
    <2> QED BY <2>1, <2>3, CommitGoesOn DEF Writing, Committing
  <1>9. CASE WriteState(h)
    <2>1. Active(h) /\ RunTo(h, "audit") /\ Running /\ Written(h) /\ job[h].pc = "state"
      BY <1>9 DEF WriteState, At, Active, Together
    <2>2. Written(h)'
      BY <1>9, <2>1, Moves DEF WriteState, Writing, Written, Committing, AfterAudit
    <2> QED BY <2>1, <2>2, CommitGoesOn DEF Writing, Committing
  <1>10. CASE AppendAudit(h)
    <2>1. Active(h) /\ RunTo(h, "semantic") /\ Running /\ Written(h) /\ job[h].pc = "audit"
      BY <1>10 DEF AppendAudit, At, Active, Together
    <2>2. Written(h)'
      BY <1>10, <2>1, Moves DEF AppendAudit, Writing, Written, Committing, AfterAudit
    <2> QED BY <2>1, <2>2, CommitGoesOn DEF Writing, Committing, AfterAudit
  <1>11. CASE WriteSemanticSnapshot(h)
    <2>1. Active(h) /\ RunTo(h, "history") /\ Running /\ Written(h) /\ job[h].pc = "semantic"
      BY <1>11 DEF WriteSemanticSnapshot, At, Active, Together
    <2>2. Written(h)'
      BY <1>11, <2>1, Moves DEF WriteSemanticSnapshot, Writing, Written, Committing, AfterAudit
    <2> QED BY <2>1, <2>2, CommitGoesOn DEF Writing, Committing, AfterAudit
  <1>12. CASE WriteHistory(h)
    <2>1. Active(h) /\ RunTo(h, "artifact") /\ Running /\ Written(h) /\ job[h].pc = "history"
      BY <1>12 DEF WriteHistory, At, Active, Together
    <2>2. Written(h)'
      BY <1>12, <2>1, Moves DEF WriteHistory, Writing, Written, Committing, AfterAudit
    <2> QED BY <2>1, <2>2, CommitGoesOn DEF Writing, Committing, AfterAudit
  <1>13. CASE WriteDiffArtifact(h)
    <2>1. Active(h) /\ Finish(h, "committed") /\ Written(h) /\ job[h].pc = "artifact"
      BY <1>13 DEF WriteDiffArtifact, At, Active, Together
    <2>2. /\ ontologyReport = job[h].payload /\ graph = job[h].payload
          /\ evidence.sourcePath = job[h].source /\ state = Entry(h)
          /\ state \in audit /\ semantic = Current(h) /\ Current(h) \in history
      BY <2>1 DEF Written, Committing, AfterAudit
    <2>3. /\ state.snapshot = Current(h) /\ Current(h).payload = job[h].payload
          /\ Current(h).sourcePath = job[h].source
      BY <2>2 DEF Entry, Current, buildSemanticSnapshot
    <2>4. artifact'[2] = Current(h)
      BY <1>13 DEF WriteDiffArtifact
    <2>5. TellsOf(state)'
      BY <1>13, <2>2, <2>3, <2>4 DEF WriteDiffArtifact, TellsOf
    <2> QED BY <2>1, <2>5, EndsCommit, NoneCommits
  <1> QED BY <1>1, <1>2, <1>3, <1>4, <1>5, <1>6, <1>7, <1>8, <1>9, <1>10, <1>11, <1>12,
             <1>13 DEF Step

\* A call that begins finds nobody committing, and writes nothing yet.
LEMMA StartTogether ==
    ASSUME IInv, Together, NEW h \in Handlers, NEW s, NEW mode, NEW rebaseline,
           Start(h, s, mode, rebaseline)
    PROVE  Together'
  <1>1. PICK pc \in {"counting", "parse"} : job' = [job EXCEPT ![h] = Begun(s, rebaseline, pc)]
    BY DEF Start
  <1>2. ~refreshInProgress /\ UNCHANGED disk
    BY DEF Start, mayRefresh
  <1>3. \A g \in Handlers : job[g].pc = "idle" /\ job'[g].pc \in {"idle", "counting", "parse"}
    BY <1>1, <1>2 DEF Begun, IInv, TypeOK, ProcessTypeOK, OneRefresh, Active
  <1>4. \A g \in Handlers : job[g].pc \notin Committing /\ job'[g].pc \notin Committing
    BY <1>3 DEF Committing, AfterAudit
  <1> QED BY <1>2, <1>4, AgreementLasts

\* What changes only the process or the sources keeps the agreement.
LEMMA TogetherElsewhere ==
    ASSUME Together, UNCHANGED <<job, disk>>
    PROVE  Together'
  BY DEF Together, TellsOf, Written, Current, Entry, disk, files

\* A step without a fault keeps the agreement; a fault counts, and never uncounts.
LEMMA NextFaultless == IInv /\ FaultlessInv /\ [Next]_vars => FaultlessInv'
  <1> SUFFICES ASSUME IInv, FaultlessInv, [Next]_vars, faults' = 0 PROVE Together'
    BY DEF FaultlessInv, Faultless
  <1>0. ASSUME faults' = faults PROVE Together
    BY <1>0 DEF FaultlessInv, Faultless
  <1>1. ASSUME NEW h \in Callers, Request(h) PROVE Together'
    BY <1>0, <1>1, StartTogether DEF Request, Start, Handlers
  <1>2. ASSUME NEW h \in Handlers, Step(h) PROVE Together'
    <2>1. faults' = faults
      BY <1>2
      DEF Step, CanSkip, SkipArtifact, SkipAudit, ParseAccepted, ParseRejected,
          WriteOntologyReport, FullRebuild, ReindexEvidence, WriteState, AppendAudit,
          WriteSemanticSnapshot, WriteHistory, WriteDiffArtifact, bounds, IInv, TypeOK
    <2> QED BY <1>0, <1>2, <2>1, StepTogether
  <1>3. ~\E h \in Handlers : OperationFails(h)
    BY DEF OperationFails, IInv, TypeOK
  <1>4. ~Crash
    BY DEF Crash, IInv, TypeOK
  <1>5. CASE BootstrapRefreshes
    BY <1>0, <1>5, StartTogether DEF BootstrapRefreshes, Start, Handlers
  <1>6. CASE BootstrapDecides \/ BootstrapEnds
    BY <1>0, <1>6, TogetherElsewhere DEF BootstrapDecides, BootstrapEnds, Listen, bounds
  <1>7. CASE Restart
    BY <1>0, <1>7, TogetherElsewhere DEF Restart, bounds
  <1>8. ASSUME NEW s \in Sources, Edit(s) PROVE Together'
    BY <1>0, <1>8, TogetherElsewhere DEF Edit, process, bounds
  <1>9. CASE UNCHANGED vars
    BY <1>0, <1>9, TogetherElsewhere DEF vars, process, bounds
  <1> QED BY <1>1, <1>2, <1>3, <1>4, <1>5, <1>6, <1>7, <1>8, <1>9 DEF Next, Bootstrap

\* While nothing has failed, the graph, the evidence index and all five files tell of
\* the same refresh whenever none is running, though the seven are written one after
\* the other (IngestionService.refresh).
THEOREM StoresStayTogether == Spec => []StoresAgree
  <1>1. FaultlessInv => StoresAgree
    BY DEF FaultlessInv, Together, StoresAgree, Quiet, Active, TellsOf, Committing, AfterAudit
  <1> QED BY <1>1, InitFaultless, NextFaultless, Inductive, PTL DEF Spec
------------------------------------------------------------------------------
(* What a skip reports, where the fingerprint sees every edit.             *)

\* The fingerprint was taken of s, at the latest now.
TakenOf(s, fingerprint) == fingerprint[1] = s /\ fingerprint[2] <= stamp[s]

\* If the source has not been edited since, the payload is what it parses to.
Dated(s, fingerprint, payload) ==
    /\ TakenOf(s, fingerprint)
    /\ fingerprint[2] = stamp[s] => payload = tree[s].payload

DatedJob(j) ==
    /\ j.pc = "parse" => TakenOf(j.source, j.fingerprint)
    /\ j.pc \in {"counting", "recounting"} => TakenOf(j.source, j.fingerprint)
    /\ j.pc \in {"counting", "recounting", "skipAudit"} => j.seen = state.snapshot.payload
    /\ j.pc \in Committing => Dated(j.source, j.fingerprint, j.payload)

DatedInv ==
    /\ state # NoState =>
         Dated(state.snapshot.sourcePath, state.snapshot.fingerprint, state.snapshot.payload)
    /\ \A h \in Handlers : DatedJob(job[h])

Flat == \A t \in Trees : t.layout = "flat"

\* A fresh installation has nothing to date.
LEMMA InitDated == Init => DatedInv
  BY DEF Init, NoJob, DatedInv, DatedJob, Committing, AfterAudit

\* While no source is edited and the state file stays, what is dated stays dated.
LEMMA DatedLasts ==
    ASSUME DatedInv, UNCHANGED <<source, state>>,
           \A g \in Handlers : job'[g] = job[g] \/ DatedJob(job[g])'
    PROVE  DatedInv'
  BY DEF DatedInv, DatedJob, Dated, TakenOf, source

\* A call that has ended has nothing to date.
LEMMA DatedEnds ==
    ASSUME IInv, DatedInv, NEW h \in Handlers, Active(h),
           NEW outcome \in {"committed", "failed"}, Finish(h, outcome),
           UNCHANGED source, state' \in {state, NoState}
    PROVE  DatedInv'
  <1>1. \A g \in Handlers : job'[g].pc = "idle"
    BY DEF Finish, IInv, TypeOK, ProcessTypeOK, OneRefresh, Active, NoJob
  <1> QED BY <1>1 DEF DatedInv, DatedJob, Dated, TakenOf, Committing, AfterAudit, source

\* A call that goes on carries its date with it.
LEMMA DatedGoesOn ==
    ASSUME IInv, DatedInv, NEW h \in Handlers, Active(h),
           NEW pc \in Awaiting \cup Writing, RunTo(h, pc) \/ Await(h, pc), Running,
           UNCHANGED source,
           \/ pc \in {"recounting", "parse"} /\ job[h].pc = "counting" /\ UNCHANGED state
           \/ pc = "skipAudit" /\ job[h].pc = "recounting" /\ UNCHANGED state
           \/ pc \in Committing /\ job[h].pc \in Committing
              /\ state' \in {state, Entry(h)}
    PROVE  DatedInv'
  <1>1. /\ job'[h].pc = pc /\ \A g \in Handlers : g # h => job'[g].pc = "idle"
        /\ \A f \in {"source", "fingerprint", "payload", "seen"} : job'[h][f] = job[h][f]
    <2>1. job' = [job EXCEPT ![h].pc = pc] /\ job[h] \in Jobs
      BY DEF RunTo, Await, IInv, TypeOK, ProcessTypeOK
    <2>2. job'[h] = [job[h] EXCEPT !.pc = pc]
      BY <2>1 DEF IInv, TypeOK, ProcessTypeOK
    <2>3. \A f \in {"source", "fingerprint", "payload", "seen"} : job'[h][f] = job[h][f]
      BY <2>1, <2>2 DEF Jobs
    <2> QED BY <2>3, Moves
  <1>2. DatedJob(job[h])'
    BY <1>1 DEF DatedInv, DatedJob, Dated, TakenOf, source, Committing, AfterAudit
  <1>3. \A g \in Handlers : DatedJob(job[g])'
    BY <1>1, <1>2 DEF DatedJob, Committing, AfterAudit
  <1>4. state' # NoState =>
          Dated(state.snapshot.sourcePath, state.snapshot.fingerprint, state.snapshot.payload)'
    <2>1. CASE UNCHANGED state
      BY <2>1 DEF DatedInv, Dated, TakenOf, source
    <2>2. CASE job[h].pc \in Committing /\ state' = Entry(h)
      <3>1. Dated(job[h].source, job[h].fingerprint, job[h].payload)
        BY <2>2 DEF DatedInv, DatedJob
      <3>2. /\ state'.snapshot.sourcePath = job[h].source
            /\ state'.snapshot.fingerprint = job[h].fingerprint
            /\ state'.snapshot.payload = job[h].payload
        BY <2>2 DEF Entry, Current, buildSemanticSnapshot
      <3> QED BY <3>1, <3>2 DEF Dated, TakenOf, source
    <2> QED BY <2>1, <2>2
  <1> QED BY <1>3, <1>4 DEF DatedInv

\* The steps of a call. Where every tree is flat, a fingerprint names its source.
LEMMA StepDated ==
    ASSUME IInv, DatedInv, NEW h \in Handlers, Step(h)
    PROVE  DatedInv'
  <1>1. CASE CanSkip(h)
    <2>1. Active(h) /\ job[h].pc = "counting" /\ UNCHANGED <<source, state>>
      BY <1>1 DEF CanSkip, Resumes, Active, disk, files
    <2>2. PICK pc \in {"recounting", "parse"} : (RunTo(h, pc) \/ Await(h, pc)) /\ Running
      BY <1>1 DEF CanSkip
    <2> QED BY <2>1, <2>2, DatedGoesOn DEF Awaiting, Writing
  <1>2. CASE SkipArtifact(h)
    BY <1>2, DatedGoesOn DEF SkipArtifact, Resumes, Active, Writing
  <1>3. CASE SkipAudit(h)
    BY <1>3, DatedEnds DEF SkipAudit, At, Active
  <1>4. CASE ParseAccepted(h)
    <2> DEFINE payload == tree[job[h].source].payload
    <2>1. /\ job' = [job EXCEPT ![h] = Parsed(h, payload)]
          /\ job[h].pc = "parse" /\ UNCHANGED <<source, state>>
      BY <1>4 DEF ParseAccepted, At, disk, files
    <2>2. /\ job'[h].pc = "report" /\ job'[h].source = job[h].source
          /\ job'[h].fingerprint = job[h].fingerprint /\ job'[h].payload = payload
          /\ \A g \in Handlers : g # h => job'[g] = job[g]
      BY <2>1 DEF IInv, TypeOK, ProcessTypeOK, Parsed
    <2>3. DatedJob(job[h])'
      BY <2>1, <2>2 DEF DatedInv, DatedJob, Dated, TakenOf, source
    <2> QED BY <2>1, <2>2, <2>3, DatedLasts
  <1>5. CASE ParseRejected(h)
    BY <1>5, DatedEnds DEF ParseRejected, At, Active, disk, files
  <1>6. CASE WriteOntologyReport(h)
    BY <1>6, DatedGoesOn DEF WriteOntologyReport, At, Active, Awaiting, Committing
  <1>7. CASE FullRebuild(h)
    BY <1>7, DatedGoesOn DEF FullRebuild, files, Resumes, Active, Awaiting, Committing
  <1>8. CASE ReindexEvidence(h)
    BY <1>8, DatedGoesOn DEF ReindexEvidence, files, Resumes, Active, Writing, Committing
  <1>9. CASE WriteState(h)
    BY <1>9, DatedGoesOn DEF WriteState, At, Active, Writing, Committing
  <1>10. CASE AppendAudit(h)
    BY <1>10, DatedGoesOn DEF AppendAudit, At, Active, Writing, Committing, AfterAudit
  <1>11. CASE WriteSemanticSnapshot(h)
    BY <1>11, DatedGoesOn DEF WriteSemanticSnapshot, At, Active, Writing, Committing, AfterAudit
  <1>12. CASE WriteHistory(h)
    BY <1>12, DatedGoesOn DEF WriteHistory, At, Active, Writing, Committing, AfterAudit
  <1>13. CASE WriteDiffArtifact(h)
    BY <1>13, DatedEnds DEF WriteDiffArtifact, At, Active
  <1> QED BY <1>1, <1>2, <1>3, <1>4, <1>5, <1>6, <1>7, <1>8, <1>9, <1>10, <1>11, <1>12,
             <1>13 DEF Step

\* A call that begins takes a fingerprint of its source, and waits to skip only if
\* the state file has the very same.
LEMMA StartDated ==
    ASSUME Flat, IInv, DatedInv, NEW h \in Handlers, NEW s \in Sources, NEW mode,
           NEW rebaseline, Start(h, s, mode, rebaseline)
    PROVE  DatedInv'
  <1> DEFINE fingerprint == buildFixtureFingerprint(s)
             pc == IF mode = "incremental" /\ StateMatches(s, fingerprint)
                   THEN "counting" ELSE "parse"
  <1>1. fingerprint = <<s, stamp[s]>> /\ stamp[s] \in Nat
    BY DEF Flat, buildFixtureFingerprint, IInv, TypeOK, SourceTypeOK
  <1>2. UNCHANGED <<source, state>> /\ job' = [job EXCEPT ![h] = Begun(s, rebaseline, pc)]
    BY DEF Start, disk, files
  <1>3. pc \in {"counting", "parse"}
        /\ (pc = "counting" => StateMatches(s, fingerprint))
    OBVIOUS
  <1>4. pc = "counting" => tree[s].payload = state.snapshot.payload
    BY <1>1, <1>3 DEF StateMatches, DatedInv, Dated
  <1> HIDE DEF pc
  <1>5. /\ job'[h].pc = pc /\ job'[h].source = s /\ job'[h].fingerprint = <<s, stamp[s]>>
        /\ job'[h].seen = tree[s].payload
        /\ \A g \in Handlers : g # h => job'[g] = job[g]
    BY <1>1, <1>2 DEF Begun, IInv, TypeOK, ProcessTypeOK
  <1>6. DatedJob(job[h])'
    BY <1>1, <1>2, <1>3, <1>4, <1>5
    DEF DatedJob, TakenOf, source, Committing, AfterAudit
  <1> QED BY <1>2, <1>5, <1>6, DatedLasts

\* An edit moves the count of its source on, past every fingerprint taken of it.
LEMMA EditDated ==
    ASSUME IInv, DatedInv, NEW s \in Sources, Edit(s)
    PROVE  DatedInv'
  <1>1. UNCHANGED <<job, state>>
    BY DEF Edit, process, disk, files
  <1>2. /\ \A r \in Sources : stamp[r] \in Nat /\ stamp'[r] = IF r = s THEN stamp[r] + 1
                                                                ELSE stamp[r]
        /\ \A r \in Sources \ {s} : tree'[r] = tree[r]
    BY DEF Edit, IInv, TypeOK, SourceTypeOK
  <1>3. ASSUME NEW r \in Sources, NEW f \in Fingerprints, TakenOf(r, f) PROVE TakenOf(r, f)'
    BY <1>2, <1>3 DEF TakenOf, Fingerprints, NoRows
  <1>4. ASSUME NEW r \in Sources, NEW f \in Fingerprints, NEW payload, Dated(r, f, payload)
        PROVE  Dated(r, f, payload)'
    BY <1>2, <1>3, <1>4 DEF Dated, TakenOf, Fingerprints, NoRows
  <1>5. \A h \in Handlers : job[h].source \in Sources /\ job[h].fingerprint \in Fingerprints
    BY DEF IInv, TypeOK, ProcessTypeOK, Jobs
  <1>6. \A h \in Handlers : DatedJob(job[h])'
    BY <1>1, <1>3, <1>4, <1>5 DEF DatedInv, DatedJob
  <1>7. state # NoState => /\ state.snapshot.sourcePath \in Sources
                           /\ state.snapshot.fingerprint \in Fingerprints
    BY DEF IInv, TypeOK, DiskTypeOK, Entries, Snapshots
  <1> QED BY <1>1, <1>4, <1>6, <1>7 DEF DatedInv

\* One step for each disjunct of the next-state relation.
LEMMA NextDated ==
    ASSUME Flat
    PROVE  IInv /\ DatedInv /\ [Next]_vars => DatedInv'
  <1> SUFFICES ASSUME IInv, DatedInv, [Next]_vars PROVE DatedInv'
    OBVIOUS
  <1>0. ASSUME UNCHANGED <<source, job, state>> PROVE DatedInv'
    BY <1>0, DatedLasts
  <1>1. ASSUME NEW h \in Callers, Request(h) PROVE DatedInv'
    BY <1>1, StartDated DEF Request, Handlers
  <1>2. ASSUME NEW h \in Handlers, Step(h) PROVE DatedInv'
    BY <1>2, StepDated
  <1>3. ASSUME NEW h \in Handlers, OperationFails(h) PROVE DatedInv'
    <2>1. Active(h) /\ Finish(h, "failed") /\ TearFiles /\ UNCHANGED source
      BY <1>3 DEF OperationFails, At, Resumes, Active, Awaiting, Writing
    <2>2. state' \in {state, NoState}
      BY <2>1 DEF TearFiles, Torn
    <2> QED BY <2>1, <2>2, DatedEnds
  <1>4. CASE Crash
    <2>1. state' \in {state, NoState} /\ UNCHANGED source
      BY <1>4 DEF Crash, TearFiles, Torn
    <2>2. \A h \in Handlers : job'[h].pc = "idle"
      BY <1>4 DEF Crash, NoJob
    <2> QED BY <2>1, <2>2 DEF DatedInv, DatedJob, Dated, TakenOf, Committing, AfterAudit, source
  <1>5. CASE BootstrapRefreshes
    BY <1>5, StartDated, RefreshAssumption DEF BootstrapRefreshes, Handlers
  <1>6. CASE BootstrapDecides \/ BootstrapEnds
    BY <1>0, <1>6 DEF BootstrapDecides, BootstrapEnds, Listen, disk, files
  <1>7. CASE Restart
    BY <1>0, <1>7 DEF Restart, disk, files
  <1>8. ASSUME NEW s \in Sources, Edit(s) PROVE DatedInv'
    BY <1>8, EditDated
  <1>9. CASE UNCHANGED vars
    BY <1>0, <1>9 DEF vars, process, disk, files
  <1> QED BY <1>1, <1>2, <1>3, <1>4, <1>5, <1>6, <1>7, <1>8, <1>9 DEF Next, Bootstrap

\* Where the fingerprint sees every edit (all metadata lies at the top level of its
\* directories) and nothing has failed, an incremental refresh that reports "no
\* changes detected" is right. The two runs that refute SkipIsSound show that neither
\* condition can go.
THEOREM SkipsAreSound ==
    ASSUME Flat
    PROVE  Spec => [](Faultless => SkipIsSound)
  <1>1. IInv /\ DatedInv /\ FaultlessInv => (Faultless => SkipIsSound)
    <2> SUFFICES ASSUME IInv, DatedInv, FaultlessInv, Faultless,
                        NEW h \in Handlers, job[h].pc = "skipAudit"
                 PROVE  graph = job[h].seen
      BY DEF SkipIsSound
    <2>1. \A g \in Handlers : job[g].pc \notin Committing
      BY NotYet DEF Active, Committing, AfterAudit
    <2>2. state # NoState
      BY DEF IInv, SkipHasState
    <2>3. graph = state.snapshot.payload
      BY <2>1, <2>2 DEF FaultlessInv, Together, TellsOf
    <2> QED BY <2>3 DEF DatedInv, DatedJob
  <1>2. IInv /\ DatedInv /\ [Next]_vars => DatedInv'
    BY NextDated
  <1> QED BY <1>1, <1>2, InitDated, InitFaultless, NextFaultless, Inductive, PTL DEF Spec
------------------------------------------------------------------------------
(* With one source a skip is right whatever fails.                         *)

OneSource == Sources = {FixturesSource}

\* The fingerprint was taken no earlier than the one of the state file.
NoOlder(fingerprint) ==
    state # NoState => state.snapshot.fingerprint[2] <= fingerprint[2]

AloneJob(j) ==
    /\ j.pc # "idle" => NoOlder(j.fingerprint)
    /\ j.pc \in {"counting", "recounting", "skipAudit"} => graph = j.seen
    /\ j.pc \in Committing \ {"report", "rebuild"} => graph = j.payload

\* A commit cut short leaves the graph ahead of the state file, but then the source
\* was edited since the state file was written, and its fingerprint shows it.
AloneInv ==
    /\ (state # NoState /\ state.snapshot.fingerprint[2] = stamp[FixturesSource]) =>
         graph = tree[FixturesSource].payload
    /\ \A h \in Handlers : AloneJob(job[h])

LEMMA InitAlone == Init => AloneInv
  BY DEF Init, NoJob, AloneInv, AloneJob, Committing, AfterAudit

\* While the sources, the graph and the state file stay, so does what is said of them.
LEMMA AloneLasts ==
    ASSUME AloneInv, UNCHANGED <<source, state, graph>>,
           \A g \in Handlers : job'[g] = job[g] \/ AloneJob(job[g])'
    PROVE  AloneInv'
  BY DEF AloneInv, AloneJob, NoOlder, source

\* A call that has ended says nothing, and a torn state file claims nothing.
LEMMA AloneIdle ==
    ASSUME AloneInv, \A g \in Handlers : job'[g].pc = "idle",
           UNCHANGED <<source, graph>>, state' \in {state, NoState}
    PROVE  AloneInv'
  BY DEF AloneInv, AloneJob, Committing, AfterAudit, source

LEMMA AloneEnds ==
    ASSUME IInv, AloneInv, NEW h \in Handlers, Active(h),
           NEW outcome \in {"committed", "failed"}, Finish(h, outcome),
           UNCHANGED <<source, graph>>, state' \in {state, NoState}
    PROVE  AloneInv'
  <1>1. \A g \in Handlers : job'[g].pc = "idle"
    BY DEF Finish, IInv, TypeOK, ProcessTypeOK, OneRefresh, Active, NoJob
  <1> QED BY <1>1, AloneIdle

\* What a call that goes on still has of what it had.
LEMMA Carries ==
    ASSUME IInv, NEW h \in Handlers, Active(h),
           NEW pc \in Awaiting \cup Writing, RunTo(h, pc) \/ Await(h, pc), Running
    PROVE  /\ job'[h].pc = pc /\ \A g \in Handlers : g # h => job'[g].pc = "idle"
           /\ job'[h].fingerprint = job[h].fingerprint /\ job'[h].seen = job[h].seen
           /\ job'[h].payload = job[h].payload
  <1>1. job' = [job EXCEPT ![h].pc = pc] /\ job[h] \in Jobs
    BY DEF RunTo, Await, IInv, TypeOK, ProcessTypeOK
  <1>2. job'[h] = [job[h] EXCEPT !.pc = pc]
    BY <1>1 DEF IInv, TypeOK, ProcessTypeOK
  <1>3. \A f \in {"fingerprint", "seen", "payload"} : job'[h][f] = job[h][f]
    BY <1>1, <1>2 DEF Jobs
  <1> QED BY <1>3, Moves

\* A call that goes on and writes neither the graph nor the state file.
LEMMA AloneGoesOn ==
    ASSUME IInv, AloneInv, NEW h \in Handlers, Active(h),
           NEW pc \in Awaiting \cup Writing, RunTo(h, pc) \/ Await(h, pc), Running,
           UNCHANGED <<source, state, graph>>,
           \/ pc \in {"recounting", "parse"} /\ job[h].pc = "counting"
           \/ pc = "skipAudit" /\ job[h].pc = "recounting"
           \/ pc = "rebuild" /\ job[h].pc = "report"
           \/ pc \in Committing /\ job[h].pc \in Committing \ {"report", "rebuild"}
    PROVE  AloneInv'
  <1>1. AloneJob(job[h])'
    BY Carries DEF AloneInv, AloneJob, NoOlder, Active, Committing, AfterAudit
  <1>2. \A g \in Handlers : AloneJob(job[g])'
    BY <1>1, Carries DEF AloneJob, Committing, AfterAudit
  <1> QED BY <1>2, AloneLasts

\* The steps of a call: the two writes that matter are those of the graph, which
\* overtakes the state file, and of the state file, which catches up.
LEMMA StepAlone ==
    ASSUME OneSource, IInv, DatedInv, AloneInv, NEW h \in Handlers, Step(h)
    PROVE  AloneInv'
  <1>0. job[h].source = FixturesSource /\ stamp[FixturesSource] \in Nat
        /\ job[h].fingerprint \in Fingerprints
        /\ (state # NoState => state.snapshot.fingerprint \in Fingerprints)
    BY RefreshAssumption
    DEF OneSource, IInv, TypeOK, ProcessTypeOK, SourceTypeOK, DiskTypeOK, Jobs, Entries, Snapshots
  <1>1. CASE CanSkip(h)
    <2>1. Active(h) /\ job[h].pc = "counting" /\ UNCHANGED <<source, state, graph>>
      BY <1>1 DEF CanSkip, Resumes, Active, disk, files
    <2>2. PICK pc \in {"recounting", "parse"} : (RunTo(h, pc) \/ Await(h, pc)) /\ Running
      BY <1>1 DEF CanSkip
    <2> QED BY <2>1, <2>2, AloneGoesOn DEF Awaiting, Writing
  <1>2. CASE SkipArtifact(h)
    BY <1>2, AloneGoesOn DEF SkipArtifact, Resumes, Active, Writing
  <1>3. CASE SkipAudit(h)
    BY <1>3, AloneEnds DEF SkipAudit, At, Active
  <1>4. CASE ParseAccepted(h)
    <2> DEFINE payload == tree[job[h].source].payload
    <2>1. /\ job' = [job EXCEPT ![h] = Parsed(h, payload)]
          /\ job[h].pc = "parse" /\ UNCHANGED <<source, state, graph>>
      BY <1>4 DEF ParseAccepted, At, disk, files
    <2>2. /\ job'[h].pc = "report" /\ job'[h].fingerprint = job[h].fingerprint
          /\ \A g \in Handlers : g # h => job'[g] = job[g]
      BY <2>1 DEF IInv, TypeOK, ProcessTypeOK, Parsed
    <2>3. AloneJob(job[h])'
      BY <2>1, <2>2 DEF AloneInv, AloneJob, NoOlder
    <2> QED BY <2>1, <2>2, <2>3, AloneLasts
  <1>5. CASE ParseRejected(h)
    BY <1>5, AloneEnds DEF ParseRejected, At, Active, disk, files
  <1>6. CASE WriteOntologyReport(h)
    BY <1>6, AloneGoesOn DEF WriteOntologyReport, At, Active, Awaiting
  <1>7. CASE FullRebuild(h)
    <2>1. /\ Active(h) /\ Await(h, "reindex") /\ Running /\ job[h].pc = "rebuild"
          /\ graph' = job[h].payload /\ UNCHANGED <<source, state>>
      BY <1>7 DEF FullRebuild, files, Resumes, Active
    <2>2. Dated(FixturesSource, job[h].fingerprint, job[h].payload)
      BY <1>0, <2>1 DEF DatedInv, DatedJob, Committing
    <2>3. NoOlder(job[h].fingerprint)
      BY <2>1 DEF AloneInv, AloneJob, Active
    <2>4. (state' # NoState /\ state'.snapshot.fingerprint[2] = stamp'[FixturesSource]) =>
            graph' = tree'[FixturesSource].payload
      BY <1>0, <2>1, <2>2, <2>3 DEF Dated, TakenOf, NoOlder, source, Fingerprints, NoRows
    <2>5. AloneJob(job[h])'
      BY <2>1, <2>3, Carries DEF AloneJob, NoOlder, Awaiting
    <2>6. \A g \in Handlers : AloneJob(job[g])'
      BY <2>1, <2>5, Carries DEF AloneJob, Awaiting, Committing, AfterAudit
    <2> QED BY <2>4, <2>6 DEF AloneInv
  <1>8. CASE ReindexEvidence(h)
    BY <1>8, AloneGoesOn DEF ReindexEvidence, files, Resumes, Active, Writing, Committing
  <1>9. CASE WriteState(h)
    <2>1. /\ Active(h) /\ RunTo(h, "audit") /\ Running /\ job[h].pc = "state"
          /\ state' = Entry(h) /\ UNCHANGED <<source, graph>>
      BY <1>9 DEF WriteState, At, Active
    <2>2. Dated(FixturesSource, job[h].fingerprint, job[h].payload)
      BY <1>0, <2>1 DEF DatedInv, DatedJob, Committing
    <2>3. graph = job[h].payload
      BY <2>1 DEF AloneInv, AloneJob, Committing
    <2>4. state'.snapshot.fingerprint = job[h].fingerprint
      BY <2>1 DEF Entry, Current, buildSemanticSnapshot
    <2>5. (state' # NoState /\ state'.snapshot.fingerprint[2] = stamp'[FixturesSource]) =>
            graph' = tree'[FixturesSource].payload
      BY <2>1, <2>2, <2>3, <2>4 DEF Dated, source
    <2>6. AloneJob(job[h])'
      <3>1. job[h].fingerprint[2] \in Nat
        BY <1>0 DEF Fingerprints, NoRows
      <3> QED BY <2>1, <2>3, <2>4, <3>1, Carries DEF AloneJob, NoOlder, Writing
    <2>7. \A g \in Handlers : AloneJob(job[g])'
      BY <2>1, <2>6, Carries DEF AloneJob, Writing, Committing, AfterAudit
    <2> QED BY <2>5, <2>7 DEF AloneInv
  <1>10. CASE AppendAudit(h)
    BY <1>10, AloneGoesOn DEF AppendAudit, At, Active, Writing, Committing, AfterAudit
  <1>11. CASE WriteSemanticSnapshot(h)
    BY <1>11, AloneGoesOn DEF WriteSemanticSnapshot, At, Active, Writing, Committing, AfterAudit
  <1>12. CASE WriteHistory(h)
    BY <1>12, AloneGoesOn DEF WriteHistory, At, Active, Writing, Committing, AfterAudit
  <1>13. CASE WriteDiffArtifact(h)
    BY <1>13, AloneEnds DEF WriteDiffArtifact, At, Active
  <1> QED BY <1>1, <1>2, <1>3, <1>4, <1>5, <1>6, <1>7, <1>8, <1>9, <1>10, <1>11, <1>12,
             <1>13 DEF Step

\* A call that begins has the newest fingerprint there is, and waits to skip only if
\* the state file has it too.
LEMMA StartAlone ==
    ASSUME Flat, OneSource, IInv, DatedInv, AloneInv, NEW h \in Handlers, NEW s \in Sources,
           NEW mode, NEW rebaseline, Start(h, s, mode, rebaseline)
    PROVE  AloneInv'
  <1> DEFINE fingerprint == buildFixtureFingerprint(s)
             pc == IF mode = "incremental" /\ StateMatches(s, fingerprint)
                   THEN "counting" ELSE "parse"
  <1>1. fingerprint = <<s, stamp[s]>> /\ stamp[s] \in Nat /\ s = FixturesSource
    BY DEF Flat, OneSource, buildFixtureFingerprint, IInv, TypeOK, SourceTypeOK
  <1>2. UNCHANGED <<source, state, graph>>
        /\ job' = [job EXCEPT ![h] = Begun(s, rebaseline, pc)]
    BY DEF Start, disk, files
  <1>3. pc \in {"counting", "parse"}
        /\ (pc = "counting" => StateMatches(s, fingerprint))
    OBVIOUS
  <1>4. pc = "counting" => graph = tree[s].payload
    BY <1>1, <1>3 DEF StateMatches, AloneInv
  <1>5. NoOlder(<<s, stamp[s]>>)
    <2>1. state # NoState => state.snapshot.sourcePath = s
      BY <1>1 DEF OneSource, IInv, TypeOK, DiskTypeOK, Entries, Snapshots
    <2> QED BY <2>1 DEF DatedInv, Dated, TakenOf, NoOlder
  <1> HIDE DEF pc
  <1>6. /\ job'[h].pc = pc /\ job'[h].fingerprint = <<s, stamp[s]>>
        /\ job'[h].seen = tree[s].payload
        /\ \A g \in Handlers : g # h => job'[g] = job[g]
    BY <1>1, <1>2 DEF Begun, IInv, TypeOK, ProcessTypeOK
  <1>7. AloneJob(job[h])'
    BY <1>2, <1>3, <1>4, <1>5, <1>6 DEF AloneJob, NoOlder, source, Committing, AfterAudit
  <1> QED BY <1>2, <1>6, <1>7, AloneLasts

\* An edit leaves the state file's fingerprint behind.
LEMMA EditAlone ==
    ASSUME OneSource, IInv, DatedInv, AloneInv, NEW s \in Sources, Edit(s)
    PROVE  AloneInv'
  <1>1. UNCHANGED <<job, state, graph>>
    BY DEF Edit, process, disk, files
  <1>2. s = FixturesSource /\ stamp[s] \in Nat /\ stamp'[s] = stamp[s] + 1
    BY DEF OneSource, Edit, IInv, TypeOK, SourceTypeOK
  <1>3. state # NoState => /\ state.snapshot.sourcePath = s
                           /\ state.snapshot.fingerprint \in Fingerprints
    BY <1>2 DEF OneSource, IInv, TypeOK, DiskTypeOK, Entries, Snapshots
  <1>4. state # NoState => state.snapshot.fingerprint[2] <= stamp[s]
    BY <1>3 DEF DatedInv, Dated, TakenOf
  <1>5. state # NoState => state.snapshot.fingerprint[2] # stamp'[s]
    BY <1>2, <1>3, <1>4 DEF Fingerprints, NoRows
  <1> QED BY <1>1, <1>2, <1>5 DEF AloneInv, AloneJob, NoOlder

\* One step for each disjunct of the next-state relation.
LEMMA NextAlone ==
    ASSUME Flat, OneSource
    PROVE  IInv /\ DatedInv /\ AloneInv /\ [Next]_vars => AloneInv'
  <1> SUFFICES ASSUME IInv, DatedInv, AloneInv, [Next]_vars PROVE AloneInv'
    OBVIOUS
  <1>0. ASSUME UNCHANGED <<source, job, state, graph>> PROVE AloneInv'
    BY <1>0, AloneLasts
  <1>1. ASSUME NEW h \in Callers, Request(h) PROVE AloneInv'
    BY <1>1, StartAlone DEF Request, Handlers
  <1>2. ASSUME NEW h \in Handlers, Step(h) PROVE AloneInv'
    BY <1>2, StepAlone
  <1>3. ASSUME NEW h \in Handlers, OperationFails(h) PROVE AloneInv'
    <2>1. Active(h) /\ Finish(h, "failed") /\ TearFiles /\ UNCHANGED source
      BY <1>3 DEF OperationFails, At, Resumes, Active, Awaiting, Writing
    <2>2. state' \in {state, NoState} /\ UNCHANGED graph
      BY <2>1 DEF TearFiles, Torn
    <2> QED BY <2>1, <2>2, AloneEnds
  <1>4. CASE Crash
    <2>1. state' \in {state, NoState} /\ UNCHANGED <<source, graph>>
      BY <1>4 DEF Crash, TearFiles, Torn
    <2>2. \A h \in Handlers : job'[h].pc = "idle"
      BY <1>4 DEF Crash, NoJob
    <2> QED BY <2>1, <2>2, AloneIdle
  <1>5. CASE BootstrapRefreshes
    BY <1>5, StartAlone, RefreshAssumption DEF BootstrapRefreshes, Handlers
  <1>6. CASE BootstrapDecides \/ BootstrapEnds
    BY <1>0, <1>6 DEF BootstrapDecides, BootstrapEnds, Listen, disk, files
  <1>7. CASE Restart
    BY <1>0, <1>7 DEF Restart, disk, files
  <1>8. ASSUME NEW s \in Sources, Edit(s) PROVE AloneInv'
    BY <1>8, EditAlone
  <1>9. CASE UNCHANGED vars
    BY <1>0, <1>9 DEF vars, process, disk, files
  <1> QED BY <1>1, <1>2, <1>3, <1>4, <1>5, <1>6, <1>7, <1>8, <1>9 DEF Next, Bootstrap

\* An engine that is only ever asked for one source, all of whose metadata lies where
\* the fingerprint looks, never reports "no changes detected" wrongly, whatever fails
\* or crashes between the rebuild of the graph and the write of the state file.
THEOREM OneSourceSkips ==
    ASSUME Flat, OneSource
    PROVE  Spec => []SkipIsSound
  <1>1. AloneInv => SkipIsSound
    BY DEF AloneInv, AloneJob, SkipIsSound
  <1>2. IInv /\ DatedInv /\ [Next]_vars => DatedInv'
    BY NextDated
  <1>3. IInv /\ DatedInv /\ AloneInv /\ [Next]_vars => AloneInv'
    BY NextAlone
  <1> QED BY <1>1, <1>2, <1>3, InitDated, InitAlone, Inductive, PTL DEF Spec
==============================================================================
