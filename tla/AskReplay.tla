------------------------------ MODULE AskReplay -------------------------------
(***************************************************************************)
(* Asking, proving and replaying: AskService over the evidence index, the  *)
(* graph and the refresh state, with the proof log, the metrics log and    *)
(* the relation multipliers MetaContextService adapts from that log.       *)
(*                                                                         *)
(* Up to the first await a handler runs alone, then once per graph query   *)
(* and once for the language model. A refresh commits the graph and, in a  *)
(* later turn, the evidence index and the refresh state. `turn' is the     *)
(* handler between the two appends of an ask. The process may die at any   *)
(* time; MaxFaults bounds that and the refreshes cut off half way.         *)
(***************************************************************************)
EXTENDS AskRules

CONSTANTS
    Handlers,
    Asked,              \* the requests clients make
    FirstTrees,         \* trees the process may start on
    Sources,            \* trees an operator may retrieve over the present one
    FirstLogs,          \* metrics logs left by an earlier process
    MaxRequests, MaxEdits, MaxRefreshes, MaxAdapts, MaxFaults   \* bounds

Records == [intent : {"perms", "automation", "impact", "mixed", "review", "unknown"},
            trustLevel : {"trusted", "conditional", "refused"}]

ASSUME ReplayAssumption ==
    /\ None \notin Handlers
    /\ Asked \subseteq Requests /\ FirstLogs \subseteq Seq(Records) /\ FirstTrees \cup Sources \subseteq [Files -> Texts]
    /\ {MaxRequests, MaxEdits, MaxRefreshes, MaxAdapts, MaxFaults} \subseteq Nat

VARIABLES
    tree,               \* the parse tree
    graph,              \* the graph: the tree it was built from
    evidence,           \* the evidence index: the tree it was built from
    refreshState,       \* the tree whose fingerprint the state file holds
    refreshing,         \* the tree of a refresh whose graph is committed
    multipliers,        \* MetaContextState.relationMultipliers
    proofs,             \* the readable lines of the proof log, oldest first
    proofsTorn,         \* a line of it was cut off: every read of it throws
    metricsLog, metricsTorn,
    job, turn,
    requests, edits, refreshes, adapts, faults,
    answered,           \* history: the answers given
    runs,               \* history: how each proof's execution went, in log order
    verdicts            \* history: the replays finished

stores  == <<tree, graph, evidence, refreshState, refreshing>>
logs    == <<proofs, proofsTorn, metricsLog, metricsTorn>>
bounds  == <<requests, edits, refreshes, adapts, faults>>
ghosts  == <<answered, runs, verdicts>>
vars    == <<stores, multipliers, logs, job, turn, bounds, ghosts>>

Relations4 == {"TRIGGERS_ON", "WRITES", "QUERIES", "REFERENCES"}
DefaultMultipliers == [rel \in Relations4 |-> 10000]
Trees == [Files -> Texts]

\* What an execution may depend on besides the request: how often the stores
\* and the multipliers had changed.
Moment == [stores |-> edits + refreshes, adapts |-> adapts]
Moments == [stores : Nat, adapts : Nat]

NoJob == [op |-> "none", pc |-> "idle"]
Running(h, op, pc) == job[h].op = op /\ job[h].pc = pc

TypeOK ==
    /\ {tree, graph, evidence} \subseteq Trees
    /\ refreshState \in Trees \cup {None} /\ refreshing \in Trees \cup {None}
    /\ DOMAIN multipliers = Relations4 /\ \A rel \in Relations4 : multipliers[rel] \in 8000..12500
    /\ \A i \in DOMAIN proofs : proofs[i].request \in Requests /\ proofs[i].citationIds \subseteq Files
    /\ Len(runs) = Len(proofs)
    /\ \A i \in DOMAIN metricsLog : metricsLog[i] \in Records
    /\ proofsTorn \in BOOLEAN /\ metricsTorn \in BOOLEAN
    /\ turn \in Handlers \cup {None}
    /\ \A h \in Handlers :
        /\ job[h].op \in {"none", "ask", "replay"}
        /\ job[h].pc \in {"idle", "query", "model", "proof", "metrics"}
        /\ job[h].op # "none" =>
            /\ job[h].request \in Requests /\ job[h].began \in Moments
            /\ Range(job[h].left) \cap DOMAIN job[h].reads = {}
            /\ job[h].proof \in 0..Len(proofs)
    /\ requests \in Nat /\ edits \in Nat /\ refreshes \in Nat /\ adapts \in Nat /\ faults \in Nat

Init ==
    /\ tree \in FirstTrees
    /\ graph = tree /\ evidence = tree /\ refreshState = tree /\ refreshing = None
    /\ multipliers = DefaultMultipliers
    /\ proofs = <<>> /\ proofsTorn = FALSE
    /\ metricsLog \in FirstLogs /\ metricsTorn = FALSE
    /\ job = [h \in Handlers |-> NoJob] /\ turn = None
    /\ requests = 0 /\ edits = 0 /\ refreshes = 0 /\ adapts = 0 /\ faults = 0
    /\ answered = {} /\ runs = <<>> /\ verdicts = {}

------------------------------------------------------------------------------
(* Execution: shared by ask and replay.                                    *)

readSnapshotId == refreshState

\* The answers read so far, by the names of their queries.
NoReads == [query \in {} |-> {}]
Read(reads, query, value) ==
    [k \in DOMAIN reads \cup {query} |-> IF k = query THEN value ELSE reads[k]]

\* After the last query: to the model, or to the end of the execution.
AfterReads(j) ==
    IF asksModel(j.request, j.branch, j.cites, j.reads) THEN "model" ELSE "proof"

\* execute up to its first await; `proof' is the line a replay is of, or 0.
Execution(op, r, proof) ==
    LET hits == searchEvidence(evidence, r.scope)
        branch == Branch(r.q, r.scope, hits)
        j == [op |-> op, request |-> r, proof |-> proof, branch |-> branch,
              snapshotId |-> readSnapshotId, began |-> Moment, assisted |-> FALSE,
              cites |-> citationHits(branch, r.q, r.scope, hits, evidence, tree),
              left |-> Queries(branch, r.q, r.consistency), reads |-> NoReads, pc |-> "query"]
    IN  IF j.left = <<>> THEN [j EXCEPT !.pc = AfterReads(j)] ELSE j

\* The handler whose execution is over keeps the turn until its appends are done.
Goes(h, j) ==
    /\ job' = [job EXCEPT ![h] = j]
    /\ turn' = IF j.pc = "proof" THEN h ELSE None

\* POST /ask
Ask(h) ==
    /\ turn = None /\ job[h] = NoJob /\ requests < MaxRequests
    /\ \E r \in Asked : Goes(h, Execution("ask", r, 0))
    /\ requests' = requests + 1
    /\ UNCHANGED <<stores, multipliers, logs, edits, refreshes, adapts, faults, ghosts>>

\* The newest proof with the id of line i.
findByProofId(i) ==
    CHOOSE j \in DOMAIN proofs :
        /\ proofs[j].proofId = proofs[i].proofId
        /\ \A k \in DOMAIN proofs : proofs[k].proofId = proofs[i].proofId => k <= j

\* POST /ask/replay: the stored request is executed again.
Replay(h) ==
    /\ turn = None /\ job[h] = NoJob /\ requests < MaxRequests
    /\ ~proofsTorn
    /\ \E i \in DOMAIN proofs :
        LET j == findByProofId(i) IN Goes(h, Execution("replay", proofs[j].request, j))
    /\ requests' = requests + 1
    /\ UNCHANGED <<stores, multipliers, logs, edits, refreshes, adapts, faults, ghosts>>

\* An awaited graph query is answered; the scores are taken afterwards.
QueryAnswered(h) ==
    /\ turn = None /\ job[h].pc = "query"
    /\ LET j == job[h]
           value == Answered(Head(j.left), graph, j.request.low, multipliers)
           next == [j EXCEPT !.left = Tail(j.left), !.reads = Read(j.reads, Head(j.left), value)]
       IN  Goes(h, IF next.left = <<>> THEN [next EXCEPT !.pc = AfterReads(next)] ELSE next)
    /\ UNCHANGED <<stores, multipliers, logs, bounds, ghosts>>

\* llmService.generate answers, cites evidence and keeps to its budgets; or it
\* does not, and the deterministic answer stands.
ModelAnswered(h) ==
    /\ turn = None /\ job[h].pc = "model"
    /\ \E assisted \in BOOLEAN : Goes(h, [job[h] EXCEPT !.pc = "proof", !.assisted = assisted])
    /\ UNCHANGED <<stores, multipliers, logs, bounds, ghosts>>

Result(h) ==
    LET j == job[h]
    IN  Respond(j.request, j.branch, j.cites, j.reads, j.assisted, j.snapshotId)

\* The history of an execution.
Run(h) == [began |-> job[h].began, ended |-> Moment, assisted |-> job[h].assisted]

\* Mutated: the request is stored without its evidence scope.
Proof_NoScope(h) == [Result(h) EXCEPT !.request.scope = None]

Proof(h) == Result(h)

\* Mutated: a refused answer leaves no proof.
AppendProof_Trusted(h) ==
    /\ turn = h /\ Running(h, "ask", "proof")
    /\ LET kept == ~proofsTorn /\ Result(h).trustLevel # "refused"
       IN  /\ proofs' = IF kept THEN Append(proofs, Proof(h)) ELSE proofs
           /\ runs' = IF kept THEN Append(runs, Run(h)) ELSE runs
    /\ job' = [job EXCEPT ![h].pc = "metrics"]
    /\ UNCHANGED <<stores, multipliers, proofsTorn, metricsLog, metricsTorn, turn, bounds,
                   answered, verdicts>>

AppendProof(h) ==
    /\ turn = h /\ Running(h, "ask", "proof")
    /\ proofs' = IF proofsTorn THEN proofs ELSE Append(proofs, Proof(h))
    /\ runs' = IF proofsTorn THEN runs ELSE Append(runs, Run(h))
    /\ job' = [job EXCEPT ![h].pc = "metrics"]
    /\ UNCHANGED <<stores, multipliers, proofsTorn, metricsLog, metricsTorn, turn, bounds,
                   answered, verdicts>>

\* The second append, and the answer to the client.
AppendMetrics(h) ==
    /\ turn = h /\ Running(h, "ask", "metrics")
    /\ LET result == Result(h)
           record == [intent |-> intent(result.request.q), trustLevel |-> result.trustLevel]
       IN  /\ metricsLog' = IF metricsTorn THEN metricsLog ELSE Append(metricsLog, record)
           /\ answered' = answered \cup
                {[proofId |-> result.proofId, request |-> result.request,
                  trustLevel |-> result.trustLevel, citationIds |-> result.citationIds,
                  branch |-> job[h].branch, queries |-> DOMAIN job[h].reads]}
    /\ job' = [job EXCEPT ![h] = NoJob] /\ turn' = None
    /\ UNCHANGED <<stores, multipliers, proofs, proofsTorn, metricsTorn, bounds, runs, verdicts>>

\* A replay compares and writes nothing.
ReplayEnds(h) ==
    /\ turn = h /\ Running(h, "replay", "proof")
    /\ LET original == proofs[job[h].proof]
           replayed == Result(h)
           was == runs[job[h].proof]
           matched == /\ corePayload(replayed) = corePayload(original)
                      /\ replayed.snapshotId = original.snapshotId
       IN  verdicts' = verdicts \cup
             {[matched |-> matched,
               sameOutcome |-> /\ replayed.deterministicAnswer = original.deterministicAnswer
                               /\ replayed.trustLevel = original.trustLevel
                               /\ replayed.metrics = original.metrics,
               sameStores |-> {was.began.stores, was.ended.stores, Run(h).began.stores,
                               Run(h).ended.stores} = {was.began.stores},
               sameMultipliers |-> {was.began.adapts, was.ended.adapts, Run(h).began.adapts,
                                    Run(h).ended.adapts} = {was.began.adapts},
               sameModel |-> was.assisted = job[h].assisted]}
    /\ job' = [job EXCEPT ![h] = NoJob] /\ turn' = None
    /\ UNCHANGED <<stores, multipliers, logs, bounds, answered, runs>>

------------------------------------------------------------------------------
(* Adaptation of the relation multipliers.                                 *)

Clamp(x, low, high) == Max({low, Min({high, x})})
\* The quotient rounded to the nearest integer.
Rounded(n, d) == (2 * n + d) \div (2 * d)

\* Mutated: neither the learning rate nor the bounds.
adjust_Open(current, difference, sample, share) ==
    current + Rounded(5 * share * Clamp(2 * difference, -sample, sample), sample)

\* One multiplier: current + clamp(difference / sample, +-0.5) * share * 0.2.
adjust(current, difference, sample, share) ==
    LET step == Clamp(2 * difference, -sample, sample)
    IN  Clamp(current + Rounded(step * share, sample), 8000, 12500)

Balance(kind) ==
    LET Count(trust) == Cardinality({i \in DOMAIN metricsLog :
                            metricsLog[i] = [intent |-> kind, trustLevel |-> trust]})
    IN  Count("trusted") - Count("refused")

buildAdaptedContext ==
    LET sample == Max({1, Len(metricsLog)})
    IN  [TRIGGERS_ON |-> adjust(multipliers.TRIGGERS_ON, Balance("automation"), sample, 1000),
         WRITES |-> adjust(multipliers.WRITES, Balance("impact"), sample, 1000),
         QUERIES |-> adjust(multipliers.QUERIES, Balance("impact"), sample, 800),
         REFERENCES |-> adjust(multipliers.REFERENCES, Balance("impact"), sample, 600)]

\* POST /meta/adapt. The log is read line by line: a torn one throws.
Adapt ==
    /\ turn = None /\ adapts < MaxAdapts /\ ~metricsTorn
    /\ multipliers' = buildAdaptedContext
    /\ multipliers' # multipliers
    /\ adapts' = adapts + 1
    /\ UNCHANGED <<stores, logs, job, turn, requests, edits, refreshes, faults, ghosts>>

------------------------------------------------------------------------------
(* The environment: retrieves, refreshes and crashes.                      *)

\* A retrieve writes other files into the tree.
Retrieve ==
    /\ turn = None /\ edits < MaxEdits
    /\ \E t \in Sources \ {tree} : tree' = t
    /\ edits' = edits + 1
    /\ UNCHANGED <<graph, evidence, refreshState, refreshing, multipliers, logs, job, turn,
                   requests, refreshes, adapts, faults, ghosts>>

\* A refresh commits the graph of the tree it has parsed.
RefreshGraph ==
    /\ turn = None /\ refreshing = None /\ refreshes < MaxRefreshes
    /\ graph' = tree /\ refreshing' = tree
    /\ refreshes' = refreshes + 1
    /\ UNCHANGED <<tree, evidence, refreshState, multipliers, logs, job, turn,
                   requests, edits, adapts, faults, ghosts>>

\* Then it indexes the tree as it is now, and writes its state.
RefreshEvidence ==
    /\ turn = None /\ refreshing # None
    /\ evidence' = tree /\ refreshState' = refreshing /\ refreshing' = None
    /\ refreshes' = refreshes + 1
    /\ UNCHANGED <<tree, graph, multipliers, logs, job, turn, requests, edits, adapts, faults,
                   ghosts>>

\* A refresh fails after its graph was committed.
RefreshFails ==
    /\ turn = None /\ refreshing # None /\ faults < MaxFaults
    /\ refreshing' = None /\ faults' = faults + 1
    /\ UNCHANGED <<tree, graph, evidence, refreshState, multipliers, logs, job, turn,
                   requests, edits, refreshes, adapts, ghosts>>

\* The process dies: an append under way may leave a torn line. An idle process
\* holds nothing that is not on disk.
Crash ==
    /\ faults < MaxFaults /\ faults' = faults + 1
    /\ refreshing # None \/ \E h \in Handlers : job[h] # NoJob
    /\ \/ UNCHANGED <<proofsTorn, metricsTorn>>
       \/ \E h \in Handlers :
            /\ turn = h /\ Running(h, "ask", "proof")
            /\ proofsTorn' = TRUE /\ UNCHANGED metricsTorn
       \/ \E h \in Handlers :
            /\ turn = h /\ Running(h, "ask", "metrics")
            /\ metricsTorn' = TRUE /\ UNCHANGED proofsTorn
    /\ job' = [h \in Handlers |-> NoJob] /\ turn' = None /\ refreshing' = None
    /\ UNCHANGED <<tree, graph, evidence, refreshState, multipliers, proofs, metricsLog,
                   requests, edits, refreshes, adapts, ghosts>>

Step(h) ==
    QueryAnswered(h) \/ ModelAnswered(h) \/ AppendProof(h) \/ AppendMetrics(h) \/ ReplayEnds(h)

Next ==
    \/ \E h \in Handlers : Ask(h) \/ Replay(h) \/ Step(h)
    \/ Adapt \/ Retrieve \/ RefreshGraph \/ RefreshEvidence \/ RefreshFails \/ Crash

Spec == Init /\ [][Next]_vars

------------------------------------------------------------------------------
(* Properties.                                                             *)

\* Replaying a proof reproduces it whenever nothing it was computed from has
\* changed: neither while it was first computed, nor since, nor meanwhile
\* (AskService.replay). What is stored in a proof is enough to recompute it.
ReplayReproduces ==
    \A v \in verdicts : v.sameStores /\ v.sameMultipliers /\ v.sameModel => v.matched

\* Adapting the multipliers between an ask and its replay may reorder the edges
\* a packet names, and nothing else: not the answer, its metrics or its trust
\* level (AnalysisService ranks by score but filters by the parsers' confidence).
AdaptOnlyReorders ==
    \A v \in verdicts : v.sameStores /\ v.sameModel => v.sameOutcome

\* An answer that is not refused rests on evidence, and none of execute's own
\* refusals gets past the policy envelope (buildMetrics, resolveTrustLevel).
TrustedIsGrounded ==
    \A a \in answered : a.trustLevel # "refused" =>
        a.citationIds # {} /\ a.branch \notin Refusals

LatestAccepted == {a \in answered : a.request.q.latest /\ a.trustLevel # "refused"}

\* A question restricted to the latest retrieve is never answered by a query of
\* the whole graph; and when the scope has any rule, all it cites is in the scope
\* or is the flow it names (execute, buildEvidenceSearchOptions).
LatestNeverGraphWide ==
    \A a \in LatestAccepted :
        /\ a.queries = {}
        /\ (\E s \in a.request.scope : HasRule(s)) =>
              a.citationIds \subseteq ScopeFiles(a.request.scope) \cup {a.request.q.named}

\* What the execution notes promise: an answer about the latest retrieve cites
\* what was retrieved, and questions for which that is not supported refuse.
LatestIsScoped ==
    \A a \in LatestAccepted : a.citationIds \subseteq Retrieved(a.request.scope)

\* An answer is given only once its proof can be looked up, and no answer is
\* counted in the metrics without one, as long as no append was cut off
\* (AskService.ask).
AnsweredIsProven ==
    ~proofsTorn =>
        /\ \A a \in answered : \E i \in DOMAIN proofs : proofs[i].proofId = a.proofId
        /\ \E earlier \in FirstLogs : Len(metricsLog) <= Len(earlier) + Len(proofs)
==============================================================================
