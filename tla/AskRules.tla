------------------------------- MODULE AskRules -------------------------------
(***************************************************************************)
(* What AskService makes of a question: the branch that answers it, the    *)
(* evidence it may cite, the graph queries it awaits, and the answer,      *)
(* metrics, trust level and proof. Pure.                                   *)
(*                                                                         *)
(* All questions are about one topic, the object or field in question. A   *)
(* file's text is "other", "near" (it speaks of the object, so a search    *)
(* finds it) or "match" (it speaks of the field too), or the file is       *)
(* "absent"; the tree, the graph and the evidence index are functions from *)
(* files to these. Scores are integers: confidence in hundredths, metrics  *)
(* and multipliers in ten-thousandths. Answers are compared, never read,   *)
(* so an answer is the facts its text is made from.                        *)
(***************************************************************************)
EXTENDS Planner, Integers, Sequences, FiniteSetsExt

CONSTANTS
    Types,
    RuleTypes,              \* families resolveSelectionSourceRule knows
    DirectoryOf,            \* resolveMetadataFamilyDirectory, None if it has none
    Under,                  \* the files at or below a component's path
    Relations,              \* the relations a file's edges have
    Confidence,             \* the confidence its parser gives them
    NameOrder,              \* the place of its name in localeCompare order
    MinConfidence,          \* configService.minConfidenceDefault()
    GroundingThreshold, ConstraintThreshold, AmbiguityMax

Texts == {"absent", "other", "near", "match"}
Found == {"near", "match"}
AllRelations == {"TRIGGERS_ON", "WRITES", "QUERIES", "REFERENCES", "GRANTS"}

ASSUME AskAssumption ==
    /\ None \notin Files /\ "this" \notin Files
    /\ TypeOf \in [Files -> Types] /\ RuleTypes \subseteq Types
    /\ DOMAIN DirectoryOf = Types
    /\ Under \in [Files -> SUBSET Files] /\ \A f \in Files : f \in Under[f]
    /\ Relations \in [Files -> SUBSET AllRelations]
    /\ Confidence \in [Files -> 1..3] /\ MinConfidence \in 1..3
    /\ NameOrder \in [Files -> Nat]
    /\ \A f, g \in Files : NameOrder[f] = NameOrder[g] => f = g
    /\ IsFiniteSet(Files)
    /\ GroundingThreshold \in 0..10000 /\ ConstraintThreshold \in 0..10000
    /\ AmbiguityMax \in 0..10000

------------------------------------------------------------------------------
(* The evidence scope: the selections of a retrieve.                       *)

\* A selection without members is a whole family.
Selections == [type : Types, members : SUBSET Files]

FamilyFiles(type) ==
    IF DirectoryOf[type] = None THEN {}
    ELSE {f \in Files : DirectoryOf[TypeOf[f]] = DirectoryOf[type]}

\* The paths of a selection, none when its family has no rule.
resolveSelectionSourceRule(s) ==
    CASE s.members = {} -> FamilyFiles(s.type)
      [] s.members # {} /\ s.type \in RuleTypes -> UNION {Under[m] : m \in s.members}
      [] OTHER -> {}

HasRule(s) == IF s.members = {} THEN DirectoryOf[s.type] # None ELSE s.type \in RuleTypes

ScopeFiles(scope) == UNION {resolveSelectionSourceRule(s) : s \in scope}

\* What the retrieve brought, rule or no rule.
Retrieved(scope) ==
    UNION {IF s.members = {} THEN {f \in Files : TypeOf[f] = s.type}
           ELSE UNION {Under[m] : m \in s.members} : s \in scope}

\* With no rule at all the search options are undefined: every path qualifies.
buildEvidenceSearchOptions(scope) ==
    IF scope # None /\ \E s \in scope : HasRule(s) THEN ScopeFiles(scope) ELSE Files

\* Hits are the files with the text they had in the index.
searchEvidence(evidence, scope) ==
    [f \in {x \in buildEvidenceSearchOptions(scope) : evidence[x] \in Found} |-> evidence[f]]

\* The files of the scope: from the index or, if they are not in it, from disk.
resolveSourcePathEvidence(files, evidence, tree) ==
    LET text == [f \in files |-> IF evidence[f] # "absent" THEN evidence[f] ELSE tree[f]]
    IN  [f \in {x \in files : text[x] # "absent"} |-> text[f]]

resolveScopedMetadataEvidence(scope, evidence, tree) ==
    resolveSourcePathEvidence(ScopeFiles(scope), evidence, tree)

\* The flow's own file is read wherever it is, selected or not.
resolveScopedFlowEvidence(flow, evidence, tree) ==
    resolveSourcePathEvidence({flow}, evidence, tree)

evidenceScopeContains(scope, target) ==
    \E s \in scope :
        \/ s.type = TypeOf[target] /\ target \in s.members
        \/ TypeOf[target] = "CustomObject" /\ s.type = "CustomField"
           /\ s.members \cap Under[target] # {}

------------------------------------------------------------------------------
(* The branch.                                                             *)

inferRequestedFlowName(hits) ==
    LET flows == {f \in DOMAIN hits : TypeOf[f] = "Flow"}
    IN  IF Cardinality(flows) = 1 THEN CHOOSE f \in flows : TRUE ELSE None

requestedFlowName(q, hits) ==
    CASE q.flow = "named" -> q.named
      [] q.flow = "called" -> inferRequestedFlowName(hits)
      [] OTHER -> None

latestRetrieveSupported(q, scope) ==
    LET p == plan(q)
    IN  \/ p.intent = "automation" /\ q.flow # "none"
        \/ p.intent \in {"impact", "automation"} /\ grounded(q)
           /\ (p.intent = "impact" => aboutField(q))
           /\ evidenceScopeContains(scope, q.target)
        \/ p.frame.intent \in {"permission_path_explanation", "approval_decision",
                               "evidence_lookup"}

AutomationBranch(q, scope, hits) ==
    IF ~plan(q).frame.admissible THEN "blocked"
    ELSE IF requestedFlowName(q, hits) # None THEN "flow"
    ELSE IF q.flow # "none" /\ ~grounded(q) THEN "flowUnresolved"
    ELSE IF q.latest /\ scope # None /\ grounded(q) THEN "scopedAutomation"
    ELSE "automation"

ImpactBranch(q, scope) ==
    IF ~plan(q).frame.admissible THEN "blocked"
    ELSE IF q.latest /\ scope # None /\ evidenceScopeContains(scope, q.target)
         THEN "scopedImpact" ELSE "impact"

\* execute, from its first guard to its last.
Branch(q, scope, hits) ==
    LET p == plan(q)
    IN  IF q.latest /\ scope = None THEN "noScope"
        ELSE IF q.latest /\ ~latestRetrieveSupported(q, scope) THEN "unsupported"
        ELSE CASE p.frame.intent = "evidence_lookup" ->
                    IF p.frame.admissible THEN "lookup" ELSE "blocked"
               [] p.intent = "review" -> IF p.frame.admissible THEN "review" ELSE "blocked"
               [] p.intent = "perms" -> IF p.frame.admissible THEN "perms" ELSE "blockedPerms"
               [] p.intent = "mixed" -> "mixed"
               [] p.intent = "automation" -> AutomationBranch(q, scope, hits)
               [] p.intent = "impact" -> ImpactBranch(q, scope)
               [] OTHER -> "default"

Refusals == {"noScope", "unsupported", "blocked", "blockedPerms", "default"}

------------------------------------------------------------------------------
(* Evidence cited: the hits of the search, and what a branch adds to them  *)
(* when nothing it looks for is among them.                                *)

NoHits == [f \in {} |-> "match"]

\* Both lists of hits; a file in both keeps its text in the first.
dedupeCitations(hits, more) ==
    [f \in DOMAIN hits \cup DOMAIN more |-> IF f \in DOMAIN hits THEN hits[f] ELSE more[f]]

\* A lookup takes every hit, a flow question those that name the flow, a
\* scoped summary those that match its target.
matchedHits(branch, q, hits) ==
    CASE branch = "lookup" -> DOMAIN hits
      [] branch = "flow" -> {f \in DOMAIN hits : f = requestedFlowName(q, hits) \/ hits[f] = "match"}
      [] branch \in {"scopedImpact", "scopedAutomation"} ->
            {f \in DOMAIN hits : IF TypeOf[q.target] = "CustomField" THEN hits[f] = "match"
                                                                     ELSE hits[f] \in Found}
      [] OTHER -> {}

resolveScopedComponentUsageEvidence(scope, evidence, tree) ==
    LET hits == resolveScopedMetadataEvidence(scope, evidence, tree)
    IN  [f \in {x \in DOMAIN hits : hits[x] = "match"} |-> hits[f]]

resolveScopedComponentDefinitionEvidence(q, scope, evidence, tree) ==
    IF q.named = None THEN NoHits
    ELSE IF TypeOf[q.named] = "Flow" THEN resolveScopedFlowEvidence(q.named, evidence, tree)
    ELSE IF \E s \in scope : s.type = TypeOf[q.named] /\ q.named \in s.members /\ HasRule(s)
    THEN resolveSourcePathEvidence(Under[q.named], evidence, tree)
    ELSE NoHits

FallbackHits(branch, q, scope, hits, evidence, tree) ==
    CASE branch = "lookup" /\ q.latest ->
            LET usage == resolveScopedComponentUsageEvidence(scope, evidence, tree)
            IN  IF DOMAIN usage # {} THEN usage
                ELSE resolveScopedComponentDefinitionEvidence(q, scope, evidence, tree)
      [] branch = "flow" /\ scope # None ->
            resolveScopedFlowEvidence(requestedFlowName(q, hits), evidence, tree)
      [] branch \in {"scopedImpact", "scopedAutomation"} ->
            resolveScopedMetadataEvidence(scope, evidence, tree)
      [] OTHER -> NoHits

citationHits(branch, q, scope, hits, evidence, tree) ==
    IF matchedHits(branch, q, hits) # {} THEN hits
    ELSE dedupeCitations(hits, FallbackHits(branch, q, scope, hits, evidence, tree))

------------------------------------------------------------------------------
(* The graph queries a branch awaits, one after the other.                 *)

permsQueries(withField) ==
    IF withField THEN <<"objectPerms", "fieldPerms">> ELSE <<"objectPerms">>

Queries(branch, q, consistency) ==
    CASE branch = "review" ->
            permsQueries(aboutField(q)) \o <<"automation">>
            \o (IF aboutField(q) THEN <<"impact">> ELSE <<>>)
      [] branch = "mixed" -> permsQueries(TRUE) \o <<"impact">>
      [] branch = "perms" -> permsQueries(aboutField(q))
      [] branch = "automation" -> <<"automation">>
      [] branch = "impact" ->
            IF consistency THEN <<"impact", "verification">> ELSE <<"impact">>
      [] OTHER -> <<>>

relBaseScore == [TRIGGERS_ON |-> 100, WRITES |-> 95, QUERIES |-> 75, REFERENCES |-> 60]
confidenceWeight == <<40, 75, 100>>
scoreForHit(f, rel, multipliers) ==
    relBaseScore[rel] * confidenceWeight[Confidence[f]] * multipliers[rel]

\* Mutated: the floor is applied to the adapted score.
passesConfidenceFloor_Score(f, rel, low, multipliers) ==
    scoreForHit(f, rel, multipliers) >= confidenceWeight[IF low THEN 1 ELSE MinConfidence] * 950000

passesConfidenceFloor(f, rel, low, multipliers) ==
    Confidence[f] >= (IF low THEN 1 ELSE MinConfidence)

\* Edges are pairs of a file and a relation, and a ranking gives each the number of
\* those before it. Automation scores are rounded before they are compared, impact
\* scores are not.
Ranked(edges, score) ==
    LET before(d, e) == \/ score[d] > score[e]
                        \/ score[d] = score[e] /\ NameOrder[d[1]] < NameOrder[e[1]]
    IN  [e \in edges |-> Cardinality({d \in edges : before(d, e)})]

Edges(graph, texts, relations, low, multipliers) ==
    {e \in Files \X relations :
        /\ graph[e[1]] \in texts /\ e[2] \in Relations[e[1]]
        /\ passesConfidenceFloor(e[1], e[2], low, multipliers)}

automation(graph, low, multipliers) ==
    LET edges == Edges(graph, Found, AllRelations \ {"GRANTS"}, low, multipliers)
    IN  Ranked(edges, [e \in edges |-> (scoreForHit(e[1], e[2], multipliers) + 50000) \div 100000])

impact(graph, low, multipliers) ==
    LET edges == Edges(graph, {"match"}, {"REFERENCES", "QUERIES", "WRITES"}, low, multipliers)
    IN  Ranked(edges, [e \in edges |-> scoreForHit(e[1], e[2], multipliers)])

\* The principals whose grants the graph holds.
permPaths(graph, texts) ==
    {f \in Files : "GRANTS" \in Relations[f] /\ graph[f] \in texts}

Answered(query, graph, low, multipliers) ==
    CASE query = "objectPerms" -> permPaths(graph, Found)
      [] query = "fieldPerms" -> permPaths(graph, {"match"})
      [] query = "automation" -> automation(graph, low, multipliers)
      [] OTHER -> impact(graph, low, multipliers)

------------------------------------------------------------------------------
(* The answer. `reads' holds the answers of the queries by their names.    *)

Total(reads, query) == IF query \in DOMAIN reads THEN Cardinality(DOMAIN reads[query]) ELSE 0

granted(reads) ==
    /\ reads.objectPerms # {}
    /\ "fieldPerms" \in DOMAIN reads => reads.fieldPerms # {}

\* reviewRiskScore in thousandths, and the verdict.
reviewRiskScore(reads) ==
    LET sum == (IF granted(reads) THEN 7200 ELSE 16200)
               + Min({9000, 3000 * Total(reads, "automation")})
               + Min({10800, 2000 * Total(reads, "impact")})
    IN  (Min({36000, sum}) + 18) \div 36

Level(risk) ==
    CASE risk >= 700 -> "high" [] risk \in 400..699 -> "medium" [] OTHER -> "low"
riskLevel(reads) == Level(reviewRiskScore(reads))

recommendation(reads, cites) ==
    CASE riskLevel(reads) = "high" -> "do_not_approve_yet"
      [] riskLevel(reads) = "low" /\ Cardinality(DOMAIN cites) >= 3 -> "approve_with_verification"
      [] OTHER -> "review_before_approval"

references(q, cites) == DOMAIN cites \ {q.named}

confidence(branch, q, cites, reads) ==
    LET matched == matchedHits(branch, q, cites) # {}
        If(condition, yes, no) == IF condition THEN yes ELSE no
    IN  CASE branch = "default" -> 20
          [] branch \in Refusals \ {"default"} -> 18
          [] branch = "lookup" -> If(references(q, cites) # {}, 82, If(matched, 58, 24))
          [] branch = "review" ->
                CASE riskLevel(reads) = "high" -> 91
                  [] riskLevel(reads) = "medium" -> 86
                  [] OTHER -> 82
          [] branch = "mixed" -> If(granted(reads) /\ Total(reads, "impact") > 0, 90, 72)
          [] branch = "perms" -> If(granted(reads), 86, 62)
          [] branch = "flow" -> If(matched, 79, 52)
          [] branch = "flowUnresolved" -> 46
          [] branch = "scopedAutomation" -> If(matched, 74, 48)
          [] branch = "automation" -> If(Total(reads, "automation") > 0, 82, 58)
          [] branch = "scopedImpact" -> If(matched, 76, 50)
          [] branch = "impact" -> If(Total(reads, "impact") > 0, 80, 55)

rejectedBranches(branch, q, cites, reads) ==
    Cardinality({r \in {"perms", "automation", "impact"} :
        CASE r = "perms" -> branch \in {"review", "mixed", "perms"} /\ ~granted(reads)
          [] r = "automation" -> branch \in {"review", "automation"} /\ Total(reads, r) = 0
          [] OTHER -> \/ branch = "review" /\ aboutField(q) /\ Total(reads, r) = 0
                      \/ branch \in {"mixed", "impact"} /\ Total(reads, r) = 0})
    + (IF \/ branch \in Refusals \cup {"flowUnresolved"}
          \/ branch \in {"lookup", "flow", "scopedAutomation", "scopedImpact"}
             /\ matchedHits(branch, q, cites) = {}
       THEN 1 ELSE 0)

consistency(branch, checks, reads) ==
    [checked |-> checks /\ branch \notin {"perms", "blockedPerms", "default"},
     aligned |-> "verification" \in DOMAIN reads =>
                    Total(reads, "verification") = Total(reads, "impact")]

\* What the text of the deterministic answer is made from: no order of edges.
deterministicAnswer(branch, q, cites, reads) ==
    [branch |-> branch,
     used |-> [f \in matchedHits(branch, q, cites) |-> cites[f]],
     found |-> [k \in DOMAIN reads \ {"verification"} |->
                    IF k \in {"objectPerms", "fieldPerms"} THEN reads[k] ELSE {Total(reads, k)}]]

\* The first three distinct names of a ranking, with their places.
topNames(ranked) ==
    LET best(f) == Min({ranked[e] : e \in {d \in DOMAIN ranked : d[1] = f}})
        place == [f \in {e[1] : e \in DOMAIN ranked} |->
                    Cardinality({e[1] : e \in {d \in DOMAIN ranked : best(d[1]) < best(f)}})]
    IN  [f \in {g \in DOMAIN place : place[g] < 3} |-> place[f]]

\* Packets. Risks are in thousandths; what a flow reads and writes is the topic's
\* field, so there is at most one of each.
buildComponentUsageDecisionPacket(q, cites) ==
    LET referenced == references(q, cites) # {}
    IN  [riskScore |-> CASE referenced -> 360
                         [] ~referenced /\ DOMAIN cites # {} -> 220
                         [] OTHER -> 120,
         riskLevel |-> IF referenced THEN "medium" ELSE "low",
         verdict |-> IF referenced THEN "review_before_approval" ELSE "needs_more_evidence",
         sources |-> references(q, cites)]

buildFlowEvidenceSummary(matched, cites) ==
    LET has(relations) == {f \in matched : cites[f] = "match" /\ Relations[f] \cap relations # {}}
    IN  [matched |-> matched, reads |-> has({"QUERIES", "REFERENCES"}), writes |-> has({"WRITES"}),
         triggers |-> {f \in matched : "TRIGGERS_ON" \in Relations[f]}]

buildAutomationFlowDecisionPacket(matched, cites) ==
    LET summary == buildFlowEvidenceSummary(matched, cites)
        cited == Cardinality(DOMAIN cites)
        risk == 320 + (IF summary.writes # {} THEN 145 ELSE 40)
                + (IF summary.reads # {} THEN 105 ELSE 40)
                + (IF summary.triggers # {} THEN 80 ELSE 30)
                + (IF matched = {} THEN 280 ELSE 0) + 30 * (6 - Min({6, cited}))
    IN  [riskScore |-> Min({1000, risk}), riskLevel |-> Level(Min({1000, risk})),
         verdict |-> CASE matched = {} -> "needs_more_evidence"
                       [] matched # {} /\ risk >= 700 -> "review_before_approval"
                       [] OTHER -> "approve_with_verification",
         summary |-> summary, sources |-> DOMAIN cites]

buildImpactDecisionPacket(paths, top, cites, latest) ==
    LET risk == 260 + Min({380, 80 * paths})
                + (IF Cardinality(DOMAIN cites) < 3 THEN 120 ELSE 50)
                + (IF latest THEN 40 ELSE 0)
    IN  [riskScore |-> risk, riskLevel |-> Level(risk),
         verdict |-> CASE paths = 0 -> "needs_more_evidence"
                       [] paths > 0 /\ risk >= 700 -> "review_before_approval"
                       [] OTHER -> "approve_with_verification",
         top |-> top, sources |-> DOMAIN cites]

\* A review packet names its top edges in the order of their scores.
reviewDecisionPacket(q, cites, reads) ==
    [riskScore |-> reviewRiskScore(reads), riskLevel |-> riskLevel(reads),
     verdict |-> recommendation(reads, cites), granted |-> granted(reads),
     focus |-> compileReviewWorkflow(q), sources |-> DOMAIN cites,
     topAutomationNames |-> topNames(reads.automation),
     topImpactedSources |-> IF "impact" \in DOMAIN reads THEN topNames(reads.impact) ELSE {}]

decisionPacket(branch, q, cites, reads) ==
    LET matched == matchedHits(branch, q, cites)
    IN  CASE branch = "lookup" -> buildComponentUsageDecisionPacket(q, cites)
          [] branch = "flow" -> buildAutomationFlowDecisionPacket(matched, cites)
          [] branch = "flowUnresolved" -> buildAutomationFlowDecisionPacket({}, cites)
          [] branch = "review" -> reviewDecisionPacket(q, cites, reads)
          [] branch = "impact" ->
                buildImpactDecisionPacket(Total(reads, "impact"), topNames(reads.impact), cites, FALSE)
          [] branch = "scopedImpact" ->
                buildImpactDecisionPacket(Cardinality(matched), matched, cites, TRUE)
          [] OTHER -> None

------------------------------------------------------------------------------
(* Metrics, trust and proof.                                               *)

buildMetrics_Offset(cited, conf, checks, kind, rejects) ==
    [groundingScore |-> IF cited > 0 THEN 6500 + 35 * conf ELSE 2500,
     constraintSatisfaction |-> IF checks.checked THEN 10000 ELSE 9200,
     ambiguityScore |-> 2500, riskSurfaceScore |-> 3500 + 1000 * rejects]

buildMetrics(cited, conf, checks, kind, rejects) ==
    [groundingScore |-> IF cited > 0 THEN 5500 + 45 * conf ELSE 2500,
     constraintSatisfaction |->
        CASE checks.checked -> (IF checks.aligned THEN 10000 ELSE 5500)
          [] ~checks.checked -> (IF kind = "unknown" THEN 7000 ELSE 9200),
     ambiguityScore |->
        CASE kind = "mixed" -> 5000 [] kind = "unknown" -> 8000 [] OTHER -> 2500,
     riskSurfaceScore |->
        Min({10000, 3500 + 1000 * rejects + (IF kind = "impact" THEN 1500 ELSE 0)})]

resolveTrustLevel(metrics) ==
    IF \/ metrics.groundingScore < GroundingThreshold
       \/ metrics.constraintSatisfaction < ConstraintThreshold
    THEN "refused"
    ELSE IF metrics.ambiguityScore > AmbiguityMax THEN "conditional" ELSE "trusted"

\* A request: a question, the scope of a retrieve card, and the options.
Requests ==
    [q : Questions, scope : {None} \cup SUBSET Selections,
     consistency : BOOLEAN, assist : BOOLEAN, low : BOOLEAN]

\* Whether the answer is put to the language model.
LLM_MIN_CONFIDENCE == 60
asksModel(r, branch, cites, reads) ==
    /\ r.assist /\ DOMAIN cites # {}
    /\ confidence(branch, r.q, cites, reads) >= LLM_MIN_CONFIDENCE

\* The response and the proof of it; `assisted' when the model's answer was used.
Respond(r, branch, cites, reads, assisted, snapshotId) ==
    LET base == confidence(branch, r.q, cites, reads)
        conf == IF assisted THEN Min({97, base + 3}) ELSE base
        metrics == buildMetrics(Cardinality(DOMAIN cites), conf,
                                consistency(branch, r.consistency, reads), intent(r.q),
                                rejectedBranches(branch, r.q, cites, reads))
        trust == resolveTrustLevel(metrics)
        mode == IF assisted /\ trust # "refused" THEN "llm_assist" ELSE "deterministic"
        answer == deterministicAnswer(branch, r.q, cites, reads)
    IN  [proofId |-> <<snapshotId, r.q, answer, mode>>,
         request |-> r, snapshotId |-> snapshotId, citationIds |-> DOMAIN cites,
         deterministicAnswer |-> answer, mode |-> mode, trustLevel |-> trust,
         metrics |-> metrics, decisionPacket |-> decisionPacket(branch, r.q, cites, reads)]

\* buildCorePayloadJson; the policy is the constant thresholds.
corePayload(proof) ==
    <<proof.deterministicAnswer, proof.mode, plan(proof.request.q), proof.trustLevel,
      proof.metrics, proof.decisionPacket>>
==============================================================================
