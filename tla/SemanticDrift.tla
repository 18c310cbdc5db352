---------------------------- MODULE SemanticDrift ----------------------------
(***************************************************************************)
(* The pure part of a semantic refresh: what the ingestion service derives *)
(* from a parsed payload (ingestion.service.ts), how the drift policy      *)
(* judges the difference of two snapshots (semantic-drift-policy.service)  *)
(* and which payloads the ontology admits (ontology-constraints.service).  *)
(*                                                                         *)
(* A node's id is a hash of its type and name and an edge's id a hash of   *)
(* its endpoints and relation, so here a node IS [type, name] and an edge  *)
(* IS [src, rel, dst]; a payload is a pair of sets, and the node and edge  *)
(* digests of a snapshot are those sets themselves.                        *)
(***************************************************************************)
EXTENDS Integers, FiniteSets, FiniteSetsExt

CONSTANTS
    Budgets,            \* the eight thresholds of driftPolicy.domainBudgets
    AllowedNodeTypes,   \* benignAllowlist.nodeTypes
    AllowedRelations    \* benignAllowlist.relations

Domains == {"object", "field", "relation", "policy", "automation", "ui",
            "totalNode", "totalEdge"}

ASSUME BudgetsAssumption == Budgets \in [Domains -> Nat]

------------------------------------------------------------------------------
(* The ontology: which relation may join which node types.                 *)

POLICY_NODE_TYPES ==
    {"Profile", "PermissionSet", "PermissionSetGroup", "SystemPermission",
     "CustomPermission", "ConnectedApp"}
AUTOMATION_NODE_TYPES == {"ApexClass", "ApexTrigger", "Flow"}
UI_NODE_TYPES ==
    {"ApexPage", "LightningComponentBundle", "AuraDefinitionBundle",
     "QuickAction", "Layout"}

Principals == {"Profile", "PermissionSet"}

REL_CONSTRAINTS ==
    [GRANTS_OBJECT            |-> [src |-> Principals, dst |-> {"Object"}],
     GRANTS_FIELD             |-> [src |-> Principals, dst |-> {"Field"}],
     GRANTS_SYSTEM_PERMISSION |-> [src |-> Principals, dst |-> {"SystemPermission"}],
     GRANTS_CUSTOM_PERMISSION |-> [src |-> Principals, dst |-> {"CustomPermission"}],
     INCLUDES_PERMISSION_SET  |-> [src |-> {"PermissionSetGroup"}, dst |-> {"PermissionSet"}],
     USES_CONNECTED_APP       |-> [src |-> Principals, dst |-> {"ConnectedApp"}],
     HAS_FIELD                |-> [src |-> {"Object"}, dst |-> {"Field"}],
     TRIGGERS_ON              |-> [src |-> {"ApexTrigger", "Flow"}, dst |-> {"Object"}],
     REFERENCES               |-> [src |-> AUTOMATION_NODE_TYPES \cup UI_NODE_TYPES,
                                   dst |-> {"Object", "Field"}],
     QUERIES                  |-> [src |-> AUTOMATION_NODE_TYPES, dst |-> {"Object", "Field"}],
     WRITES                   |-> [src |-> AUTOMATION_NODE_TYPES, dst |-> {"Object", "Field"}]]

\* The edges that OntologyConstraintsService.validate reports: an unknown
\* relation, a missing endpoint, or an endpoint of a type not allowed there.
violations(p) ==
    {e \in p.edges :
        \/ e.rel \notin DOMAIN REL_CONSTRAINTS
        \/ e.src \notin p.nodes \/ e.src.type \notin REL_CONSTRAINTS[e.rel].src
        \/ e.dst \notin p.nodes \/ e.dst.type \notin REL_CONSTRAINTS[e.rel].dst}

\* Mutation: the nodes of one parser survive the merge.
mergePayloads_OneParser(payloads) ==
    [nodes |-> (CHOOSE p \in payloads : TRUE).nodes,
     edges |-> UNION {p.edges : p \in payloads}]

\* One payload from those of all parsers, keyed by id.
mergePayloads(payloads) ==
    [nodes |-> UNION {p.nodes : p \in payloads},
     edges |-> UNION {p.edges : p \in payloads}]

EmptyPayload == [nodes |-> {}, edges |-> {}]

------------------------------------------------------------------------------
(* Snapshots and their differences.                                        *)

\* What readSemanticSnapshot returns for a file that is absent or unreadable.
NoSnapshot == [fingerprint |-> <<>>, sourcePath |-> <<>>, payload |-> EmptyPayload]

\* Everything else in the record (counts, digests, id) is computed from these.
buildSemanticSnapshot(fingerprint, payload, sourcePath) ==
    [fingerprint |-> fingerprint, sourcePath |-> sourcePath, payload |-> payload]

snapshotId(snapshot) == <<snapshot.fingerprint, snapshot.payload>>

nodeTypeCounts(p) ==
    [t \in {n.type : n \in p.nodes} |-> Cardinality({n \in p.nodes : n.type = t})]
relationCounts(p) ==
    [r \in {e.rel : e \in p.edges} |-> Cardinality({e \in p.edges : e.rel = r})]

diffCounts(before, after) ==
    LET count(counts, key) == IF key \in DOMAIN counts THEN counts[key] ELSE 0
        delta(key) == count(after, key) - count(before, key)
    IN  [key \in {k \in DOMAIN before \cup DOMAIN after : delta(k) # 0} |-> delta(key)]

\* Mutation: the digests are not compared.
computeSemanticDiff_NoDigest(previous, current) ==
    LET before == IF previous = NoSnapshot THEN EmptyPayload ELSE previous.payload
        after  == current.payload
    IN  [nodeDelta |-> Cardinality(after.nodes) - Cardinality(before.nodes),
         edgeDelta |-> Cardinality(after.edges) - Cardinality(before.edges),
         structureDigestChanged |-> previous = NoSnapshot,
         changedNodeTypeCounts |-> diffCounts(nodeTypeCounts(before), nodeTypeCounts(after)),
         changedRelationCounts |-> diffCounts(relationCounts(before), relationCounts(after))]

\* Only counts are compared: the added and removed counts are net.
computeSemanticDiff(previous, current) ==
    LET before == IF previous = NoSnapshot THEN EmptyPayload ELSE previous.payload
        after  == current.payload
    IN  [nodeDelta |-> Cardinality(after.nodes) - Cardinality(before.nodes),
         edgeDelta |-> Cardinality(after.edges) - Cardinality(before.edges),
         structureDigestChanged |->
            previous = NoSnapshot \/ before.nodes # after.nodes \/ before.edges # after.edges,
         changedNodeTypeCounts |-> diffCounts(nodeTypeCounts(before), nodeTypeCounts(after)),
         changedRelationCounts |-> diffCounts(relationCounts(before), relationCounts(after))]

hasSemanticChanges(diff) ==
    \/ diff.nodeDelta # 0
    \/ diff.edgeDelta # 0
    \/ diff.structureDigestChanged
    \/ DOMAIN diff.changedNodeTypeCounts # {}
    \/ DOMAIN diff.changedRelationCounts # {}

------------------------------------------------------------------------------
(* The drift budget.                                                       *)

\* Mutation: the sum is signed.
AbsoluteSum_Signed(deltas, keys) == SumFunctionOnSet(deltas, DOMAIN deltas \cap keys)

AbsoluteSum(deltas, keys) ==
    LET magnitudes ==
          [key \in DOMAIN deltas |-> IF deltas[key] < 0 THEN -deltas[key] ELSE deltas[key]]
    IN  SumFunctionOnSet(magnitudes, DOMAIN deltas \cap keys)

observed(diff) ==
    LET types == DOMAIN diff.changedNodeTypeCounts \ AllowedNodeTypes
        rels  == DOMAIN diff.changedRelationCounts \ AllowedRelations
        nodes(set) == AbsoluteSum(diff.changedNodeTypeCounts, set \cap types)
    IN  [object     |-> nodes({"Object"}),
         field      |-> nodes({"Field"}),
         relation   |-> AbsoluteSum(diff.changedRelationCounts, rels),
         policy     |-> nodes(POLICY_NODE_TYPES),
         automation |-> nodes(AUTOMATION_NODE_TYPES),
         ui         |-> nodes(UI_NODE_TYPES),
         totalNode  |-> IF diff.nodeDelta < 0 THEN -diff.nodeDelta ELSE diff.nodeDelta,
         totalEdge  |-> IF diff.edgeDelta < 0 THEN -diff.edgeDelta ELSE diff.edgeDelta]

\* Mutation: a value at the threshold counts as a violation.
exceeded_AtThreshold(diff) == {d \in Domains : observed(diff)[d] >= Budgets[d]}

exceeded(diff) == {d \in Domains : observed(diff)[d] > Budgets[d]}

\* SemanticDriftPolicyService.evaluate: no previous snapshot, no judgement.
withinBudget(previous, current) ==
    \/ previous = NoSnapshot
    \/ exceeded(computeSemanticDiff(previous, current)) = {}
==============================================================================
