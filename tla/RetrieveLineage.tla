--------------------------- MODULE RetrieveLineage ---------------------------
(***************************************************************************)
(* What the web client concludes from the last Browser retrieve, the       *)
(* handoff: whether it may seed a refresh, whether a recorded refresh,     *)
(* diff or pipeline run still belongs to it, and the four stages of        *)
(* Refresh & Build.  A selection is a set of <<family, member>>, with      *)
(* Whole for a family taken whole, and the metadata arguments the server   *)
(* reports are that set; the parse path is the one the server is           *)
(* configured with, so no two differ.                                      *)
(***************************************************************************)
EXTENDS FiniteSets, Naturals

CONSTANTS None,   \* null, an empty text, an absent field
          Whole   \* a selection without members

\* No alias to expect means no alias to compare.
assessRetrieveHandoff(handoff, expectedAlias) ==
    CASE handoff = None -> "missing"
      [] /\ handoff # None
         /\ expectedAlias \notin {None, handoff.alias} \/ handoff.metadataArgs = {} -> "blocked"
      [] OTHER -> "ready"

IsReady(handoff, selections, expectedAlias) ==
    assessRetrieveHandoff(handoff, expectedAlias) = "ready" /\ selections # {}

selectionCount(selections) == Cardinality({s[1] : s \in selections})

\* The lineage recorded beside a run, None unless the handoff is ready.
buildWorkflowLineage(handoff, selections, expectedAlias) ==
    IF ~IsReady(handoff, selections, expectedAlias) THEN None
    ELSE [alias |-> handoff.alias, metadataArgs |-> handoff.metadataArgs,
          selectionCount |-> selectionCount(selections),
          handoffCompletedAt |-> handoff.completedAt]

\* Mutation: the same cart retrieved again passes for the same handoff.
compareStoredLineage_AnyTime(stored, current) ==
    /\ stored # None
    /\ \A f \in DOMAIN current \ {"handoffCompletedAt"} : stored[f] = current[f]

compareStoredLineage(stored, current) ==
    stored # None /\ \A f \in DOMAIN current : stored[f] = current[f]

Belongs(run, v) ==
    LET current == buildWorkflowLineage(v.handoff, v.selections, v.expectedAlias)
    IN  current # None /\ compareStoredLineage(run.lineage, current)

\* v is what the page shows at one moment: handoff, selections, expectedAlias,
\* the three last runs, the pair of snapshots and the Run Retrieve switch.
assessRefreshRunLineage(v) ==
    CASE v.lastRefreshRun = None -> "missing"
      [] v.lastRefreshRun # None /\ Belongs(v.lastRefreshRun, v) -> "current"
      [] OTHER -> "stale"

assessDiffRunLineage(v) ==
    CASE v.lastDiffRun = None -> "missing"
      [] /\ v.lastDiffRun # None
         /\ Belongs(v.lastDiffRun, v)
         /\ assessRefreshRunLineage(v) = "current"
         /\ v.lastDiffRun.refreshSnapshotId = v.lastRefreshRun.snapshotId -> "current"
      [] OTHER -> "stale"

assessOrgRetrieveRunLineage(v) ==
    LET run == v.lastOrgRetrieveRun
    IN  CASE run = None -> "missing"
          [] run # None /\ ~run.runRetrieve -> "missing"
          [] /\ run # None /\ run.runRetrieve
             /\ Belongs(run, v)
             /\ run.alias = v.handoff.alias
             /\ run.metadataArgs = v.handoff.metadataArgs -> "current"
          [] OTHER -> "stale"

ValidPair(v) == None \notin {v.fromSnapshot, v.toSnapshot} /\ v.fromSnapshot # v.toSnapshot

hasReadyHandoff(v) == IsReady(v.handoff, v.selections, v.expectedAlias)

Captured(run, assessment) ==
    CASE run = None -> "ready"
      [] run # None /\ assessment = "current" -> "complete"
      [] OTHER -> "stale"

buildRefreshWorkflowStages(v) ==
    [retrieve |->
        CASE v.handoff = None -> "waiting"
          [] hasReadyHandoff(v) -> "complete"
          [] OTHER -> "blocked",
     refresh |->
        IF ~hasReadyHandoff(v) THEN "waiting"
        ELSE Captured(v.lastRefreshRun, assessRefreshRunLineage(v)),
     diff |->
        CASE ~hasReadyHandoff(v) \/ assessRefreshRunLineage(v) # "current" -> "waiting"
          [] /\ hasReadyHandoff(v) /\ assessRefreshRunLineage(v) = "current"
             /\ ~ValidPair(v) -> "blocked"
          [] OTHER -> Captured(v.lastDiffRun, assessDiffRunLineage(v)),
     orgRetrieve |->
        CASE ~hasReadyHandoff(v) -> "waiting"
          [] hasReadyHandoff(v) /\ ~v.orgRunRetrieve -> "ready"
          [] OTHER -> Captured(v.lastOrgRetrieveRun, assessOrgRetrieveRunLineage(v))]
==============================================================================
