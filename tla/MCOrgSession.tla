----------------------------- MODULE MCOrgSession -----------------------------
(***************************************************************************)
(* Small instances of OrgSession for TLC.                                  *)
(***************************************************************************)
EXTENDS OrgSession, TLC

CONSTANTS dev, uat, h1, h2

CustomObject == "CustomObject"
Flow == "Flow"
CustomField == "CustomField"

TwoOrgs == dev :> {CustomObject, Flow} @@ uat :> {CustomObject}

account == "account"
routing == "routing"
Families == account :> CustomObject @@ routing :> Flow

AliasCalls ==
    {[op |-> "connect", alias |-> dev], [op |-> "switch", alias |-> uat],
     [op |-> "bridge", alias |-> uat], [op |-> "preflight", alias |-> uat]}

Option(auth, selection, refresh) ==
    [runAuth |-> auth, selection |-> selection, autoRefresh |-> refresh]

\* A full retrieve, an authentication alone, and a refresh alone.
Retrieves ==
    {[alias |-> uat, options |-> Option(TRUE, {account, routing}, TRUE)],
     [alias |-> dev, options |-> Option(TRUE, {}, FALSE)],
     [alias |-> dev, options |-> Option(FALSE, {}, TRUE)]}
SelectedRetrieves == {Option(FALSE, {routing}, TRUE)}
Browsing == {[search |-> TRUE, forced |-> TRUE], [search |-> FALSE, forced |-> FALSE]}
==============================================================================
