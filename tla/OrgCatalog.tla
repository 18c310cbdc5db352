------------------------------ MODULE OrgCatalog ------------------------------
(***************************************************************************)
(* The metadata catalogue of OrgService: what the CLI lists for an org,    *)
(* what the local parse tree holds, and how the two are merged into the    *)
(* index that browsing, searching and the selective retrieve read.         *)
(*                                                                         *)
(* A family is a metadata type. Member names are abstracted to where they  *)
(* came from: a member list is the set of aliases of the orgs whose names  *)
(* are in it.                                                              *)
(***************************************************************************)
EXTENDS Naturals, FiniteSets

CONSTANTS
    Aliases,            \* the org aliases an operator uses
    None,
    Types,              \* metadata families
    SeedTypes,          \* LIVE_METADATA_MEMBER_SEED_TYPES
    SearchOnlyTypes,    \* LIVE_METADATA_SEARCH_ONLY_TYPES
    OrgTypes            \* the families each org has

ASSUME CatalogAssumption ==
    /\ None \notin Aliases
    /\ SeedTypes \subseteq Types /\ SearchOnlyTypes \subseteq Types
    /\ OrgTypes \in [Aliases -> SUBSET Types]

MemberLists == UNION {[D -> SUBSET Aliases] : D \in SUBSET Types}
NoMembers == [t \in {} |-> {}]

\* What listing finds: the families with a descriptor, and the member lists.
Indexes == [catalog : SUBSET Types, members : MemberLists]
NoIndex == [catalog |-> {}, members |-> NoMembers]

listIndexTypes(index) == index.catalog \cup DOMAIN index.members

\* The families whose members are listed while discovering.
SeedsFor(search) == SeedTypes \cup (IF search THEN SearchOnlyTypes ELSE {})

\* The index before any member is listed: the families of the org, or, when
\* they could not be listed, the seeds, described by nothing.
FamilyIndex(families) ==
    [catalog |-> families, members |-> [t \in families |-> {}]]

\* One answer of `sf org list metadata': the org's names, or none.
WithMembers(index, t, a) ==
    [index EXCEPT !.members =
        [u \in DOMAIN index.members \cup {t} |->
            IF u = t THEN (IF t \in OrgTypes[a] THEN {a} ELSE {})
                     ELSE index.members[u]]]

buildTypeOrigins(index, origin) == [t \in listIndexTypes(index) |-> origin]

mergeTypeMembers(primary, secondary) ==
    LET In(members, t) == IF t \in DOMAIN members THEN members[t] ELSE {}
    IN  [t \in DOMAIN primary \cup DOMAIN secondary |-> In(primary, t) \cup In(secondary, t)]

mergeTypeCatalog(primary, secondary) == primary \cup secondary

mergeTypeOrigins(live, local) ==
    [t \in listIndexTypes(live) \cup listIndexTypes(local) |->
        IF t \in listIndexTypes(live)
        THEN IF t \in listIndexTypes(local) THEN "mixed" ELSE "live"
        ELSE "local_fallback"]

\* loadDiscoveryMetadataIndex, once both indexes are there. Whether the live
\* one counts is decided by its member lists, whether a family is live by its
\* catalogue too.
DiscoveryIndex(live, local) ==
    LET liveCounts == DOMAIN live.members # {}
        localCounts == DOMAIN local.members # {}
    IN  CASE liveCounts /\ localCounts ->
                [members |-> mergeTypeMembers(live.members, local.members),
                 catalog |-> mergeTypeCatalog(live.catalog, local.catalog),
                 origins |-> mergeTypeOrigins(live, local)]
          [] ~liveCounts /\ localCounts ->
                [members |-> local.members, catalog |-> local.catalog,
                 origins |-> buildTypeOrigins(local, "local_fallback")]
          [] OTHER ->
                [members |-> live.members, catalog |-> live.catalog,
                 origins |-> buildTypeOrigins(live, "live")]

\* What a live cache file is read back as: every family listed in it gets a
\* descriptor, the ones that had none a blank one.
parseCachedLiveMetadataIndex(index) == [index EXCEPT !.catalog = DOMAIN index.members]

\* The families a selective retrieve is refused for.
blockedTypes(index, selected) ==
    {t \in selected \cap DOMAIN index.origins : index.origins[t] = "local_fallback"}

\* A catalogue row may drive a retrieve unless it is fallback only.
retrievable(index, t) == index.origins[t] # "local_fallback"
==============================================================================
