------------------------------ MODULE OrgSession ------------------------------
(***************************************************************************)
(* Org sessions and retrieves: OrgService over the session file, the two   *)
(* audit logs, the project directory and the two metadata caches, with the *)
(* Salesforce and CumulusCI CLIs as environment.                           *)
(*                                                                         *)
(* Every CLI call is awaited, and handlers interleave there: `pc' names    *)
(* the call a handler waits for, and the action of that name is the call's *)
(* end with the synchronous code up to the next await. `turn' is the       *)
(* handler between two synchronous file writes, where no other runs but    *)
(* the process may die. A call may exit non-zero for its own reasons (a    *)
(* timeout, a network error); MaxFaults bounds those, and crashes.         *)
(***************************************************************************)
EXTENDS OrgCatalog, Sequences

CONSTANTS
    Handlers,           \* concurrent HTTP requests
    Configured,         \* configService.sfAlias()
    Components,         \* metadata components a retrieve can select
    TypeOf,             \* the family of each
    AliasRequests,      \* connects, switches, bridges and preflights, by alias
    RetrieveRequests,   \* /org/retrieve: alias, runAuth, selection, autoRefresh
    SelectedRequests,   \* /org/metadata/retrieve: selection, autoRefresh
    CatalogRequests,    \* browsing: with search-only types, forced refresh
    Keychains,          \* the aliases the sf CLI may be logged in to at first
    SfRetryCount,       \* configService.sfRetryCount()
    MaxRequests,        \* bound: requests
    MaxLogins,          \* bound: logins and logouts of the operator in a shell
    MaxFaults           \* bound: crashes and failing calls

Options == [runAuth : BOOLEAN, selection : SUBSET Components, autoRefresh : BOOLEAN]
AllOperations == {"connect", "switch", "bridge", "preflight", "disconnect",
                  "retrieve", "selected", "catalog"}

ASSUME SessionAssumption ==
    /\ None \notin Handlers /\ Configured \in Aliases
    /\ SeedTypes # {}
    /\ TypeOf \in [Components -> Types]
    /\ AliasRequests \subseteq
           [op : {"connect", "switch", "bridge", "preflight"}, alias : Aliases]
    /\ RetrieveRequests \subseteq [alias : Aliases, options : Options]
    /\ SelectedRequests \subseteq Options
    /\ CatalogRequests \subseteq [search : BOOLEAN, forced : BOOLEAN]
    /\ Keychains \subseteq SUBSET Aliases
    /\ SfRetryCount \in Nat /\ MaxRequests \in Nat
    /\ MaxLogins \in Nat /\ MaxFaults \in Nat

VARIABLES
    session,            \* the session file; NoSession when absent or unreadable
    authAudit,          \* the readable entries of the session audit log
    authAuditTorn,      \* its last line was cut off by a crash
    retrieveAudit,      \* the entries of the retrieve audit log
    keychain,           \* the aliases the Salesforce CLI is logged in to
    registry,           \* the aliases in the CumulusCI org registry
    tree,               \* the parse tree: where each component's file came from
    graph,              \* the tree the graph was last built from
    refreshInProgress,  \* IngestionService.refreshInProgress
    liveCache,          \* the live metadata cache files: catalogue and search
    localCache,         \* the local metadata cache file
    job,                \* each handler's request
    turn,               \* the handler between two file writes
    requests, logins, faults,
    verified,           \* history: aliases an org was displayed for
    promised,           \* history: the fetches reported as completed and refreshed
    cutShort            \* history: a crash hit a handler between two writes

sessionFiles == <<session, authAudit, authAuditTorn>>
cli     == <<keychain, registry>>
parsed  == <<tree, graph, refreshInProgress>>
caches  == <<liveCache, localCache>>
bounds  == <<requests, logins, faults>>
ghosts  == <<verified, promised, cutShort>>
vars    == <<sessionFiles, retrieveAudit, cli, parsed, caches, job, turn, bounds, ghosts>>

------------------------------------------------------------------------------
(* Records.                                                                *)

NoSession == [status |-> "disconnected", activeAlias |-> None]
Sessions == [status : {"connected", "disconnected"}, activeAlias : Aliases]

resolveActiveAlias == IF session = NoSession THEN Configured ELSE session.activeAlias

\* sessionStatus and sessionHistory, as a client reads them.
sessionStatus == [status |-> session.status, activeAlias |-> resolveActiveAlias]
restoreAlias ==
    IF session # NoSession /\ session.status = "disconnected"
    THEN session.activeAlias ELSE None

AuditActions == {"connect", "switch", "disconnect", "switch_failed"}
AuditEntries == [action : AuditActions, alias : Aliases]

\* A file of the tree: the org it was fetched from and how often it was written.
Absent == [alias |-> None, version |-> 0]
Files == [alias : Aliases \cup {None}, version : Nat]
Fetches == [Components -> Nat]

\* The families of the tree, with the orgs whose names are in them.
TreeIndex ==
    LET there == {k \in Components : tree[k] # Absent}
    IN  [catalog |-> {},
         members |-> [t \in {TypeOf[k] : k \in there} |->
                        {tree[k].alias : k \in {x \in there : TypeOf[x] = t}}]]

NoCache == [version |-> "none", index |-> NoIndex]
Caches == [version : {"none", "old", "current"}, index : Indexes]

\* The CLI calls and refresh steps a handler awaits, and the writes it makes.
Waiting == {"sf", "cci", "display", "info", "import", "recheck",
            "auth", "authCci", "authInfo", "authImport",
            "liveSf", "types", "members", "fetch", "refresh", "parse", "rebuild"}
Writing == {"session", "authAudit"}

\* `readAlias' is the alias a handler read from the session for later use:
\* switch's previous alias, or the org whose catalogue is being listed.
NoOptions == [runAuth |-> FALSE, selection |-> {}, autoRefresh |-> FALSE]
NoJob ==
    [op |-> "none", pc |-> "idle", alias |-> Configured, readAlias |-> Configured,
     denied |-> FALSE, options |-> NoOptions, attempt |-> 0, left |-> {}, wrote |-> [k \in Components |-> 0],
     payload |-> [k \in Components |-> Absent],
     search |-> FALSE, forced |-> FALSE, unlisted |-> {}, cacheable |-> FALSE, index |-> NoIndex]
Jobs ==
    [op : AllOperations \cup {"none"}, pc : {"idle"} \cup Waiting \cup Writing,
     alias : Aliases, readAlias : Aliases, denied : BOOLEAN,
     options : Options,
     attempt : Nat, left : SUBSET Components, wrote : Fetches,
     payload : [Components -> Files],
     search : BOOLEAN, forced : BOOLEAN, unlisted : SUBSET Types, cacheable : BOOLEAN,
     index : Indexes]

\* The type invariant.
TypeOK ==
    /\ session \in Sessions \cup {NoSession}
    /\ authAudit \in Seq(AuditEntries) /\ authAuditTorn \in BOOLEAN
    /\ retrieveAudit \subseteq [status : {"completed", "failed"}, alias : Aliases]
    /\ keychain \subseteq Aliases /\ registry \subseteq Aliases
    /\ tree \in [Components -> Files] /\ graph \in [Components -> Files]
    /\ refreshInProgress \in BOOLEAN
    /\ liveCache \in [BOOLEAN -> Caches] /\ localCache \in Caches
    /\ job \in [Handlers -> Jobs] /\ turn \in Handlers \cup {None}
    /\ requests \in Nat /\ logins \in Nat /\ faults \in Nat
    /\ verified \subseteq Aliases /\ promised \in Fetches /\ cutShort \in BOOLEAN

\* A fresh installation, or one whose catalogue cache an older version wrote.
Init ==
    /\ session = NoSession /\ authAudit = <<>> /\ authAuditTorn = FALSE
    /\ retrieveAudit = {}
    /\ keychain \in Keychains /\ registry = {}
    /\ tree = [k \in Components |-> Absent] /\ graph = tree
    /\ refreshInProgress = FALSE
    /\ \E version \in {"none", "old"} :
          liveCache = [search \in BOOLEAN |->
             IF search \/ version = "none" THEN NoCache
             ELSE [version |-> version, index |-> FamilyIndex(OrgTypes[Configured])]]
    /\ localCache = NoCache
    /\ job = [h \in Handlers |-> NoJob] /\ turn = None
    /\ requests = 0 /\ logins = 0 /\ faults = 0
    /\ verified = {} /\ promised = [k \in Components |-> 0] /\ cutShort = FALSE

------------------------------------------------------------------------------
(* The control of a request.                                               *)

Awaits(h, pc) == turn = None /\ job[h].pc = pc
Writes(h, pc) == turn = h /\ job[h].pc = pc
Go(h, j, pc) == job' = [job EXCEPT ![h] = [j EXCEPT !.pc = pc]]
Finish(h) == job' = [job EXCEPT ![h] = NoJob]

\* The end of a call that would exit zero if `able'.
Exits(able) == able /\ UNCHANGED faults
Fails(able) ==
    IF able THEN faults < MaxFaults /\ faults' = faults + 1 ELSE UNCHANGED faults

\* The answer to a request. Only /org/retrieve keeps an audit of its outcome.
Answer(h, status) ==
    /\ retrieveAudit' = IF job[h].op = "retrieve"
                        THEN retrieveAudit \cup {[status |-> status, alias |-> job[h].alias]}
                        ELSE retrieveAudit
    /\ Finish(h)

\* retrieveAndRefresh and retrieveSelectedMetadata after authentication, and
\* after the fetch.
StartFetch(h, j) ==
    Go(h, [j EXCEPT !.attempt = 0, !.left = j.options.selection], "fetch")
AfterFetch(h, j) ==
    IF j.options.autoRefresh
    THEN Go(h, j, "refresh") /\ UNCHANGED retrieveAudit
    ELSE Answer(h, "completed")
AfterAuth(h, j) ==
    IF j.options.selection # {}
    THEN StartFetch(h, j) /\ UNCHANGED retrieveAudit
    ELSE AfterFetch(h, j)

\* The end of runAuth: connect, switch and retrieve write the session next.
Authenticated(h) ==
    /\ IF job[h].op = "preflight"
       THEN Go(h, job[h], "recheck") /\ UNCHANGED turn
       ELSE Go(h, job[h], "session") /\ turn' = h

\* loadMetadataIndex and what follows it in the same turn, once the live index
\* is known: a browsing request is answered, a selective retrieve is checked.
\* (A cache file that cannot be written is warned of; that is left out.)
WithLiveIndex(h, j, live) ==
    LET cached == ~j.forced /\ localCache.version # "none"
        absent == \A k \in Components : tree[k] = Absent
        local == IF cached THEN localCache.index ELSE TreeIndex
        index == DiscoveryIndex(live, local)
        chosen == {TypeOf[k] : k \in j.options.selection}
    IN  /\ localCache' = IF cached \/ absent THEN localCache
                         ELSE [version |-> "current", index |-> TreeIndex]
        /\ IF j.op = "selected" /\ blockedTypes(index, chosen) = {}
           THEN StartFetch(h, j)
           ELSE Finish(h)

\* What the cache file of a request holds.
CachedIndex(j) == parseCachedLiveMetadataIndex(liveCache[j.search].index)

\* loadLiveMetadataIndex up to its first await. The alias is read here, and
\* the cache is taken whichever org it was listed from.
LoadLiveIndex(h, j) ==
    IF ~j.forced /\ liveCache[j.search].version = "current"
    THEN WithLiveIndex(h, j, CachedIndex(j))
    ELSE Go(h, [j EXCEPT !.readAlias = resolveActiveAlias], "liveSf") /\ UNCHANGED localCache

\* A cache of an older version is what is left when the org cannot be listed.
hasStaleFallback(j) == ~j.forced /\ liveCache[j.search].version = "old"

------------------------------------------------------------------------------
(* Requests. An alias that is not given is the configured or active one.   *)

Request(h) ==
    /\ Awaits(h, "idle") /\ requests < MaxRequests
    /\ requests' = requests + 1
    /\ UNCHANGED <<sessionFiles, retrieveAudit, cli, parsed, liveCache, logins, faults, ghosts>>

\* connectSession, switchSessionAlias, bridgeSessionAlias; preflight and
\* validateSessionAlias make the same calls.
RequestAlias(h) ==
    /\ Request(h)
    /\ \E r \in AliasRequests : Go(h, [NoJob EXCEPT !.op = r.op, !.alias = r.alias], "sf")
    /\ UNCHANGED <<localCache, turn>>

\* retrieveAndRefresh: an empty selection is runRetrieve = false.
RequestRetrieve(h) ==
    /\ Request(h)
    /\ \E r \in RetrieveRequests :
          Go(h, [NoJob EXCEPT !.op = "retrieve", !.alias = r.alias, !.options = r.options], "sf")
    /\ UNCHANGED <<localCache, turn>>

\* retrieveSelectedMetadata: the alias is read before the first await.
RequestSelected(h) ==
    /\ Request(h)
    /\ \E o \in SelectedRequests :
          Go(h, [NoJob EXCEPT !.op = "selected", !.alias = resolveActiveAlias, !.options = o], "sf")
    /\ UNCHANGED <<localCache, turn>>

\* metadataCatalog, and with the search-only types metadataMembers and
\* metadataSearch.
RequestCatalog(h) ==
    /\ Request(h)
    /\ \E r \in CatalogRequests :
          LoadLiveIndex(h, [NoJob EXCEPT !.op = "catalog", !.search = r.search, !.forced = r.forced])
    /\ UNCHANGED turn

\* Mutation: an absent session is not provided for.
disconnectedAlias_Unguarded == session.activeAlias

\* The alias a disconnect leaves active.
disconnectedAlias == resolveActiveAlias

\* disconnectSession awaits nothing.
RequestDisconnect(h) ==
    /\ Request(h)
    /\ Go(h, [NoJob EXCEPT !.op = "disconnect", !.alias = disconnectedAlias], "session")
    /\ turn' = h /\ UNCHANGED localCache

------------------------------------------------------------------------------
(* CLI calls of the session operations.                                    *)

EnsureSfInstalled(h) ==
    /\ Awaits(h, "sf")
    /\ LET j == job[h]
           fails == Fails(TRUE) /\ Answer(h, "failed") /\ UNCHANGED localCache
           stays == UNCHANGED <<retrieveAudit, localCache>>
       IN  \/ /\ Exits(TRUE)
              /\ CASE j.op = "connect" -> Go(h, j, "cci") /\ stays
                   [] j.op = "switch" ->
                         Go(h, [j EXCEPT !.readAlias = resolveActiveAlias], "display") /\ stays
                   [] j.op \in {"bridge", "preflight"} -> Go(h, j, "display") /\ stays
                   [] j.op = "retrieve" ->
                         IF j.options.runAuth THEN Go(h, j, "auth") /\ stays
                         ELSE AfterAuth(h, j) /\ UNCHANGED localCache
                   [] OTHER -> LoadLiveIndex(h, j) /\ UNCHANGED retrieveAudit
           \/ fails
    /\ UNCHANGED <<sessionFiles, cli, parsed, liveCache, turn, requests, logins, ghosts>>

\* What the session operations' CLI calls leave alone.
SessionCall == UNCHANGED <<sessionFiles, tree, graph, refreshInProgress, caches,
                           requests, logins, promised, cutShort>>

EnsureCciInstalled(h) ==
    /\ Awaits(h, "cci")
    /\ \/ /\ Exits(TRUE)
          /\ Go(h, job[h], IF job[h].op = "connect" THEN "display" ELSE "info")
       \/ Fails(TRUE) /\ Finish(h)
    /\ SessionCall /\ UNCHANGED <<retrieveAudit, cli, turn, verified>>

\* displayOrg of the alias. A refused switch is written down; a preflight that
\* finds no authenticated org has nothing left to change.
DisplayOrg(h) ==
    /\ Awaits(h, "display")
    /\ LET j == job[h]
           able == j.alias \in keychain
       IN  \/ /\ Exits(able)
              /\ verified' = verified \cup {j.alias}
              /\ Go(h, j, CASE j.op \in {"connect", "switch"} -> "auth"
                            [] j.op = "bridge" -> "cci"
                            [] OTHER -> "info")
              /\ UNCHANGED turn
           \/ /\ Fails(able)
              /\ IF j.op = "switch"
                 THEN Go(h, [j EXCEPT !.denied = TRUE], "session") /\ turn' = h
                 ELSE Finish(h) /\ UNCHANGED turn
              /\ UNCHANGED verified
    /\ SessionCall /\ UNCHANGED <<retrieveAudit, cli>>

\* runAuth: the org is displayed again, and only that failing ends the request.
AuthDisplay(h) ==
    /\ Awaits(h, "auth")
    /\ LET able == job[h].alias \in keychain
       IN  \/ /\ Exits(able) /\ Go(h, job[h], "authCci")
              /\ verified' = verified \cup {job[h].alias} /\ UNCHANGED retrieveAudit
           \/ Fails(able) /\ Answer(h, "failed") /\ UNCHANGED verified
    /\ SessionCall /\ UNCHANGED <<cli, turn>>

\* cci and its project scaffold: without them runAuth ends with a warning.
AuthCci(h) ==
    /\ Awaits(h, "authCci")
    /\ \/ Exits(TRUE) /\ Go(h, job[h], "authInfo") /\ UNCHANGED turn
       \/ Fails(TRUE) /\ Authenticated(h)
    /\ SessionCall /\ UNCHANGED <<retrieveAudit, cli, verified>>

AuthInfo(h) ==
    /\ Awaits(h, "authInfo")
    /\ LET known == job[h].alias \in registry
       IN  \/ Exits(known) /\ Authenticated(h)
           \/ Fails(known) /\ Go(h, job[h], "authImport") /\ UNCHANGED turn
    /\ SessionCall /\ UNCHANGED <<retrieveAudit, cli, verified>>

\* importAliasIntoCci: an import that fails is warned of.
AuthImport(h) ==
    /\ Awaits(h, "authImport")
    /\ \/ Exits(TRUE) /\ registry' = registry \cup {job[h].alias}
       \/ Fails(TRUE) /\ UNCHANGED registry
    /\ Authenticated(h)
    /\ SessionCall /\ UNCHANGED <<retrieveAudit, keychain, verified>>

\* cciOrgInfo of bridge and preflight.
CciOrgInfo(h) ==
    /\ Awaits(h, "info")
    /\ LET known == job[h].alias \in registry
       IN  \/ Exits(known) /\ Finish(h)
           \/ Fails(known) /\ Go(h, job[h], IF job[h].op = "bridge" THEN "import" ELSE "auth")
    /\ SessionCall /\ UNCHANGED <<retrieveAudit, cli, turn, verified>>

\* bridge fails if the import does, unless the alias already exists.
ImportAliasIntoCci(h) ==
    /\ Awaits(h, "import")
    /\ \/ /\ Exits(TRUE) /\ registry' = registry \cup {job[h].alias}
          /\ Go(h, job[h], "recheck")
       \/ Fails(TRUE) /\ Finish(h) /\ UNCHANGED registry
    /\ SessionCall /\ UNCHANGED <<retrieveAudit, keychain, turn, verified>>

Recheck(h) ==
    /\ Awaits(h, "recheck") /\ Finish(h)
    /\ SessionCall /\ UNCHANGED <<retrieveAudit, cli, turn, faults, verified>>

------------------------------------------------------------------------------
(* Session writes.                                                         *)

\* writeSessionState, and the audit entry that goes with it.
\* Mutation: a refused switch leaves the requested alias active.
newSession_Requested(j) ==
    [status |-> IF j.op = "disconnect" \/ j.denied THEN "disconnected" ELSE "connected",
     activeAlias |-> j.alias]

newSession(j) ==
    CASE j.op = "disconnect" -> [status |-> "disconnected", activeAlias |-> j.alias]
      [] j.op # "disconnect" /\ j.denied -> [status |-> "disconnected", activeAlias |-> j.readAlias]
      [] OTHER -> [status |-> "connected", activeAlias |-> j.alias]

\* Mutation: a refused switch is recorded as one.
auditAction_AnySwitch(j) ==
    CASE j.op = "disconnect" -> "disconnect"
      [] j.op = "switch" -> "switch"
      [] OTHER -> "connect"

auditAction(j) ==
    CASE j.op = "disconnect" -> "disconnect"
      [] j.op # "disconnect" /\ j.denied -> "switch_failed"
      [] j.op = "switch" /\ ~j.denied -> "switch"
      [] OTHER -> "connect"

WriteSessionState(h) ==
    /\ Writes(h, "session")
    /\ session' = newSession(job[h])
    /\ Go(h, job[h], "authAudit")
    /\ UNCHANGED <<authAudit, authAuditTorn, retrieveAudit, cli, parsed, caches, turn, bounds, ghosts>>

\* An entry appended to a line that was cut off cannot be read either.
AppendAuthAudit(h) ==
    /\ Writes(h, "authAudit")
    /\ LET j == job[h]
           entry == [action |-> auditAction(j), alias |-> j.alias]
       IN  /\ authAudit' = IF authAuditTorn THEN authAudit ELSE Append(authAudit, entry)
           /\ IF j.op = "retrieve" THEN AfterAuth(h, j)
              ELSE Finish(h) /\ UNCHANGED retrieveAudit
    /\ authAuditTorn' = FALSE /\ turn' = None
    /\ UNCHANGED <<session, cli, parsed, caches, bounds, ghosts>>

------------------------------------------------------------------------------
(* The retrieve: runSfCommandWithRetry, then IngestionService.refresh.     *)

\* What the retrieve steps leave alone.
RetrieveCall == UNCHANGED <<sessionFiles, cli, caches, turn, requests, logins, verified, cutShort>>

\* The CLI child writes the selected components one by one.
FetchFile(h) ==
    /\ Awaits(h, "fetch") /\ job[h].alias \in keychain
    /\ \E k \in job[h].left :
          /\ tree' = [tree EXCEPT ![k] = [alias |-> job[h].alias, version |-> @.version + 1]]
          /\ Go(h, [job[h] EXCEPT !.left = @ \ {k},
                                  !.wrote = [@ EXCEPT ![k] = tree'[k].version]], "fetch")
    /\ RetrieveCall /\ UNCHANGED <<retrieveAudit, graph, refreshInProgress, faults, promised>>

FetchExits(h) ==
    /\ Awaits(h, "fetch")
    /\ job[h].left = {} /\ Exits(job[h].alias \in keychain)
    /\ AfterFetch(h, job[h])
    /\ RetrieveCall /\ UNCHANGED <<parsed, promised>>

\* Mutation: attempts are not counted.
FetchFails_Forever(h) ==
    /\ Awaits(h, "fetch") /\ Fails(job[h].alias \in keychain)
    /\ Go(h, [job[h] EXCEPT !.left = job[h].options.selection], "fetch")
    /\ UNCHANGED retrieveAudit
    /\ RetrieveCall /\ UNCHANGED <<parsed, promised>>

\* The child exits non-zero, or is killed at its timeout, wherever it is.
FetchFails(h) ==
    /\ Awaits(h, "fetch") /\ Fails(job[h].alias \in keychain)
    /\ LET j == job[h]
       IN  IF j.attempt < SfRetryCount
           THEN /\ Go(h, [j EXCEPT !.attempt = @ + 1, !.left = j.options.selection], "fetch")
                /\ UNCHANGED retrieveAudit
           ELSE Answer(h, "failed")
    /\ RetrieveCall /\ UNCHANGED <<parsed, promised>>

\* Mutation: no lock.
RefreshStarts_Unlocked(h) ==
    /\ Awaits(h, "refresh")
    /\ Go(h, job[h], "parse") /\ refreshInProgress' = TRUE /\ UNCHANGED retrieveAudit
    /\ RetrieveCall /\ UNCHANGED <<tree, graph, faults, promised>>

\* refresh refuses to run beside another; otherwise it takes the lock and
\* awaits the graph store.
RefreshStarts(h) ==
    /\ Awaits(h, "refresh")
    /\ IF refreshInProgress
       THEN Answer(h, "failed") /\ UNCHANGED refreshInProgress
       ELSE /\ Go(h, job[h], "parse") /\ refreshInProgress' = TRUE
            /\ UNCHANGED retrieveAudit
    /\ RetrieveCall /\ UNCHANGED <<tree, graph, faults, promised>>

RefreshParses(h) ==
    /\ Awaits(h, "parse")
    /\ \/ /\ Exits(TRUE) /\ Go(h, [job[h] EXCEPT !.payload = tree], "rebuild")
          /\ UNCHANGED <<refreshInProgress, retrieveAudit>>
       \/ Fails(TRUE) /\ Answer(h, "failed") /\ refreshInProgress' = FALSE
    /\ RetrieveCall /\ UNCHANGED <<tree, graph, promised>>

\* The rebuild and the writes after it; if one of those fails the graph may
\* have been rebuilt already.
Newer(fetches, j) ==
    [k \in Components |-> IF j.wrote[k] > fetches[k] THEN j.wrote[k] ELSE fetches[k]]

RefreshCommits(h) ==
    /\ Awaits(h, "rebuild")
    /\ \/ /\ Exits(TRUE) /\ graph' = job[h].payload
          /\ promised' = Newer(promised, job[h]) /\ Answer(h, "completed")
       \/ /\ Fails(TRUE) /\ graph' \in {graph, job[h].payload}
          /\ Answer(h, "failed") /\ UNCHANGED promised
    /\ refreshInProgress' = FALSE
    /\ RetrieveCall /\ UNCHANGED tree

------------------------------------------------------------------------------
(* Discovery: loadLiveMetadataIndex after its cache.                       *)

DiscoveryCall == UNCHANGED <<sessionFiles, retrieveAudit, cli, parsed, turn, requests, logins, ghosts>>

LiveSfInstalled(h) ==
    /\ Awaits(h, "liveSf")
    /\ LET j == job[h]
           fallback == IF hasStaleFallback(j) THEN CachedIndex(j) ELSE NoIndex
       IN  \/ Exits(TRUE) /\ Go(h, j, "types") /\ UNCHANGED localCache
           \/ Fails(TRUE) /\ WithLiveIndex(h, j, fallback)
    /\ DiscoveryCall /\ UNCHANGED liveCache

\* listMetadataTypes: without its answer the seeds are listed, and not cached.
ListMetadataTypes(h) ==
    /\ Awaits(h, "types")
    /\ LET j == job[h]
           able == j.readAlias \in keychain /\ OrgTypes[j.readAlias] # {}
           Seeding(families, cacheable) ==
               /\ Go(h, [j EXCEPT !.index = FamilyIndex(families), !.cacheable = cacheable,
                                  !.unlisted = SeedsFor(j.search)], "members")
               /\ UNCHANGED localCache
       IN  \/ Exits(able) /\ Seeding(OrgTypes[j.readAlias], TRUE)
           \/ /\ Fails(able)
              /\ IF hasStaleFallback(j) THEN WithLiveIndex(h, j, CachedIndex(j))
                 ELSE Seeding(SeedsFor(j.search), FALSE)
    /\ DiscoveryCall /\ UNCHANGED liveCache

\* Mutation: each call lists the org that is active by then.
Discovered_Active(j, t) == WithMembers(j.index, t, resolveActiveAlias)

\* The index with the answer of one listMetadata call.
Discovered(j, t) == WithMembers(j.index, t, j.readAlias)

\* One listMetadata call of the loop over the seeds, in any order; a failed one
\* leaves the list it has. After the last the cache is replaced and the request goes on.
ListMetadata(h) ==
    /\ Awaits(h, "members")
    /\ \E t \in job[h].unlisted :
       LET j == job[h]
           able == j.readAlias \in keychain
           Listed(index) ==
               IF j.unlisted = {t}
               THEN /\ liveCache' = IF j.cacheable
                                    THEN [liveCache EXCEPT ![j.search] =
                                            [version |-> "current", index |-> index]]
                                    ELSE liveCache
                    /\ WithLiveIndex(h, j, index)
               ELSE /\ Go(h, [j EXCEPT !.index = index, !.unlisted = @ \ {t}], "members")
                    /\ UNCHANGED caches
       IN  \/ Exits(able) /\ Listed(Discovered(j, t))
           \/ Fails(able) /\ Listed(j.index)
    /\ DiscoveryCall

------------------------------------------------------------------------------
(* The environment.                                                        *)

\* The operator logs an org in or out with the sf CLI.
Login ==
    /\ logins < MaxLogins /\ logins' = logins + 1
    /\ \E a \in Aliases : keychain' \in {keychain \cup {a}, keychain \ {a}} \ {keychain}
    /\ UNCHANGED <<sessionFiles, retrieveAudit, registry, parsed, caches, job, turn,
                   requests, faults, ghosts>>

\* The process dies and is started again. A file being written is cut off.
Crash ==
    /\ faults < MaxFaults /\ faults' = faults + 1
    /\ job' = [h \in Handlers |-> NoJob]
    /\ refreshInProgress' = FALSE /\ turn' = None
    /\ \/ UNCHANGED <<session, authAuditTorn>>
       \/ \E h \in Handlers : Writes(h, "session")
          /\ session' = NoSession /\ UNCHANGED authAuditTorn
       \/ \E h \in Handlers : Writes(h, "authAudit")
          /\ authAuditTorn' = TRUE /\ UNCHANGED session
    /\ cutShort' = (cutShort \/ turn # None)
    /\ UNCHANGED <<authAudit, retrieveAudit, cli, tree, graph, caches, requests, logins,
                   verified, promised>>

------------------------------------------------------------------------------

Start(h) ==
    \/ RequestAlias(h) \/ RequestRetrieve(h) \/ RequestSelected(h)
    \/ RequestCatalog(h) \/ RequestDisconnect(h)

Step(h) ==
    \/ EnsureSfInstalled(h) \/ EnsureCciInstalled(h) \/ DisplayOrg(h)
    \/ AuthDisplay(h) \/ AuthCci(h) \/ AuthInfo(h) \/ AuthImport(h)
    \/ CciOrgInfo(h) \/ ImportAliasIntoCci(h) \/ Recheck(h)
    \/ WriteSessionState(h) \/ AppendAuthAudit(h)
    \/ FetchFile(h) \/ FetchExits(h) \/ FetchFails(h)
    \/ RefreshStarts(h) \/ RefreshParses(h) \/ RefreshCommits(h)
    \/ LiveSfInstalled(h) \/ ListMetadataTypes(h) \/ ListMetadata(h)

Next == (\E h \in Handlers : Start(h) \/ Step(h)) \/ Login \/ Crash

\* Node goes on running while anything is ready, and a CLI call ends: each has
\* a timeout, after which the child is killed.
Fairness == WF_vars(\E h \in Handlers : Step(h))

Spec == Init /\ [][Next]_vars /\ Fairness

------------------------------------------------------------------------------
(* Properties.                                                             *)

\* The session file and the audit log are two files written one after the
\* other by four operations. Unless the process died between the two writes,
\* the last entry explains the session: what it is attached to, or that it is
\* not (OrgService.writeSessionState, appendAuthAudit).
AuditExplainsSession ==
    turn = None /\ ~cutShort =>
        IF authAudit = <<>> THEN session = NoSession
        ELSE LET last == authAudit[Len(authAudit)]
             IN  /\ session.status = IF last.action \in {"connect", "switch"}
                                     THEN "connected" ELSE "disconnected"
                 /\ last.action # "switch_failed" => session.activeAlias = last.alias

\* A retrieve that was answered completed, with its refresh, has put what it
\* fetched into the graph for good: no refresh of another request takes it out
\* again with a parse of the tree from before (retrieveAndRefresh,
\* retrieveSelectedMetadata, and the lock of IngestionService.refresh).
CompletedRetrieveIsInGraph == \A k \in Components : promised[k] <= graph[k].version

\* A cached catalogue is the listing of one org, although the alias may be
\* switched between the calls that list it (loadLiveMetadataIndex).
CacheIsOneOrgs ==
    \A search \in BOOLEAN : liveCache[search].version = "current" =>
        \E a \in Aliases :
            /\ liveCache[search].index.catalog = OrgTypes[a]
            /\ \A t \in DOMAIN liveCache[search].index.members :
                   liveCache[search].index.members[t] \subseteq {a}

\* Every request is answered, and the service comes to rest: retries, discovery
\* loops and the refresh lock leave none behind (OrgService, OrgToolAdapterService.runSfCommandWithRetry).
RequestsAnswered == []<>(\A h \in Handlers : job[h].op = "none")

\* The session file is a register of the active alias that only an org shown
\* by the sf CLI can be attached to, whatever the interleaving of connects,
\* switches, disconnects and retrieves, and after a crash.
Register == INSTANCE AliasRegister WITH
    status <- session.status, alias <- resolveActiveAlias, verified <- verified
SessionIsRegister == Register!Spec
==============================================================================
