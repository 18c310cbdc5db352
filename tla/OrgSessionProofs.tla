---------------------------- MODULE OrgSessionProofs ----------------------------
(***************************************************************************)
(* The session service is well typed, implements the alias register, and   *)
(* keeps its three safety invariants.                                      *)
(*                                                                         *)
(* Typing comes first, helper by helper. Then `Moved' says how a handler's *)
(* record changes, and `Continues' where the helpers shared by the         *)
(* operations leave it, so that an invariant about what a handler holds    *)
(* has to be argued only for the calls that bear on it. `Grounded' is the  *)
(* invariant behind the refinement: an alias that is about to be attached  *)
(* was shown by the CLI, and one that is put back was active before.       *)
(*                                                                         *)
(* Most calls change nothing a safety invariant is about: `Quiet' says so  *)
(* of all of them once. What is left is argued step by step: the refresh,  *)
(* which alone moves the graph, for `Retrieved'; the two writes of the     *)
(* session and its log for `AuditKept'; the listing for `CacheKept'.       *)
(***************************************************************************)
EXTENDS OrgSession, TLAPS

------------------------------------------------------------------------------
(* Typing.                                                                 *)

\* The calls and writes a request may be at.
PCs == {"idle"} \cup Waiting \cup Writing

\* Every file of the parse tree came from an org.
TreeNamed == \A k \in Components : tree[k] = Absent \/ tree[k].alias \in Aliases

Typed == TypeOK /\ TreeNamed

\* The empty index and that of an org's families are indexes.
LEMMA IndexTypes ==
    /\ NoIndex \in Indexes
    /\ \A F \in SUBSET Types : FamilyIndex(F) \in Indexes
<1>1. ASSUME NEW F \in SUBSET Types PROVE [t \in F |-> {}] \in MemberLists
  <2>1. [t \in F |-> {}] \in [F -> SUBSET Aliases]
    OBVIOUS
  <2> QED BY <2>1 DEF MemberLists
<1>2. NoIndex \in Indexes
  BY <1>1 DEF NoIndex, Indexes, NoMembers
<1>3. ASSUME NEW F \in SUBSET Types PROVE FamilyIndex(F) \in Indexes
  BY <1>1 DEF FamilyIndex, Indexes
<1> QED BY <1>2, <1>3

\* The answer about one family keeps an index an index.
LEMMA WithMembersType ==
    ASSUME NEW index \in Indexes, NEW t \in Types, NEW a \in Aliases
    PROVE  WithMembers(index, t, a) \in Indexes
<1> DEFINE D == DOMAIN index.members \cup {t}
           f == [u \in D |-> IF u = t THEN (IF t \in OrgTypes[a] THEN {a} ELSE {})
                             ELSE index.members[u]]
<1>1. PICK E \in SUBSET Types : index.members \in [E -> SUBSET Aliases]
  BY DEF Indexes, MemberLists
<1>2. D \in SUBSET Types
  BY <1>1
<1>3. f \in [D -> SUBSET Aliases]
  BY <1>1
<1>4. f \in MemberLists
  <2> HIDE DEF f, D
  <2> QED BY <1>2, <1>3 DEF MemberLists
<1>5. WithMembers(index, t, a) = [index EXCEPT !.members = f]
  BY DEF WithMembers
<1> HIDE DEF f
<1> QED BY <1>4, <1>5 DEF Indexes

\* So is what the parse tree holds.
LEMMA TreeIndexType ==
    ASSUME tree \in [Components -> Files], TreeNamed
    PROVE  TreeIndex \in Indexes
<1> DEFINE there == {k \in Components : tree[k] # Absent}
           D == {TypeOf[k] : k \in there}
           f == [t \in D |-> {tree[k].alias : k \in {x \in there : TypeOf[x] = t}}]
<1>1. D \in SUBSET Types
  BY SessionAssumption
<1>2. \A k \in there : tree[k].alias \in Aliases
  BY DEF TreeNamed
<1>3. f \in [D -> SUBSET Aliases]
  BY <1>2
<1>4. f \in MemberLists
  <2> HIDE DEF f, D
  <2> QED BY <1>1, <1>3 DEF MemberLists
<1>5. TreeIndex = [catalog |-> {}, members |-> f]
  BY DEF TreeIndex
<1> HIDE DEF f
<1> QED BY <1>4, <1>5 DEF Indexes

\* A handler without a request.
LEMMA NoJobType == NoJob \in Jobs
<1>1. Absent \in Files
  BY DEF Absent, Files
<1>2. NoOptions \in Options
  BY DEF NoOptions, Options
<1>3. [k \in Components |-> 0] \in Fetches /\ [k \in Components |-> Absent] \in [Components -> Files]
  BY <1>1 DEF Fetches
<1> QED BY <1>2, <1>3, IndexTypes, SessionAssumption DEF NoJob, Jobs

\* The helpers of the actions keep every handler's record well typed: going to
\* the next call,
LEMMA GoType ==
    ASSUME job \in [Handlers -> Jobs], NEW h \in Handlers, NEW j \in Jobs,
           NEW pc \in PCs, Go(h, j, pc)
    PROVE  job' \in [Handlers -> Jobs]
<1>1. [j EXCEPT !.pc = pc] \in Jobs
  BY DEF Jobs, PCs
<1> QED BY <1>1 DEF Go

\* ending a request,
LEMMA FinishType ==
    ASSUME job \in [Handlers -> Jobs], NEW h \in Handlers, Finish(h)
    PROVE  job' \in [Handlers -> Jobs]
BY NoJobType DEF Finish

Audited == retrieveAudit \subseteq [status : {"completed", "failed"}, alias : Aliases]

\* answering it,
LEMMA AnswerType ==
    ASSUME job \in [Handlers -> Jobs], Audited, NEW h \in Handlers,
           NEW status \in {"completed", "failed"}, Answer(h, status)
    PROVE  job' \in [Handlers -> Jobs] /\ Audited'
<1>1. job[h].alias \in Aliases
  BY DEF Jobs
<1>2. Audited'
  BY <1>1 DEF Answer, Audited
<1> QED BY <1>2, FinishType DEF Answer

\* starting a fetch,
LEMMA StartFetchType ==
    ASSUME job \in [Handlers -> Jobs], NEW h \in Handlers, NEW j \in Jobs,
           StartFetch(h, j)
    PROVE  job' \in [Handlers -> Jobs]
<1> DEFINE i == [j EXCEPT !.attempt = 0, !.left = j.options.selection]
<1>1. j.options.selection \in SUBSET Components
  BY DEF Jobs, Options
<1>2. i \in Jobs
  BY <1>1 DEF Jobs
<1>3. Go(h, i, "fetch")
  BY DEF StartFetch
<1> HIDE DEF i
<1> QED BY <1>2, <1>3, GoType DEF PCs, Waiting

\* what follows the fetch,
LEMMA AfterFetchType ==
    ASSUME job \in [Handlers -> Jobs], Audited, NEW h \in Handlers, NEW j \in Jobs,
           AfterFetch(h, j)
    PROVE  job' \in [Handlers -> Jobs] /\ Audited'
<1>1. CASE j.options.autoRefresh
  BY <1>1, GoType DEF AfterFetch, PCs, Waiting, Audited
<1>2. CASE ~j.options.autoRefresh
  BY <1>2, AnswerType DEF AfterFetch
<1> QED BY <1>1, <1>2

\* what follows the authentication,
LEMMA AfterAuthType ==
    ASSUME job \in [Handlers -> Jobs], Audited, NEW h \in Handlers, NEW j \in Jobs,
           AfterAuth(h, j)
    PROVE  job' \in [Handlers -> Jobs] /\ Audited'
<1>1. CASE j.options.selection # {}
  BY <1>1, StartFetchType DEF AfterAuth, Audited
<1>2. CASE j.options.selection = {}
  BY <1>2, AfterFetchType DEF AfterAuth
<1> QED BY <1>1, <1>2

\* what follows the listing,
LEMMA LiveType ==
    ASSUME job \in [Handlers -> Jobs], tree \in [Components -> Files], TreeNamed,
           localCache \in Caches, NEW h \in Handlers, NEW j \in Jobs,
           NEW live, WithLiveIndex(h, j, live)
    PROVE  job' \in [Handlers -> Jobs] /\ localCache' \in Caches
<1>1. TreeIndex \in Indexes
  BY TreeIndexType
<1>2. localCache' \in Caches
  <2>1. localCache' \in {localCache, [version |-> "current", index |-> TreeIndex]}
    BY DEF WithLiveIndex
  <2> QED BY <1>1, <2>1 DEF Caches
<1>3. StartFetch(h, j) \/ Finish(h)
  BY DEF WithLiveIndex
<1> QED BY <1>2, <1>3, StartFetchType, FinishType

\* The active alias is an alias.
LEMMA ActiveAliasType == Typed => resolveActiveAlias \in Aliases
BY SessionAssumption, CatalogAssumption DEF Typed, TypeOK, Sessions, resolveActiveAlias

\* and what comes before it.
LEMMA LoadLiveType ==
    ASSUME Typed, NEW h \in Handlers, NEW j \in Jobs, LoadLiveIndex(h, j)
    PROVE  job' \in [Handlers -> Jobs] /\ localCache' \in Caches
<1>1. resolveActiveAlias \in Aliases
  BY ActiveAliasType
<1>2. CASE WithLiveIndex(h, j, CachedIndex(j))
  BY <1>2, LiveType DEF Typed, TypeOK
<1>3. CASE /\ Go(h, [j EXCEPT !.readAlias = resolveActiveAlias], "liveSf")
           /\ UNCHANGED localCache
  <2>1. [j EXCEPT !.readAlias = resolveActiveAlias] \in Jobs
    BY <1>1 DEF Jobs
  <2> QED BY <1>3, <2>1, GoType DEF PCs, Waiting, Typed, TypeOK
<1> QED BY <1>2, <1>3 DEF LoadLiveIndex

\* Every start is well typed.
LEMMA TypedInit == Init => Typed
<1> SUFFICES ASSUME Init PROVE Typed
  OBVIOUS
<1>1. PICK version \in {"none", "old"} :
         liveCache = [search \in BOOLEAN |->
             IF search \/ version = "none" THEN NoCache
             ELSE [version |-> version, index |-> FamilyIndex(OrgTypes[Configured])]]
  BY DEF Init
<1>2. NoCache \in Caches
  BY IndexTypes DEF NoCache, Caches
<1>3. FamilyIndex(OrgTypes[Configured]) \in Indexes
  BY IndexTypes, SessionAssumption, CatalogAssumption
<1>4. liveCache \in [BOOLEAN -> Caches]
  BY <1>1, <1>2, <1>3 DEF Caches
<1>5. tree \in [Components -> Files] /\ TreeNamed
  BY DEF Init, Absent, Files, TreeNamed
<1>6. graph \in [Components -> Files] /\ promised \in Fetches
  BY <1>5 DEF Init, Fetches
<1>7. job \in [Handlers -> Jobs]
  BY NoJobType DEF Init
<1>8. authAudit \in Seq(AuditEntries)
  BY DEF Init
<1>9. keychain \subseteq Aliases
  BY SessionAssumption DEF Init
<1> QED
  BY <1>2, <1>4, <1>5, <1>6, <1>7, <1>8, <1>9 DEF Init, Typed, TypeOK

\* A request is.
LEMMA TypedStart ==
    ASSUME Typed, NEW h \in Handlers, Start(h)
    PROVE  Typed'
<1> USE DEF Typed
<1>1. CASE RequestAlias(h)
  <2>1. PICK r \in AliasRequests : Go(h, [NoJob EXCEPT !.op = r.op, !.alias = r.alias], "sf")
    BY <1>1 DEF RequestAlias
  <2>2. [NoJob EXCEPT !.op = r.op, !.alias = r.alias] \in Jobs
    BY NoJobType, SessionAssumption DEF Jobs, AllOperations
  <2>3. job' \in [Handlers -> Jobs]
    BY <2>1, <2>2, GoType DEF TypeOK, PCs, Waiting
  <2> QED
    BY <1>1, <2>3 DEF RequestAlias, Request, TypeOK, TreeNamed, sessionFiles, cli, parsed, ghosts
<1>2. CASE RequestRetrieve(h)
  <2>1. PICK r \in RetrieveRequests :
           Go(h, [NoJob EXCEPT !.op = "retrieve", !.alias = r.alias, !.options = r.options], "sf")
    BY <1>2 DEF RequestRetrieve
  <2>2. [NoJob EXCEPT !.op = "retrieve", !.alias = r.alias, !.options = r.options] \in Jobs
    BY NoJobType, SessionAssumption DEF Jobs, AllOperations
  <2>3. job' \in [Handlers -> Jobs]
    BY <2>1, <2>2, GoType DEF TypeOK, PCs, Waiting
  <2> QED
    BY <1>2, <2>3 DEF RequestRetrieve, Request, TypeOK, TreeNamed, sessionFiles, cli, parsed, ghosts
<1>3. CASE RequestSelected(h)
  <2>1. PICK o \in SelectedRequests :
           Go(h, [NoJob EXCEPT !.op = "selected", !.alias = resolveActiveAlias, !.options = o], "sf")
    BY <1>3 DEF RequestSelected
  <2>2. [NoJob EXCEPT !.op = "selected", !.alias = resolveActiveAlias, !.options = o] \in Jobs
    BY NoJobType, SessionAssumption, ActiveAliasType DEF Jobs, AllOperations
  <2>3. job' \in [Handlers -> Jobs]
    BY <2>1, <2>2, GoType DEF TypeOK, PCs, Waiting
  <2> QED
    BY <1>3, <2>3 DEF RequestSelected, Request, TypeOK, TreeNamed, sessionFiles, cli, parsed, ghosts
<1>4. CASE RequestCatalog(h)
  <2>1. PICK r \in CatalogRequests :
           LoadLiveIndex(h, [NoJob EXCEPT !.op = "catalog", !.search = r.search, !.forced = r.forced])
    BY <1>4 DEF RequestCatalog
  <2>2. [NoJob EXCEPT !.op = "catalog", !.search = r.search, !.forced = r.forced] \in Jobs
    BY NoJobType, SessionAssumption DEF Jobs, AllOperations
  <2>3. job' \in [Handlers -> Jobs] /\ localCache' \in Caches
    BY <2>1, <2>2, LoadLiveType
  <2> QED
    BY <1>4, <2>3 DEF RequestCatalog, Request, TypeOK, TreeNamed, sessionFiles, cli, parsed, ghosts
<1>5. CASE RequestDisconnect(h)
  <2>1. Go(h, [NoJob EXCEPT !.op = "disconnect", !.alias = disconnectedAlias], "session")
    BY <1>5 DEF RequestDisconnect
  <2>2. [NoJob EXCEPT !.op = "disconnect", !.alias = disconnectedAlias] \in Jobs
    BY NoJobType, ActiveAliasType DEF Jobs, AllOperations, disconnectedAlias
  <2>3. job' \in [Handlers -> Jobs]
    BY <2>1, <2>2, GoType DEF TypeOK, PCs, Writing
  <2> QED
    BY <1>5, <2>3 DEF RequestDisconnect, Request, TypeOK, TreeNamed, sessionFiles, cli, parsed, ghosts
<1> QED BY <1>1, <1>2, <1>3, <1>4, <1>5 DEF Start

\* The end of runAuth.
LEMMA AuthenticatedType ==
    ASSUME job \in [Handlers -> Jobs], turn \in Handlers \cup {None},
           NEW h \in Handlers, Authenticated(h)
    PROVE  job' \in [Handlers -> Jobs] /\ turn' \in Handlers \cup {None}
<1>1. CASE job[h].op = "preflight"
  BY <1>1, GoType DEF Authenticated, PCs, Waiting
<1>2. CASE job[h].op # "preflight"
  BY <1>2, GoType DEF Authenticated, PCs, Writing
<1> QED BY <1>1, <1>2

\* The end of a call counts its fault.
LEMMA CallEnd ==
    ASSUME faults \in Nat, NEW able, Exits(able) \/ Fails(able)
    PROVE  faults' \in Nat
BY DEF Exits, Fails

\* The calls of the session operations,
LEMMA TypedCall ==
    ASSUME Typed, NEW h \in Handlers,
           \/ EnsureSfInstalled(h) \/ EnsureCciInstalled(h) \/ DisplayOrg(h)
           \/ AuthDisplay(h) \/ AuthCci(h) \/ AuthInfo(h) \/ AuthImport(h)
           \/ CciOrgInfo(h) \/ ImportAliasIntoCci(h) \/ Recheck(h)
    PROVE  Typed'
<1> USE DEF Typed
<1>0. /\ job \in [Handlers -> Jobs] /\ job[h] \in Jobs /\ job[h].alias \in Aliases
      /\ Audited /\ turn \in Handlers \cup {None} /\ faults \in Nat
  BY DEF TypeOK, Audited, Jobs
<1>1. CASE EnsureSfInstalled(h)
  <2> DEFINE asked == [job[h] EXCEPT !.readAlias = resolveActiveAlias]
             stays == UNCHANGED <<retrieveAudit, localCache>>
  <2>1. asked \in Jobs
    BY <1>0, ActiveAliasType DEF Jobs
  <2>2. \/ Answer(h, "failed") /\ UNCHANGED localCache
        \/ Go(h, job[h], "cci") /\ stays
        \/ Go(h, asked, "display") /\ stays
        \/ Go(h, job[h], "display") /\ stays
        \/ Go(h, job[h], "auth") /\ stays
        \/ AfterAuth(h, job[h]) /\ UNCHANGED localCache
        \/ LoadLiveIndex(h, job[h]) /\ UNCHANGED retrieveAudit
    BY <1>1 DEF EnsureSfInstalled
  <2> HIDE DEF asked
  <2>3. job' \in [Handlers -> Jobs] /\ Audited' /\ localCache' \in Caches
    <3>1. CASE Answer(h, "failed") /\ UNCHANGED localCache
      BY <1>0, <3>1, AnswerType DEF TypeOK
    <3>2. CASE AfterAuth(h, job[h]) /\ UNCHANGED localCache
      BY <1>0, <3>2, AfterAuthType DEF TypeOK
    <3>3. CASE LoadLiveIndex(h, job[h]) /\ UNCHANGED retrieveAudit
      BY <1>0, <3>3, LoadLiveType DEF Audited
    <3> QED BY <1>0, <2>1, <2>2, <3>1, <3>2, <3>3, GoType DEF PCs, Waiting, Audited, TypeOK
  <2> QED
    BY <1>0, <1>1, <2>3, CallEnd
    DEF EnsureSfInstalled, Audited, TypeOK, TreeNamed, sessionFiles, cli, parsed, ghosts
<1>2. CASE EnsureCciInstalled(h)
  <2>1. job' \in [Handlers -> Jobs]
    BY <1>0, <1>2, GoType, FinishType DEF EnsureCciInstalled, PCs, Waiting
  <2> QED
    BY <1>0, <1>2, <2>1, CallEnd DEF EnsureCciInstalled, SessionCall, TypeOK, TreeNamed,
       sessionFiles, cli, caches
<1>3. CASE DisplayOrg(h)
  <2>1. job' \in [Handlers -> Jobs]
    <3>1. [job[h] EXCEPT !.denied = TRUE] \in Jobs
      BY <1>0 DEF Jobs
    <3> QED BY <1>0, <1>3, <3>1, GoType, FinishType DEF DisplayOrg, PCs, Waiting, Writing
  <2>2. verified' \subseteq Aliases
    BY <1>0, <1>3 DEF DisplayOrg, TypeOK
  <2>3. faults' \in Nat
    BY <1>0, <1>3, CallEnd DEF DisplayOrg
  <2>4. turn' \in Handlers \cup {None}
    BY <1>0, <1>3 DEF DisplayOrg
  <2> QED
    BY <1>0, <1>3, <2>1, <2>2, <2>3, <2>4 DEF DisplayOrg, SessionCall, TypeOK, TreeNamed,
       sessionFiles, cli, caches
<1>4. CASE AuthDisplay(h)
  <2>1. job' \in [Handlers -> Jobs] /\ Audited'
    BY <1>0, <1>4, GoType, AnswerType DEF AuthDisplay, PCs, Waiting, Audited
  <2>2. verified' \subseteq Aliases
    BY <1>0, <1>4 DEF AuthDisplay, TypeOK
  <2>3. faults' \in Nat
    BY <1>0, <1>4, CallEnd DEF AuthDisplay
  <2> QED
    BY <1>0, <1>4, <2>1, <2>2, <2>3 DEF AuthDisplay, SessionCall, Audited, TypeOK, TreeNamed,
       sessionFiles, cli, caches
<1>5. CASE AuthCci(h)
  <2>1. job' \in [Handlers -> Jobs] /\ turn' \in Handlers \cup {None}
    BY <1>0, <1>5, GoType, AuthenticatedType DEF AuthCci, PCs, Waiting
  <2> QED
    BY <1>0, <1>5, <2>1, CallEnd DEF AuthCci, SessionCall, TypeOK, TreeNamed,
       sessionFiles, cli, caches
<1>6. CASE AuthInfo(h)
  <2>1. job' \in [Handlers -> Jobs] /\ turn' \in Handlers \cup {None}
    BY <1>0, <1>6, GoType, AuthenticatedType DEF AuthInfo, PCs, Waiting
  <2>2. faults' \in Nat
    BY <1>0, <1>6, CallEnd DEF AuthInfo
  <2> QED
    BY <1>0, <1>6, <2>1, <2>2 DEF AuthInfo, SessionCall, TypeOK, TreeNamed,
       sessionFiles, cli, caches
<1>7. CASE AuthImport(h)
  <2>1. job' \in [Handlers -> Jobs] /\ turn' \in Handlers \cup {None}
    BY <1>0, <1>7, AuthenticatedType DEF AuthImport
  <2>2. registry' \subseteq Aliases
    BY <1>0, <1>7 DEF AuthImport, TypeOK
  <2> QED
    BY <1>0, <1>7, <2>1, <2>2, CallEnd DEF AuthImport, SessionCall, TypeOK, TreeNamed,
       sessionFiles, caches
<1>8. CASE CciOrgInfo(h)
  <2>1. job' \in [Handlers -> Jobs]
    BY <1>0, <1>8, GoType, FinishType DEF CciOrgInfo, PCs, Waiting
  <2>2. faults' \in Nat
    BY <1>0, <1>8, CallEnd DEF CciOrgInfo
  <2> QED
    BY <1>0, <1>8, <2>1, <2>2 DEF CciOrgInfo, SessionCall, TypeOK, TreeNamed,
       sessionFiles, cli, caches
<1>9. CASE ImportAliasIntoCci(h)
  <2>1. job' \in [Handlers -> Jobs]
    BY <1>0, <1>9, GoType, FinishType DEF ImportAliasIntoCci, PCs, Waiting
  <2>2. registry' \subseteq Aliases
    BY <1>0, <1>9 DEF ImportAliasIntoCci, TypeOK
  <2> QED
    BY <1>0, <1>9, <2>1, <2>2, CallEnd DEF ImportAliasIntoCci, SessionCall, TypeOK, TreeNamed,
       sessionFiles, caches
<1>10. CASE Recheck(h)
  <2>1. job' \in [Handlers -> Jobs]
    BY <1>0, <1>10, FinishType DEF Recheck
  <2> QED
    BY <1>0, <1>10, <2>1 DEF Recheck, SessionCall, TypeOK, TreeNamed, sessionFiles, cli, caches
<1> QED BY <1>1, <1>2, <1>3, <1>4, <1>5, <1>6, <1>7, <1>8, <1>9, <1>10

\* the writes of the session and its log,
LEMMA TypedWrite ==
    ASSUME Typed, NEW h \in Handlers, WriteSessionState(h) \/ AppendAuthAudit(h)
    PROVE  Typed'
<1> USE DEF Typed
<1>0. job \in [Handlers -> Jobs] /\ job[h] \in Jobs /\ Audited
  BY DEF TypeOK, Audited
<1>1. CASE WriteSessionState(h)
  <2>1. job' \in [Handlers -> Jobs]
    BY <1>0, <1>1, GoType DEF WriteSessionState, PCs, Writing
  <2>2. session' \in Sessions
    BY <1>0, <1>1 DEF WriteSessionState, newSession, Sessions, Jobs
  <2> QED
    BY <1>1, <2>1, <2>2 DEF WriteSessionState, TypeOK, TreeNamed, cli, parsed, caches, bounds, ghosts
<1>2. CASE AppendAuthAudit(h)
  <2>1. job' \in [Handlers -> Jobs] /\ Audited'
    BY <1>0, <1>2, AfterAuthType, FinishType DEF AppendAuthAudit, Audited
  <2>2. [action |-> auditAction(job[h]), alias |-> job[h].alias] \in AuditEntries
    BY <1>0 DEF auditAction, AuditEntries, AuditActions, Jobs
  <2>3. authAudit' \in Seq(AuditEntries)
    BY <1>2, <2>2 DEF AppendAuthAudit, TypeOK
  <2> QED
    BY <1>2, <2>1, <2>3 DEF AppendAuthAudit, Audited, TypeOK, TreeNamed, cli, parsed, caches, bounds, ghosts
<1> QED BY <1>1, <1>2

\* the steps of a fetch and a refresh,
LEMMA TypedRetrieve ==
    ASSUME Typed, NEW h \in Handlers,
           \/ FetchFile(h) \/ FetchExits(h) \/ FetchFails(h)
           \/ RefreshStarts(h) \/ RefreshParses(h) \/ RefreshCommits(h)
    PROVE  Typed'
<1> USE DEF Typed
<1>0. /\ job \in [Handlers -> Jobs] /\ job[h] \in Jobs /\ Audited
      /\ job[h].options.selection \subseteq Components
  BY DEF TypeOK, Audited, Jobs, Options
<1>1. CASE FetchFile(h)
  <2>1. PICK k \in job[h].left :
           /\ tree' = [tree EXCEPT ![k] = [alias |-> job[h].alias, version |-> @.version + 1]]
           /\ Go(h, [job[h] EXCEPT !.left = @ \ {k},
                                   !.wrote = [@ EXCEPT ![k] = tree'[k].version]], "fetch")
    BY <1>1 DEF FetchFile
  <2>2. k \in Components /\ tree[k] \in Files /\ job[h].alias \in Aliases
    BY <1>0 DEF Jobs, TypeOK
  <2>3. tree' \in [Components -> Files]
    BY <2>1, <2>2 DEF TypeOK, Files
  <2>4. TreeNamed'
    BY <2>1, <2>2, <2>3 DEF TypeOK, TreeNamed
  <2>5. tree'[k].version \in Nat
    BY <2>2, <2>3 DEF Files
  <2>6. [job[h].wrote EXCEPT ![k] = tree'[k].version] \in Fetches
    BY <1>0, <2>2, <2>5 DEF Jobs, Fetches
  <2> DEFINE w == [job[h].wrote EXCEPT ![k] = tree'[k].version]
             i == [job[h] EXCEPT !.left = job[h].left \ {k}, !.wrote = w]
  <2>7. i \in Jobs
    <3> HIDE DEF w
    <3>1. w \in Fetches
      BY <2>6 DEF w
    <3> QED BY <1>0, <3>1 DEF Jobs
  <2>8. Go(h, i, "fetch")
    BY <2>1
  <2>9. job' \in [Handlers -> Jobs]
    <3> HIDE DEF i
    <3> QED BY <1>0, <2>7, <2>8, GoType DEF PCs, Waiting
  <2> QED
    BY <1>1, <2>3, <2>4, <2>9 DEF FetchFile, RetrieveCall, TypeOK, sessionFiles, cli, caches
<1>2. CASE FetchExits(h)
  <2>1. job' \in [Handlers -> Jobs] /\ Audited'
    BY <1>0, <1>2, AfterFetchType DEF FetchExits
  <2> QED
    BY <1>2, <2>1 DEF FetchExits, Exits, RetrieveCall, Audited, TypeOK, TreeNamed,
       sessionFiles, cli, parsed, caches
<1>3. CASE FetchFails(h)
  <2>1. [job[h] EXCEPT !.attempt = @ + 1, !.left = job[h].options.selection] \in Jobs
    <3> DEFINE n == job[h].attempt + 1
               left == job[h].options.selection
    <3>1. n \in Nat /\ left \in SUBSET Components
      BY <1>0 DEF Jobs
    <3>2. [job[h] EXCEPT !.attempt = n, !.left = left] \in Jobs
      <4> HIDE DEF n, left
      <4> QED BY <1>0, <3>1 DEF Jobs
    <3> QED BY <3>2
  <2>2. job' \in [Handlers -> Jobs] /\ Audited'
    BY <1>0, <1>3, <2>1, GoType, AnswerType DEF FetchFails, PCs, Waiting, Audited
  <2>3. faults' \in Nat
    BY <1>3, CallEnd DEF FetchFails, TypeOK
  <2> QED
    BY <1>3, <2>2, <2>3 DEF FetchFails, RetrieveCall, Audited, TypeOK, TreeNamed,
       sessionFiles, cli, parsed, caches
<1>4. CASE RefreshStarts(h)
  <2>1. job' \in [Handlers -> Jobs] /\ Audited'
    BY <1>0, <1>4, GoType, AnswerType DEF RefreshStarts, PCs, Waiting, Audited
  <2> QED
    BY <1>4, <2>1 DEF RefreshStarts, RetrieveCall, Audited, TypeOK, TreeNamed,
       sessionFiles, cli, caches
<1>5. CASE RefreshParses(h)
  <2>1. [job[h] EXCEPT !.payload = tree] \in Jobs
    BY <1>0 DEF Jobs, TypeOK
  <2>2. job' \in [Handlers -> Jobs] /\ Audited'
    BY <1>0, <1>5, <2>1, GoType, AnswerType DEF RefreshParses, PCs, Waiting, Audited
  <2>3. faults' \in Nat
    BY <1>5, CallEnd DEF RefreshParses, TypeOK
  <2> QED
    BY <1>5, <2>2, <2>3 DEF RefreshParses, RetrieveCall, Audited, TypeOK, TreeNamed,
       sessionFiles, cli, caches
<1>6. CASE RefreshCommits(h)
  <2>1. job' \in [Handlers -> Jobs] /\ Audited'
    BY <1>0, <1>6, AnswerType DEF RefreshCommits
  <2>2. Newer(promised, job[h]) \in Fetches /\ job[h].payload \in [Components -> Files]
    BY <1>0 DEF Newer, Fetches, Jobs, TypeOK
  <2>3. graph' \in [Components -> Files] /\ promised' \in Fetches
    BY <1>6, <2>2 DEF RefreshCommits, TypeOK
  <2>4. faults' \in Nat
    BY <1>6, CallEnd DEF RefreshCommits, TypeOK
  <2> QED
    BY <1>6, <2>1, <2>3, <2>4 DEF RefreshCommits, RetrieveCall, Audited, TypeOK, TreeNamed,
       sessionFiles, cli, caches
<1> QED BY <1>1, <1>2, <1>3, <1>4, <1>5, <1>6

\* those of a listing,
LEMMA TypedDiscovery ==
    ASSUME Typed, NEW h \in Handlers,
           LiveSfInstalled(h) \/ ListMetadataTypes(h) \/ ListMetadata(h)
    PROVE  Typed'
<1> USE DEF Typed
<1>0. /\ job \in [Handlers -> Jobs] /\ job[h] \in Jobs /\ tree \in [Components -> Files]
      /\ TreeNamed /\ localCache \in Caches
  BY DEF TypeOK
<1>1. CASE LiveSfInstalled(h)
  <2>1. job' \in [Handlers -> Jobs] /\ localCache' \in Caches
    BY <1>0, <1>1, GoType, LiveType DEF LiveSfInstalled, PCs, Waiting
  <2>2. faults' \in Nat
    BY <1>1, CallEnd DEF LiveSfInstalled, TypeOK
  <2> QED
    BY <1>1, <2>1, <2>2 DEF LiveSfInstalled, DiscoveryCall, TypeOK, TreeNamed,
       sessionFiles, cli, parsed, ghosts
<1>2. CASE ListMetadataTypes(h)
  <2> DEFINE seeded(families, cacheable) ==
         [job[h] EXCEPT !.index = FamilyIndex(families), !.cacheable = cacheable,
                        !.unlisted = SeedsFor(job[h].search)]
  <2>1. SeedsFor(job[h].search) \subseteq Types /\ job[h].readAlias \in Aliases
    BY <1>0, CatalogAssumption DEF SeedsFor, Jobs
  <2>2. /\ seeded(OrgTypes[job[h].readAlias], TRUE) \in Jobs
        /\ seeded(SeedsFor(job[h].search), FALSE) \in Jobs
    BY <1>0, <2>1, IndexTypes, CatalogAssumption DEF Jobs
  <2>3. \/ Go(h, seeded(OrgTypes[job[h].readAlias], TRUE), "members") /\ UNCHANGED localCache
        \/ Go(h, seeded(SeedsFor(job[h].search), FALSE), "members") /\ UNCHANGED localCache
        \/ WithLiveIndex(h, job[h], CachedIndex(job[h]))
    BY <1>2 DEF ListMetadataTypes
  <2>4. job' \in [Handlers -> Jobs] /\ localCache' \in Caches
    <3> HIDE DEF seeded
    <3> QED BY <1>0, <2>2, <2>3, GoType, LiveType DEF PCs, Waiting
  <2>5. faults' \in Nat
    BY <1>2, CallEnd DEF ListMetadataTypes, TypeOK
  <2> QED
    BY <1>2, <2>4, <2>5 DEF ListMetadataTypes, DiscoveryCall, TypeOK, TreeNamed,
       sessionFiles, cli, parsed, ghosts
<1>3. CASE ListMetadata(h)
  <2> DEFINE listed(index, t) == [job[h] EXCEPT !.index = index, !.unlisted = @ \ {t}]
             written(index) == [liveCache EXCEPT ![job[h].search] =
                                   [version |-> "current", index |-> index]]
  <2>0. PICK t \in job[h].unlisted : \E index \in {Discovered(job[h], t), job[h].index} :
           \/ liveCache' \in {liveCache, written(index)} /\ WithLiveIndex(h, job[h], index)
           \/ Go(h, listed(index, t), "members") /\ UNCHANGED caches
    BY <1>3 DEF ListMetadata
  <2>1. PICK index \in {Discovered(job[h], t), job[h].index} :
           \/ liveCache' \in {liveCache, written(index)} /\ WithLiveIndex(h, job[h], index)
           \/ Go(h, listed(index, t), "members") /\ UNCHANGED caches
    BY <2>0
  <2>2. index \in Indexes
    <3>1. t \in Types /\ job[h].readAlias \in Aliases /\ job[h].index \in Indexes
      BY <1>0 DEF Jobs
    <3> QED BY <2>1, <3>1, WithMembersType DEF Discovered
  <2>3. listed(index, t) \in Jobs /\ job[h].search \in BOOLEAN
    BY <1>0, <2>2 DEF Jobs
  <2>4. written(index) \in [BOOLEAN -> Caches]
    BY <2>2, <2>3 DEF TypeOK, Caches
  <2>5. job' \in [Handlers -> Jobs] /\ localCache' \in Caches /\ liveCache' \in [BOOLEAN -> Caches]
    <3> HIDE DEF listed, written
    <3> QED BY <1>0, <2>1, <2>3, <2>4, GoType, LiveType DEF PCs, Waiting, caches, TypeOK
  <2>6. faults' \in Nat
    BY <1>3, CallEnd DEF ListMetadata, TypeOK
  <2>7. DiscoveryCall
    BY <1>3 DEF ListMetadata
  <2> QED
    BY <2>5, <2>6, <2>7 DEF DiscoveryCall, TypeOK, TreeNamed, sessionFiles, cli, parsed, ghosts
<1> QED BY <1>1, <1>2, <1>3

\* and those of the operator and of a crash keep the types.
LEMMA TypedEnvironment ==
    ASSUME Typed, Login \/ Crash
    PROVE  Typed'
<1> USE DEF Typed
<1>1. CASE Login
  <2>1. keychain' \subseteq Aliases
    BY <1>1 DEF Login, TypeOK
  <2> QED
    BY <1>1, <2>1 DEF Login, TypeOK, TreeNamed, sessionFiles, parsed, caches, ghosts
<1>2. CASE Crash
  <2>1. job' \in [Handlers -> Jobs]
    BY <1>2, NoJobType DEF Crash
  <2>2. session' \in Sessions \cup {NoSession} /\ authAuditTorn' \in BOOLEAN /\ cutShort' \in BOOLEAN
    BY <1>2 DEF Crash, TypeOK
  <2>3. faults' \in Nat /\ turn' \in Handlers \cup {None} /\ refreshInProgress' \in BOOLEAN
    <3>1. faults' = faults + 1 /\ turn' = None /\ refreshInProgress' = FALSE
      BY <1>2 DEF Crash
    <3>2. faults' \in Nat
      BY <3>1 DEF TypeOK
    <3>3. turn' \in Handlers \cup {None} /\ refreshInProgress' \in BOOLEAN
      BY <3>1, Zenon
    <3> QED BY <3>2, <3>3, Zenon
  <2>4. UNCHANGED <<authAudit, retrieveAudit, cli, tree, graph, caches, requests, logins,
                    verified, promised>>
    BY <1>2 DEF Crash
  <2> QED
    BY <2>1, <2>2, <2>3, <2>4 DEF TypeOK, TreeNamed, cli, caches
<1> QED BY <1>1, <1>2

\* Typed is inductive.
LEMMA TypedNext == Typed /\ [Next]_vars => Typed'
<1> SUFFICES ASSUME Typed, [Next]_vars PROVE Typed'
  OBVIOUS
<1>1. CASE UNCHANGED vars
  BY <1>1 DEF Typed, TypeOK, TreeNamed, vars, sessionFiles, cli, parsed, caches, bounds, ghosts
<1>2. CASE Next
  BY <1>2, TypedStart, TypedCall, TypedWrite, TypedRetrieve, TypedDiscovery, TypedEnvironment
  DEF Next, Step
<1> QED BY <1>1, <1>2

\* Every state of the session service is well typed (the records OrgService and
\* OrgToolAdapterService pass between their calls, and their files).
THEOREM TypeCorrect == Spec => []TypeOK
<1>1. Typed => TypeOK
  BY DEF Typed
<1> QED BY <1>1, TypedInit, TypedNext, PTL DEF Spec

------------------------------------------------------------------------------
(* How the record of a handler moves.                                      *)

Moved(h, i) == job' = [job EXCEPT ![h] = i]

\* A request that is answered, or goes on fetching or refreshing.
Continues(i, j) ==
    \/ i = NoJob
    \/ i.pc \in {"fetch", "refresh"} /\ i.readAlias = j.readAlias /\ i.wrote = j.wrote

\* The fields of a handler without a request.
LEMMA NoJobFields ==
    /\ NoJob.pc = "idle" /\ NoJob.op = "none" /\ NoJob.readAlias = Configured
    /\ NoJob.wrote = [k \in Components |-> 0] /\ NoJob.alias = Configured
BY DEF NoJob

\* Going to the next call changes nothing else of a request.
LEMMA GoMoves ==
    ASSUME NEW h \in Handlers, NEW j \in Jobs, NEW pc \in PCs, Go(h, j, pc)
    PROVE  \E i \in Jobs :
              /\ Moved(h, i) /\ i.pc = pc
              /\ i.op = j.op /\ i.alias = j.alias /\ i.readAlias = j.readAlias
              /\ i.denied = j.denied /\ i.wrote = j.wrote /\ i.payload = j.payload
              /\ i.search = j.search /\ i.cacheable = j.cacheable /\ i.index = j.index
<1> DEFINE i == [j EXCEPT !.pc = pc]
<1>1. i \in Jobs
  BY DEF Jobs, PCs
<1>2. Moved(h, i)
  BY DEF Go, Moved
<1>3. /\ i.pc = pc
      /\ i.op = j.op /\ i.alias = j.alias /\ i.readAlias = j.readAlias
      /\ i.denied = j.denied /\ i.wrote = j.wrote /\ i.payload = j.payload
      /\ i.search = j.search /\ i.cacheable = j.cacheable /\ i.index = j.index
  BY DEF Jobs
<1> QED BY <1>1, <1>2, <1>3

\* Where the shared helpers leave a request.
LEMMA StartFetchContinues ==
    ASSUME job \in [Handlers -> Jobs], NEW h \in Handlers, NEW j \in Jobs, StartFetch(h, j)
    PROVE  \E i \in Jobs : Moved(h, i) /\ Continues(i, j)
<1> DEFINE a == [j EXCEPT !.attempt = 0, !.left = j.options.selection]
<1>1. j.options.selection \in SUBSET Components
  BY DEF Jobs, Options
<1>2. a \in Jobs /\ a.readAlias = j.readAlias /\ a.wrote = j.wrote
  BY <1>1 DEF Jobs
<1>3. Go(h, a, "fetch")
  BY DEF StartFetch
<1> HIDE DEF a
<1> QED BY <1>2, <1>3, GoMoves DEF PCs, Waiting, Continues

\* An answered request is gone.
LEMMA AnswerMoves ==
    ASSUME NEW h \in Handlers, NEW status, Answer(h, status) \/ Finish(h)
    PROVE  NoJob \in Jobs /\ Moved(h, NoJob)
BY NoJobType DEF Answer, Finish, Moved

\* After the fetch it refreshes or is answered.
LEMMA AfterFetchContinues ==
    ASSUME job \in [Handlers -> Jobs], NEW h \in Handlers, NEW j \in Jobs, AfterFetch(h, j)
    PROVE  \E i \in Jobs : Moved(h, i) /\ Continues(i, j)
<1>1. CASE Go(h, j, "refresh")
  BY <1>1, GoMoves DEF PCs, Waiting, Continues
<1>2. CASE Answer(h, "completed")
  BY <1>2, AnswerMoves DEF Continues
<1> QED BY <1>1, <1>2 DEF AfterFetch

\* After the authentication it fetches, refreshes or is answered.
LEMMA AfterAuthContinues ==
    ASSUME job \in [Handlers -> Jobs], NEW h \in Handlers, NEW j \in Jobs, AfterAuth(h, j)
    PROVE  \E i \in Jobs : Moved(h, i) /\ Continues(i, j)
BY StartFetchContinues, AfterFetchContinues DEF AfterAuth

\* After the listing it fetches or is answered.
LEMMA LiveContinues ==
    ASSUME job \in [Handlers -> Jobs], NEW h \in Handlers, NEW j \in Jobs, NEW live,
           WithLiveIndex(h, j, live)
    PROVE  \E i \in Jobs : Moved(h, i) /\ Continues(i, j)
<1>1. StartFetch(h, j) \/ Finish(h)
  BY DEF WithLiveIndex
<1>2. CASE Finish(h)
  BY <1>2, AnswerMoves DEF Continues
<1> QED BY <1>1, <1>2, StartFetchContinues

\* Before the listing it reads the active alias, if it does not go on at once.
LEMMA LoadLiveContinues ==
    ASSUME Typed, NEW h \in Handlers, NEW j \in Jobs, LoadLiveIndex(h, j)
    PROVE  \E i \in Jobs : /\ Moved(h, i)
                           /\ \/ Continues(i, j)
                              \/ /\ i.pc = "liveSf" /\ i.readAlias = resolveActiveAlias
                                 /\ i.wrote = j.wrote
<1>1. CASE WithLiveIndex(h, j, CachedIndex(j))
  BY <1>1, LiveContinues DEF Typed, TypeOK
<1>2. CASE Go(h, [j EXCEPT !.readAlias = resolveActiveAlias], "liveSf")
  <2> DEFINE a == [j EXCEPT !.readAlias = resolveActiveAlias]
  <2>1. a \in Jobs /\ a.readAlias = resolveActiveAlias /\ a.wrote = j.wrote
    BY ActiveAliasType DEF Jobs
  <2> HIDE DEF a
  <2>2. Go(h, a, "liveSf")
    BY <1>2 DEF a
  <2> QED BY <2>1, <2>2, GoMoves DEF PCs, Waiting
<1> QED BY <1>1, <1>2 DEF LoadLiveIndex

------------------------------------------------------------------------------
(* The register.                                                           *)

Known == verified \cup {Configured}

Guarded == {"authCci", "authInfo", "authImport"}

\* What a request may have in hand when `shown' are the orgs shown so far.
Standing(j, shown) ==
    /\ j.readAlias \in shown \cup {Configured}
    /\ j.pc \in Guarded => j.alias \in shown
    /\ j.pc \in Writing =>
          IF j.op = "disconnect" THEN j.alias \in shown \cup {Configured}
          ELSE j.denied \/ j.alias \in shown

Grounded ==
    /\ session = NoSession \/ session.activeAlias \in Known
    /\ \A h \in Handlers : Standing(job[h], verified)

\* A step that leaves the session alone.
LEMMA GroundedKeeps ==
    ASSUME Typed, Grounded, NEW h \in Handlers, NEW i \in Jobs, Moved(h, i),
           Standing(i, verified'), verified \subseteq verified', UNCHANGED session
    PROVE  Grounded'
<1>1. ASSUME NEW g \in Handlers PROVE Standing(job'[g], verified')
  <2>1. CASE g = h
    BY <2>1 DEF Moved, Typed, TypeOK
  <2>2. CASE g # h
    <3>1. job'[g] = job[g]
      BY <2>2 DEF Moved, Typed, TypeOK
    <3> QED BY <3>1 DEF Grounded, Standing
  <2> QED BY <2>1, <2>2
<1> QED BY <1>1 DEF Grounded, Known

\* A request that goes on stands as it did.
LEMMA StandingContinues ==
    ASSUME NEW i, NEW j, NEW shown, Continues(i, j), Standing(j, shown)
    PROVE  Standing(i, shown)
BY NoJobFields DEF Continues, Standing, Guarded, Writing

\* The active alias is a known one.
LEMMA ActiveKnown == Typed /\ Grounded => resolveActiveAlias \in Known
BY DEF Grounded, resolveActiveAlias, Known

\* At first no session is attached, in the register either.
LEMMA GroundedInit == Init => Grounded /\ Register!Init
BY NoJobFields DEF Init, Grounded, Standing, Guarded, Writing, Register!Init,
   NoSession, resolveActiveAlias

\* A request takes its aliases from the session or the configuration.
LEMMA GroundedStart ==
    ASSUME Typed, Grounded, NEW h \in Handlers, Start(h)
    PROVE  Grounded' /\ UNCHANGED <<session, verified>>
<1>1. UNCHANGED <<session, verified>>
  BY DEF Start, RequestAlias, RequestRetrieve, RequestSelected, RequestCatalog,
         RequestDisconnect, Request, sessionFiles, ghosts
<1> SUFFICES Grounded'
  BY <1>1
<1>2. ASSUME NEW i \in Jobs, Moved(h, i), i.readAlias \in Known,
             i.pc \notin Guarded, i.pc \in Writing => i.op = "disconnect" /\ i.alias \in Known
      PROVE  Grounded'
  BY <1>1, <1>2, GroundedKeeps DEF Standing, Known
<1>3. Configured \in Known
  BY DEF Known
<1>4. CASE RequestAlias(h)
  <2>1. PICK r \in AliasRequests : Go(h, [NoJob EXCEPT !.op = r.op, !.alias = r.alias], "sf")
    BY <1>4 DEF RequestAlias
  <2> DEFINE j == [NoJob EXCEPT !.op = r.op, !.alias = r.alias]
  <2>2. j \in Jobs /\ j.readAlias = Configured
    BY NoJobType, NoJobFields, SessionAssumption DEF Jobs, AllOperations
  <2> HIDE DEF j
  <2>3. Go(h, j, "sf")
    BY <2>1 DEF j
  <2> QED BY <1>2, <1>3, <2>2, <2>3, GoMoves DEF PCs, Waiting, Writing, Guarded
<1>5. CASE RequestRetrieve(h)
  <2>1. PICK r \in RetrieveRequests :
           Go(h, [NoJob EXCEPT !.op = "retrieve", !.alias = r.alias, !.options = r.options], "sf")
    BY <1>5 DEF RequestRetrieve
  <2> DEFINE j == [NoJob EXCEPT !.op = "retrieve", !.alias = r.alias, !.options = r.options]
  <2>2. j \in Jobs /\ j.readAlias = Configured
    BY NoJobType, NoJobFields, SessionAssumption DEF Jobs, AllOperations
  <2> HIDE DEF j
  <2>3. Go(h, j, "sf")
    BY <2>1 DEF j
  <2> QED BY <1>2, <1>3, <2>2, <2>3, GoMoves DEF PCs, Waiting, Writing, Guarded
<1>6. CASE RequestSelected(h)
  <2>1. PICK o \in SelectedRequests :
           Go(h, [NoJob EXCEPT !.op = "selected", !.alias = resolveActiveAlias, !.options = o], "sf")
    BY <1>6 DEF RequestSelected
  <2> DEFINE j == [NoJob EXCEPT !.op = "selected", !.alias = resolveActiveAlias, !.options = o]
  <2>2. j \in Jobs /\ j.readAlias = Configured
    BY NoJobType, NoJobFields, SessionAssumption, ActiveAliasType DEF Jobs, AllOperations
  <2> HIDE DEF j
  <2>3. Go(h, j, "sf")
    BY <2>1 DEF j
  <2> QED BY <1>2, <1>3, <2>2, <2>3, GoMoves DEF PCs, Waiting, Writing, Guarded
<1>7. CASE RequestCatalog(h)
  <2>1. PICK r \in CatalogRequests :
           LoadLiveIndex(h, [NoJob EXCEPT !.op = "catalog", !.search = r.search, !.forced = r.forced])
    BY <1>7 DEF RequestCatalog
  <2> DEFINE j == [NoJob EXCEPT !.op = "catalog", !.search = r.search, !.forced = r.forced]
  <2>2. j \in Jobs /\ j.readAlias = Configured
    BY NoJobType, NoJobFields, SessionAssumption DEF Jobs, AllOperations
  <2> HIDE DEF j
  <2>3. LoadLiveIndex(h, j)
    BY <2>1 DEF j
  <2> QED
    BY <1>2, <1>3, <2>2, <2>3, LoadLiveContinues, ActiveKnown, NoJobFields
    DEF Continues, Writing, Guarded
<1>8. CASE RequestDisconnect(h)
  <2> DEFINE j == [NoJob EXCEPT !.op = "disconnect", !.alias = disconnectedAlias]
  <2>2. j \in Jobs /\ j.readAlias = Configured /\ j.op = "disconnect" /\ j.alias \in Known
    BY NoJobType, NoJobFields, ActiveAliasType, ActiveKnown
    DEF Jobs, AllOperations, disconnectedAlias
  <2>3. Go(h, j, "session")
    BY <1>8 DEF RequestDisconnect
  <2> HIDE DEF j
  <2> QED BY <1>2, <1>3, <2>2, <2>3, GoMoves DEF PCs, Writing, Guarded
<1> QED BY <1>4, <1>5, <1>6, <1>7, <1>8 DEF Start

\* Only an org that was shown goes on to be attached.
LEMMA GroundedCall ==
    ASSUME Typed, Grounded, NEW h \in Handlers,
           \/ EnsureSfInstalled(h) \/ EnsureCciInstalled(h) \/ DisplayOrg(h)
           \/ AuthDisplay(h) \/ AuthCci(h) \/ AuthInfo(h) \/ AuthImport(h)
           \/ CciOrgInfo(h) \/ ImportAliasIntoCci(h) \/ Recheck(h)
    PROVE  /\ Grounded'
           /\ UNCHANGED session /\ verified' \in {verified, verified \cup {job[h].alias}}
<1>0. /\ job[h] \in Jobs /\ job \in [Handlers -> Jobs] /\ Standing(job[h], verified)
      /\ Configured \in Known
  BY DEF Typed, TypeOK, Grounded, Known
<1>1. UNCHANGED session /\ verified' \in {verified, verified \cup {job[h].alias}}
  BY DEF EnsureSfInstalled, EnsureCciInstalled, DisplayOrg, AuthDisplay, AuthCci, AuthInfo,
         AuthImport, CciOrgInfo, ImportAliasIntoCci, Recheck, SessionCall, sessionFiles, ghosts
<1> SUFFICES Grounded'
  BY <1>1
<1>2. ASSUME NEW i \in Jobs, Moved(h, i), Standing(i, verified')
      PROVE  Grounded'
  BY <1>1, <1>2, GroundedKeeps
<1>3. ASSUME Answer(h, "failed") \/ Finish(h)
      PROVE  Grounded'
  BY <1>0, <1>2, <1>3, AnswerMoves, NoJobFields DEF Standing, Guarded, Writing, Known
<1>4. ASSUME NEW pc \in PCs, Go(h, job[h], pc),
             pc \in Guarded \cup Writing => job[h].alias \in verified'
      PROVE  Grounded'
  BY <1>0, <1>1, <1>2, <1>4, GoMoves DEF Standing, Known, Guarded, Writing
<1>5. CASE EnsureSfInstalled(h)
  <2> DEFINE asked == [job[h] EXCEPT !.readAlias = resolveActiveAlias]
  <2>1. asked \in Jobs /\ asked.readAlias \in Known
    BY <1>0, ActiveAliasType, ActiveKnown DEF Jobs
  <2>2. \/ Answer(h, "failed")
        \/ Go(h, job[h], "cci")
        \/ Go(h, asked, "display")
        \/ Go(h, job[h], "display")
        \/ Go(h, job[h], "auth")
        \/ AfterAuth(h, job[h])
        \/ LoadLiveIndex(h, job[h])
    BY <1>5 DEF EnsureSfInstalled
  <2> HIDE DEF asked
  <2>3. CASE Go(h, asked, "display")
    BY <1>1, <1>2, <2>1, <2>3, GoMoves DEF PCs, Waiting, Standing, Known, Guarded, Writing
  <2>4. ASSUME NEW i \in Jobs, Moved(h, i), Continues(i, job[h])
        PROVE  Grounded'
    <3>1. Standing(job[h], verified')
      BY <1>0, <1>1 DEF Standing
    <3> QED BY <1>2, <2>4, <3>1, StandingContinues
  <2>5. ASSUME NEW i \in Jobs, Moved(h, i), i.pc = "liveSf", i.readAlias \in Known
        PROVE  Grounded'
    BY <1>1, <1>2, <2>5 DEF Standing, Known, Guarded, Writing
  <2>7. CASE AfterAuth(h, job[h])
    BY <1>0, <2>4, <2>7, AfterAuthContinues
  <2>8. CASE LoadLiveIndex(h, job[h])
    BY <1>0, <2>4, <2>5, <2>8, LoadLiveContinues, ActiveKnown
  <2>6. CASE Go(h, job[h], "cci") \/ Go(h, job[h], "display") \/ Go(h, job[h], "auth")
    BY <1>4, <2>6 DEF PCs, Waiting, Guarded, Writing
  <2> QED BY <1>3, <2>2, <2>3, <2>6, <2>7, <2>8
<1>6. CASE EnsureCciInstalled(h)
  <2>1. Go(h, job[h], "display") \/ Go(h, job[h], "info") \/ Finish(h)
    BY <1>6 DEF EnsureCciInstalled
  <2> QED BY <1>3, <1>4, <2>1 DEF PCs, Waiting, Guarded, Writing
<1>7. CASE DisplayOrg(h)
  <2> DEFINE refused == [job[h] EXCEPT !.denied = TRUE]
  <2>1. refused \in Jobs /\ refused.denied /\ refused.readAlias = job[h].readAlias
        /\ refused.op = job[h].op
    BY <1>0 DEF Jobs
  <2>2. \/ \E pc \in {"auth", "cci", "info"} : Go(h, job[h], pc)
        \/ Go(h, refused, "session") /\ job[h].op = "switch"
        \/ Finish(h)
    BY <1>7 DEF DisplayOrg
  <2> HIDE DEF refused
  <2>3. CASE Go(h, refused, "session") /\ job[h].op = "switch"
    BY <1>0, <1>1, <1>2, <2>1, <2>3, GoMoves DEF PCs, Standing, Known, Guarded, Writing
  <2> QED BY <1>3, <1>4, <2>2, <2>3 DEF PCs, Waiting, Guarded, Writing
<1>8. CASE AuthDisplay(h)
  <2>1. \/ Go(h, job[h], "authCci") /\ verified' = verified \cup {job[h].alias}
        \/ Answer(h, "failed")
    BY <1>8 DEF AuthDisplay
  <2> QED BY <1>3, <1>4, <2>1 DEF PCs, Waiting, Guarded, Writing
<1>9. CASE AuthCci(h) \/ AuthInfo(h) \/ AuthImport(h)
  <2>1. job[h].pc \in Guarded
    BY <1>9 DEF AuthCci, AuthInfo, AuthImport, Awaits, Guarded
  <2>2. \E pc \in {"authInfo", "authImport", "recheck", "session"} : Go(h, job[h], pc)
    BY <1>9 DEF AuthCci, AuthInfo, AuthImport, Authenticated
  <2> QED BY <1>0, <1>1, <1>4, <2>1, <2>2 DEF PCs, Waiting, Writing, Standing
<1>10. CASE CciOrgInfo(h)
  <2>1. Finish(h) \/ Go(h, job[h], "import") \/ Go(h, job[h], "auth")
    BY <1>10 DEF CciOrgInfo
  <2> QED BY <1>3, <1>4, <2>1 DEF PCs, Waiting, Guarded, Writing
<1>11. CASE ImportAliasIntoCci(h) \/ Recheck(h)
  <2>1. Finish(h) \/ Go(h, job[h], "recheck")
    BY <1>11 DEF ImportAliasIntoCci, Recheck
  <2> QED BY <1>3, <1>4, <2>1 DEF PCs, Waiting, Guarded, Writing
<1> QED BY <1>5, <1>6, <1>7, <1>8, <1>9, <1>10, <1>11

\* The session file is written: a session is attached or ends.
LEMMA GroundedWrite ==
    ASSUME Typed, Grounded, NEW h \in Handlers, WriteSessionState(h)
    PROVE  Grounded' /\ Register!Next
<1>0. /\ job[h] \in Jobs /\ Standing(job[h], verified) /\ job[h].pc \in Writing
      /\ session' = newSession(job[h]) /\ verified' = verified
      /\ Go(h, job[h], "authAudit")
  BY DEF Typed, TypeOK, Grounded, WriteSessionState, Writes, Writing, ghosts
<1> DEFINE a == session'.activeAlias
<1>1. /\ session' \in Sessions /\ session' # NoSession
      /\ a \in Known
      /\ session'.status = "connected" => a \in verified
  BY <1>0, CatalogAssumption DEF newSession, Standing, Known, Sessions, NoSession, Jobs
<1>2. Grounded'
  <2>1. PICK i \in Jobs :
           /\ Moved(h, i) /\ i.pc = "authAudit" /\ i.op = job[h].op /\ i.alias = job[h].alias
           /\ i.readAlias = job[h].readAlias /\ i.denied = job[h].denied
    BY <1>0, GoMoves DEF PCs, Writing
  <2>2. Standing(i, verified)
    BY <1>0, <2>1 DEF Standing, Guarded, Writing
  <2>3. ASSUME NEW g \in Handlers PROVE Standing(job'[g], verified)
    <3>1. job'[g] \in {i, job[g]}
      BY <2>1 DEF Moved, Typed, TypeOK
    <3> QED BY <2>2, <3>1 DEF Grounded
  <2> QED BY <1>0, <1>1, <2>3 DEF Grounded, Known
<1>3. resolveActiveAlias' = a /\ a \in Aliases
  BY <1>1 DEF resolveActiveAlias, Sessions
<1>4. session'.status \in {"connected", "disconnected"}
  BY <1>1 DEF Sessions
<1>5. Register!Attach(a) \/ Register!Detach(a)
  BY <1>0, <1>1, <1>3, <1>4 DEF Register!Attach, Register!Detach, Known
<1> QED BY <1>2, <1>3, <1>5 DEF Register!Next

\* The audit entry changes no session.
LEMMA GroundedAppend ==
    ASSUME Typed, Grounded, NEW h \in Handlers, AppendAuthAudit(h)
    PROVE  Grounded' /\ UNCHANGED <<session, verified>>
<1>1. UNCHANGED <<session, verified>> /\ (AfterAuth(h, job[h]) \/ Finish(h))
  BY DEF AppendAuthAudit, ghosts
<1>2. job[h] \in Jobs /\ job \in [Handlers -> Jobs] /\ Standing(job[h], verified)
  BY DEF Typed, TypeOK, Grounded
<1>3. PICK i \in Jobs : Moved(h, i) /\ Continues(i, job[h])
  BY <1>1, <1>2, AfterAuthContinues, AnswerMoves DEF Continues
<1>4. Standing(i, verified')
  BY <1>1, <1>2, <1>3, StandingContinues
<1> QED BY <1>1, <1>3, <1>4, GroundedKeeps

\* Nor does a fetch or a refresh,
LEMMA GroundedRetrieve ==
    ASSUME Typed, Grounded, NEW h \in Handlers,
           \/ FetchFile(h) \/ FetchExits(h) \/ FetchFails(h)
           \/ RefreshStarts(h) \/ RefreshParses(h) \/ RefreshCommits(h)
    PROVE  Grounded' /\ UNCHANGED <<session, verified>>
<1>1. UNCHANGED <<session, verified>>
  BY DEF FetchFile, FetchExits, FetchFails, RefreshStarts, RefreshParses, RefreshCommits,
         RetrieveCall, sessionFiles
<1> SUFFICES Grounded'
  BY <1>1
<1>2. /\ job[h] \in Jobs /\ job \in [Handlers -> Jobs] /\ Standing(job[h], verified)
      /\ tree \in [Components -> Files] /\ Typed'
  BY TypedRetrieve DEF Typed, TypeOK, Grounded
<1>3. ASSUME NEW i \in Jobs, Moved(h, i), i.readAlias \in {Configured, job[h].readAlias},
             i.pc \notin Guarded \cup Writing
      PROVE  Grounded'
  BY <1>1, <1>2, <1>3, GroundedKeeps DEF Standing
<1>4. CASE FetchExits(h)
  BY <1>2, <1>3, <1>4, AfterFetchContinues, NoJobFields
  DEF FetchExits, Continues, Guarded, Writing
<1>5. ASSUME NEW status, Answer(h, status) PROVE Grounded'
  BY <1>3, <1>5, AnswerMoves, NoJobFields DEF Guarded, Writing
<1>6. ASSUME NEW j \in Jobs, j.readAlias = job[h].readAlias, NEW pc \in Waiting \ Guarded,
             Go(h, j, pc)
      PROVE  Grounded'
  BY <1>3, <1>6, GoMoves DEF PCs, Waiting, Guarded, Writing
<1>7. CASE FetchFile(h)
  <2>1. PICK k \in job[h].left :
           Go(h, [job[h] EXCEPT !.left = @ \ {k},
                                !.wrote = [@ EXCEPT ![k] = tree'[k].version]], "fetch")
    BY <1>7 DEF FetchFile
  <2> DEFINE w == [job[h].wrote EXCEPT ![k] = tree'[k].version]
             j == [job[h] EXCEPT !.left = job[h].left \ {k}, !.wrote = w]
  <2>2. tree'[k].version \in Nat /\ k \in Components
    BY <1>2 DEF Typed, TypeOK, Jobs, Files
  <2>3. w \in Fetches
    BY <1>2, <2>2 DEF Jobs, Fetches
  <2>4. Go(h, j, "fetch")
    BY <2>1
  <2> HIDE DEF w
  <2>5. j \in Jobs /\ j.readAlias = job[h].readAlias
    BY <1>2, <2>3 DEF Jobs
  <2> HIDE DEF j
  <2> QED BY <1>6, <2>4, <2>5 DEF Waiting, Guarded
<1>8. CASE FetchFails(h)
  <2> DEFINE n == job[h].attempt + 1
             left == job[h].options.selection
             j == [job[h] EXCEPT !.attempt = n, !.left = left]
  <2>1. Go(h, j, "fetch") \/ Answer(h, "failed")
    BY <1>8 DEF FetchFails
  <2>2. n \in Nat /\ left \in SUBSET Components
    BY <1>2 DEF Jobs, Options
  <2> HIDE DEF n, left
  <2>3. j \in Jobs /\ j.readAlias = job[h].readAlias
    BY <1>2, <2>2 DEF Jobs
  <2> HIDE DEF j
  <2> QED BY <1>5, <1>6, <2>1, <2>3 DEF Waiting, Guarded
<1>9. CASE RefreshStarts(h)
  <2>1. Go(h, job[h], "parse") \/ Answer(h, "failed")
    BY <1>9 DEF RefreshStarts
  <2> QED BY <1>2, <1>5, <1>6, <2>1 DEF Waiting, Guarded
<1>10. CASE RefreshParses(h)
  <2> DEFINE j == [job[h] EXCEPT !.payload = tree]
  <2>1. Go(h, j, "rebuild") \/ Answer(h, "failed")
    BY <1>10 DEF RefreshParses
  <2>2. j \in Jobs /\ j.readAlias = job[h].readAlias
    BY <1>2 DEF Jobs
  <2> HIDE DEF j
  <2> QED BY <1>5, <1>6, <2>1, <2>2 DEF Waiting, Guarded
<1>11. CASE RefreshCommits(h)
  BY <1>5, <1>11 DEF RefreshCommits
<1> QED BY <1>4, <1>7, <1>8, <1>9, <1>10, <1>11

\* nor a listing.
LEMMA GroundedDiscovery ==
    ASSUME Typed, Grounded, NEW h \in Handlers,
           LiveSfInstalled(h) \/ ListMetadataTypes(h) \/ ListMetadata(h)
    PROVE  Grounded' /\ UNCHANGED <<session, verified>>
<1>1. UNCHANGED <<session, verified>>
  BY DEF LiveSfInstalled, ListMetadataTypes, ListMetadata, DiscoveryCall, sessionFiles, ghosts
<1> SUFFICES Grounded'
  BY <1>1
<1>2. /\ job[h] \in Jobs /\ job \in [Handlers -> Jobs] /\ Standing(job[h], verified)
  BY DEF Typed, TypeOK, Grounded
<1>3. ASSUME NEW i \in Jobs, Moved(h, i), i.readAlias \in {Configured, job[h].readAlias},
             i.pc \notin Guarded \cup Writing
      PROVE  Grounded'
  BY <1>1, <1>2, <1>3, GroundedKeeps DEF Standing
<1>4. ASSUME NEW live, WithLiveIndex(h, job[h], live) PROVE Grounded'
  BY <1>2, <1>3, <1>4, LiveContinues, NoJobFields DEF Continues, Guarded, Writing
<1>5. ASSUME NEW j \in Jobs, j.readAlias = job[h].readAlias, NEW pc \in {"types", "members"},
             Go(h, j, pc)
      PROVE  Grounded'
  BY <1>3, <1>5, GoMoves DEF PCs, Waiting, Guarded, Writing
<1>6. CASE LiveSfInstalled(h)
  BY <1>2, <1>4, <1>5, <1>6 DEF LiveSfInstalled
<1>7. CASE ListMetadataTypes(h)
  <2> DEFINE seeded(families, cacheable) ==
         [job[h] EXCEPT !.index = FamilyIndex(families), !.cacheable = cacheable,
                        !.unlisted = SeedsFor(job[h].search)]
  <2>1. SeedsFor(job[h].search) \subseteq Types /\ job[h].readAlias \in Aliases
    BY <1>2, CatalogAssumption DEF SeedsFor, Jobs
  <2>2. ASSUME NEW families \in SUBSET Types, NEW cacheable \in BOOLEAN
        PROVE  /\ seeded(families, cacheable) \in Jobs
               /\ seeded(families, cacheable).readAlias = job[h].readAlias
    BY <1>2, <2>1, IndexTypes DEF Jobs
  <2>3. \/ Go(h, seeded(OrgTypes[job[h].readAlias], TRUE), "members")
        \/ Go(h, seeded(SeedsFor(job[h].search), FALSE), "members")
        \/ WithLiveIndex(h, job[h], CachedIndex(job[h]))
    BY <1>7 DEF ListMetadataTypes
  <2> HIDE DEF seeded
  <2> QED BY <1>4, <1>5, <2>1, <2>2, <2>3, CatalogAssumption
<1>8. CASE ListMetadata(h)
  <2> DEFINE listed(index, t) == [job[h] EXCEPT !.index = index, !.unlisted = @ \ {t}]
  <2>1. PICK t \in job[h].unlisted : \E index \in {Discovered(job[h], t), job[h].index} :
           \/ WithLiveIndex(h, job[h], index)
           \/ Go(h, listed(index, t), "members")
    BY <1>8 DEF ListMetadata
  <2>2. PICK index \in {Discovered(job[h], t), job[h].index} :
           WithLiveIndex(h, job[h], index) \/ Go(h, listed(index, t), "members")
    BY <2>1
  <2>3. index \in Indexes
    <3>1. t \in Types /\ job[h].readAlias \in Aliases /\ job[h].index \in Indexes
      BY <1>2 DEF Jobs
    <3> QED BY <2>2, <3>1, WithMembersType DEF Discovered
  <2>4. listed(index, t) \in Jobs /\ listed(index, t).readAlias = job[h].readAlias
    BY <1>2, <2>3 DEF Jobs
  <2> HIDE DEF listed
  <2> QED BY <1>4, <1>5, <2>2, <2>4
<1> QED BY <1>6, <1>7, <1>8

\* A crash may lose the session, and every request.
LEMMA GroundedCrash ==
    ASSUME Typed, Grounded, Crash
    PROVE  /\ Grounded' /\ UNCHANGED verified
           /\ session' = NoSession \/ UNCHANGED session
<1>1. /\ job' = [h \in Handlers |-> NoJob] /\ verified' = verified
      /\ session' = NoSession \/ session' = session
  BY DEF Crash
<1>2. Grounded'
  BY <1>1, NoJobFields DEF Grounded, Standing, Guarded, Writing, Known
<1> QED BY <1>1, <1>2

\* A step that leaves the session file alone is a step of the register in which
\* an org may be shown.
LEMMA RegisterCalm ==
    ASSUME Typed, UNCHANGED session,
           NEW a \in Aliases, verified' \in {verified, verified \cup {a}}
    PROVE  [Register!Next]_(Register!vars)
<1>1. UNCHANGED <<session.status, resolveActiveAlias>>
  BY DEF resolveActiveAlias
<1>2. CASE verified' = verified
  BY <1>1, <1>2 DEF Register!vars
<1>3. CASE verified' = verified \cup {a}
  BY <1>1, <1>3 DEF Register!Next, Register!Verify
<1> QED BY <1>2, <1>3

\* Every step keeps Grounded and is a step of the register, or none of it.
LEMMA GroundedNext ==
    Typed /\ Grounded /\ [Next]_vars => Grounded' /\ [Register!Next]_(Register!vars)
<1> SUFFICES ASSUME Typed, Grounded, [Next]_vars
             PROVE  Grounded' /\ [Register!Next]_(Register!vars)
  OBVIOUS
<1>1. ASSUME UNCHANGED <<session, verified>> PROVE [Register!Next]_(Register!vars)
  BY <1>1, RegisterCalm, SessionAssumption
<1>2. CASE UNCHANGED vars
  <2>1. UNCHANGED <<session, verified>> /\ UNCHANGED job
    BY <1>2 DEF vars, sessionFiles, ghosts
  <2> QED BY <1>1, <2>1 DEF Grounded, Known
<1>3. ASSUME NEW h \in Handlers, Start(h) \/ Step(h)
      PROVE  Grounded' /\ [Register!Next]_(Register!vars)
  <2>1. CASE Start(h)
    BY <1>1, <2>1, GroundedStart
  <2>2. CASE \/ EnsureSfInstalled(h) \/ EnsureCciInstalled(h) \/ DisplayOrg(h)
             \/ AuthDisplay(h) \/ AuthCci(h) \/ AuthInfo(h) \/ AuthImport(h)
             \/ CciOrgInfo(h) \/ ImportAliasIntoCci(h) \/ Recheck(h)
    <3>1. job[h].alias \in Aliases
      BY DEF Typed, TypeOK, Jobs
    <3> QED BY <2>2, <3>1, GroundedCall, RegisterCalm
  <2>3. CASE WriteSessionState(h)
    BY <2>3, GroundedWrite
  <2>4. CASE AppendAuthAudit(h)
    BY <1>1, <2>4, GroundedAppend
  <2>5. CASE \/ FetchFile(h) \/ FetchExits(h) \/ FetchFails(h)
             \/ RefreshStarts(h) \/ RefreshParses(h) \/ RefreshCommits(h)
    BY <1>1, <2>5, GroundedRetrieve
  <2>6. CASE LiveSfInstalled(h) \/ ListMetadataTypes(h) \/ ListMetadata(h)
    BY <1>1, <2>6, GroundedDiscovery
  <2> QED BY <1>3, <2>1, <2>2, <2>3, <2>4, <2>5, <2>6 DEF Step
<1>4. CASE Login
  <2>1. UNCHANGED <<session, verified>> /\ UNCHANGED job
    BY <1>4 DEF Login, sessionFiles, ghosts
  <2> QED BY <1>1, <2>1 DEF Grounded, Known
<1>5. CASE Crash
  <2>1. CASE UNCHANGED <<session, verified>>
    BY <1>1, <1>5, <2>1, GroundedCrash
  <2>2. CASE session' = NoSession /\ UNCHANGED verified
    <3>1. session'.status = "disconnected" /\ resolveActiveAlias' = Configured
      BY <2>2 DEF NoSession, resolveActiveAlias
    <3>2. Register!Detach(Configured)
      BY <2>2, <3>1 DEF Register!Detach
    <3> QED BY <1>5, <3>2, GroundedCrash, SessionAssumption DEF Register!Next
  <2> QED BY <1>5, <2>1, <2>2, GroundedCrash
<1> QED BY <1>2, <1>3, <1>4, <1>5 DEF Next

\* The session file is the alias register, whatever the interleaving of connects,
\* switches, disconnects and retrieves (OrgService.writeSessionState and the calls
\* before it): a session is attached only to an org the CLI has shown.
THEOREM Implements == Spec => SessionIsRegister
<1>1. Init => Typed /\ Grounded /\ Register!Init
  BY TypedInit, GroundedInit
<1>2. Typed /\ Grounded /\ [Next]_vars
         => (Typed /\ Grounded)' /\ [Register!Next]_(Register!vars)
  BY TypedNext, GroundedNext
<1> QED BY <1>1, <1>2, PTL DEF Spec, SessionIsRegister, Register!Spec
------------------------------------------------------------------------------
(* The safety invariants.                                                  *)

\* A request that holds the refresh lock.
Refreshing == {"parse", "rebuild"}

\* A request that is neither refreshing nor listing after the step.
Quiet(i, j) ==
    /\ i.pc \notin Refreshing \cup {"members"}
    /\ i.wrote \in {j.wrote, NoJob.wrote}

\* The shared helpers are quiet.
LEMMA ContinuesQuiet ==
    ASSUME NEW i, NEW j, Continues(i, j)
    PROVE  Quiet(i, j)
BY NoJobFields DEF Continues, Quiet, Refreshing

\* So is a request.
LEMMA StartQuiet ==
    ASSUME Typed, NEW h \in Handlers, Start(h)
    PROVE  \E i \in Jobs : Moved(h, i) /\ Quiet(i, job[h])
<1>1. ASSUME NEW j \in Jobs, j.wrote = NoJob.wrote, NEW pc \in {"sf", "session"}, Go(h, j, pc)
      PROVE  \E i \in Jobs : Moved(h, i) /\ Quiet(i, job[h])
  BY <1>1, GoMoves DEF PCs, Waiting, Writing, Quiet, Refreshing
<1>2. CASE RequestAlias(h)
  <2>1. PICK r \in AliasRequests : Go(h, [NoJob EXCEPT !.op = r.op, !.alias = r.alias], "sf")
    BY <1>2 DEF RequestAlias
  <2> DEFINE j == [NoJob EXCEPT !.op = r.op, !.alias = r.alias]
  <2>2. j \in Jobs /\ j.wrote = NoJob.wrote
    BY NoJobType, SessionAssumption DEF Jobs, AllOperations
  <2> HIDE DEF j
  <2>3. Go(h, j, "sf")
    BY <2>1 DEF j
  <2> QED BY <1>1, <2>2, <2>3
<1>3. CASE RequestRetrieve(h)
  <2>1. PICK r \in RetrieveRequests :
           Go(h, [NoJob EXCEPT !.op = "retrieve", !.alias = r.alias, !.options = r.options], "sf")
    BY <1>3 DEF RequestRetrieve
  <2> DEFINE j == [NoJob EXCEPT !.op = "retrieve", !.alias = r.alias, !.options = r.options]
  <2>2. j \in Jobs /\ j.wrote = NoJob.wrote
    BY NoJobType, SessionAssumption DEF Jobs, AllOperations
  <2> HIDE DEF j
  <2>3. Go(h, j, "sf")
    BY <2>1 DEF j
  <2> QED BY <1>1, <2>2, <2>3
<1>4. CASE RequestSelected(h)
  <2>1. PICK o \in SelectedRequests :
           Go(h, [NoJob EXCEPT !.op = "selected", !.alias = resolveActiveAlias, !.options = o], "sf")
    BY <1>4 DEF RequestSelected
  <2> DEFINE j == [NoJob EXCEPT !.op = "selected", !.alias = resolveActiveAlias, !.options = o]
  <2>2. j \in Jobs /\ j.wrote = NoJob.wrote
    BY NoJobType, SessionAssumption, ActiveAliasType DEF Jobs, AllOperations
  <2> HIDE DEF j
  <2>3. Go(h, j, "sf")
    BY <2>1 DEF j
  <2> QED BY <1>1, <2>2, <2>3
<1>5. CASE RequestCatalog(h)
  <2>1. PICK r \in CatalogRequests :
           LoadLiveIndex(h, [NoJob EXCEPT !.op = "catalog", !.search = r.search, !.forced = r.forced])
    BY <1>5 DEF RequestCatalog
  <2> DEFINE j == [NoJob EXCEPT !.op = "catalog", !.search = r.search, !.forced = r.forced]
  <2>2. j \in Jobs /\ j.wrote = NoJob.wrote
    BY NoJobType, SessionAssumption DEF Jobs, AllOperations
  <2> HIDE DEF j
  <2>3. LoadLiveIndex(h, j)
    BY <2>1 DEF j
  <2> QED BY <2>2, <2>3, LoadLiveContinues, ContinuesQuiet DEF Quiet, Refreshing
<1>6. CASE RequestDisconnect(h)
  <2> DEFINE j == [NoJob EXCEPT !.op = "disconnect", !.alias = disconnectedAlias]
  <2>1. j \in Jobs /\ j.wrote = NoJob.wrote
    BY NoJobType, ActiveAliasType DEF Jobs, AllOperations, disconnectedAlias
  <2>2. Go(h, j, "session")
    BY <1>6 DEF RequestDisconnect
  <2> HIDE DEF j
  <2> QED BY <1>1, <2>1, <2>2
<1> QED BY <1>2, <1>3, <1>4, <1>5, <1>6 DEF Start

\* The steps of a request outside a fetch, a refresh and the listing of members.
LEMMA CallQuiet ==
    ASSUME Typed, NEW h \in Handlers,
           \/ EnsureSfInstalled(h) \/ EnsureCciInstalled(h) \/ DisplayOrg(h)
           \/ AuthDisplay(h) \/ AuthCci(h) \/ AuthInfo(h) \/ AuthImport(h)
           \/ CciOrgInfo(h) \/ ImportAliasIntoCci(h) \/ Recheck(h)
           \/ WriteSessionState(h) \/ AppendAuthAudit(h)
           \/ FetchExits(h) \/ FetchFails(h) \/ LiveSfInstalled(h)
    PROVE  \E i \in Jobs : Moved(h, i) /\ Quiet(i, job[h])
<1>0. job[h] \in Jobs /\ job \in [Handlers -> Jobs]
  BY DEF Typed, TypeOK
<1>1. ASSUME NEW j \in Jobs, j.wrote = job[h].wrote,
             NEW pc \in PCs \ (Refreshing \cup {"members"}), Go(h, j, pc)
      PROVE  \E i \in Jobs : Moved(h, i) /\ Quiet(i, job[h])
  BY <1>1, GoMoves DEF Quiet
<1>2. ASSUME NEW status, Answer(h, status) \/ Finish(h)
      PROVE  \E i \in Jobs : Moved(h, i) /\ Quiet(i, job[h])
  BY <1>2, AnswerMoves, ContinuesQuiet DEF Continues
<1>3. ASSUME \/ AfterAuth(h, job[h]) \/ AfterFetch(h, job[h])
             \/ \E live : WithLiveIndex(h, job[h], live)
      PROVE  \E i \in Jobs : Moved(h, i) /\ Quiet(i, job[h])
  BY <1>0, <1>3, AfterAuthContinues, AfterFetchContinues, LiveContinues, ContinuesQuiet
<1>4. CASE EnsureSfInstalled(h)
  <2> DEFINE asked == [job[h] EXCEPT !.readAlias = resolveActiveAlias]
  <2>1. asked \in Jobs /\ asked.wrote = job[h].wrote
    BY <1>0, ActiveAliasType DEF Jobs
  <2>2. \/ Answer(h, "failed")
        \/ \E pc \in {"cci", "display", "auth"} : Go(h, job[h], pc)
        \/ Go(h, asked, "display")
        \/ AfterAuth(h, job[h])
        \/ LoadLiveIndex(h, job[h])
    BY <1>4 DEF EnsureSfInstalled
  <2> HIDE DEF asked
  <2>3. CASE LoadLiveIndex(h, job[h])
    BY <1>0, <2>3, LoadLiveContinues, ContinuesQuiet DEF Quiet, Refreshing
  <2> QED BY <1>0, <1>1, <1>2, <1>3, <2>1, <2>2, <2>3 DEF PCs, Waiting, Refreshing
<1>5. CASE DisplayOrg(h)
  <2> DEFINE refused == [job[h] EXCEPT !.denied = TRUE]
  <2>1. refused \in Jobs /\ refused.wrote = job[h].wrote
    BY <1>0 DEF Jobs
  <2>2. \/ \E pc \in {"auth", "cci", "info"} : Go(h, job[h], pc)
        \/ Go(h, refused, "session")
        \/ Finish(h)
    BY <1>5 DEF DisplayOrg
  <2> HIDE DEF refused
  <2> QED BY <1>0, <1>1, <1>2, <2>1, <2>2 DEF PCs, Waiting, Writing, Refreshing
<1>6. CASE EnsureCciInstalled(h) \/ CciOrgInfo(h) \/ ImportAliasIntoCci(h) \/ Recheck(h)
  <2>1. Finish(h) \/ \E pc \in {"display", "info", "import", "auth", "recheck"} : Go(h, job[h], pc)
    BY <1>6 DEF EnsureCciInstalled, CciOrgInfo, ImportAliasIntoCci, Recheck
  <2> QED BY <1>0, <1>1, <1>2, <2>1 DEF PCs, Waiting, Refreshing
<1>7. CASE AuthDisplay(h) \/ AuthCci(h) \/ AuthInfo(h) \/ AuthImport(h)
  <2>1. \/ Answer(h, "failed")
        \/ \E pc \in {"authCci", "authInfo", "authImport", "recheck", "session"} : Go(h, job[h], pc)
    BY <1>7 DEF AuthDisplay, AuthCci, AuthInfo, AuthImport, Authenticated
  <2> QED BY <1>0, <1>1, <1>2, <2>1 DEF PCs, Waiting, Writing, Refreshing
<1>8. CASE WriteSessionState(h)
  BY <1>0, <1>1, <1>8 DEF WriteSessionState, PCs, Writing, Refreshing
<1>9. CASE AppendAuthAudit(h)
  BY <1>2, <1>3, <1>9 DEF AppendAuthAudit
<1>10. CASE FetchExits(h)
  BY <1>3, <1>10 DEF FetchExits
<1>11. CASE FetchFails(h)
  <2> DEFINE n == job[h].attempt + 1
             left == job[h].options.selection
             j == [job[h] EXCEPT !.attempt = n, !.left = left]
  <2>1. Go(h, j, "fetch") \/ Answer(h, "failed")
    BY <1>11 DEF FetchFails
  <2>2. n \in Nat /\ left \in SUBSET Components
    BY <1>0 DEF Jobs, Options
  <2> HIDE DEF n, left
  <2>3. j \in Jobs /\ j.wrote = job[h].wrote
    BY <1>0, <2>2 DEF Jobs
  <2> HIDE DEF j
  <2> QED BY <1>1, <1>2, <2>1, <2>3 DEF PCs, Waiting, Refreshing
<1>12. CASE LiveSfInstalled(h)
  <2>1. Go(h, job[h], "types") \/ \E live : WithLiveIndex(h, job[h], live)
    BY <1>12 DEF LiveSfInstalled
  <2> QED BY <1>0, <1>1, <1>3, <2>1 DEF PCs, Waiting, Refreshing
<1> QED BY <1>4, <1>5, <1>6, <1>7, <1>8, <1>9, <1>10, <1>11, <1>12

\* A step of the listing.
LEMMA ListingMoves ==
    ASSUME Typed, NEW h \in Handlers, ListMetadataTypes(h) \/ ListMetadata(h)
    PROVE  \E i \in Jobs : /\ Moved(h, i) /\ i.pc \notin Refreshing
                           /\ i.wrote \in {job[h].wrote, NoJob.wrote}
<1>0. job[h] \in Jobs /\ job \in [Handlers -> Jobs]
  BY DEF Typed, TypeOK
<1>1. ASSUME NEW j \in Jobs, j.wrote = job[h].wrote, Go(h, j, "members")
      PROVE  \E i \in Jobs : /\ Moved(h, i) /\ i.pc \notin Refreshing
                             /\ i.wrote \in {job[h].wrote, NoJob.wrote}
  BY <1>1, GoMoves DEF PCs, Waiting, Refreshing
<1>2. ASSUME NEW live, WithLiveIndex(h, job[h], live)
      PROVE  \E i \in Jobs : /\ Moved(h, i) /\ i.pc \notin Refreshing
                             /\ i.wrote \in {job[h].wrote, NoJob.wrote}
  BY <1>0, <1>2, LiveContinues, ContinuesQuiet DEF Quiet
<1>3. CASE ListMetadataTypes(h)
  <2> DEFINE seeded(families, cacheable) ==
         [job[h] EXCEPT !.index = FamilyIndex(families), !.cacheable = cacheable,
                        !.unlisted = SeedsFor(job[h].search)]
  <2>1. SeedsFor(job[h].search) \subseteq Types /\ job[h].readAlias \in Aliases
    BY <1>0, CatalogAssumption DEF SeedsFor, Jobs
  <2>2. ASSUME NEW families \in SUBSET Types, NEW cacheable \in BOOLEAN
        PROVE  /\ seeded(families, cacheable) \in Jobs
               /\ seeded(families, cacheable).wrote = job[h].wrote
    BY <1>0, <2>1, IndexTypes DEF Jobs
  <2>3. \/ Go(h, seeded(OrgTypes[job[h].readAlias], TRUE), "members")
        \/ Go(h, seeded(SeedsFor(job[h].search), FALSE), "members")
        \/ WithLiveIndex(h, job[h], CachedIndex(job[h]))
    BY <1>3 DEF ListMetadataTypes
  <2> HIDE DEF seeded
  <2> QED BY <1>1, <1>2, <2>1, <2>2, <2>3, CatalogAssumption
<1>4. CASE ListMetadata(h)
  <2> DEFINE listed(index, t) == [job[h] EXCEPT !.index = index, !.unlisted = @ \ {t}]
  <2>1. PICK t \in job[h].unlisted : \E index \in {Discovered(job[h], t), job[h].index} :
           \/ WithLiveIndex(h, job[h], index)
           \/ Go(h, listed(index, t), "members")
    BY <1>4 DEF ListMetadata
  <2>2. PICK index \in {Discovered(job[h], t), job[h].index} :
           WithLiveIndex(h, job[h], index) \/ Go(h, listed(index, t), "members")
    BY <2>1
  <2>3. index \in Indexes
    <3>1. t \in Types /\ job[h].readAlias \in Aliases /\ job[h].index \in Indexes
      BY <1>0 DEF Jobs
    <3> QED BY <2>2, <3>1, WithMembersType DEF Discovered
  <2>4. listed(index, t) \in Jobs /\ listed(index, t).wrote = job[h].wrote
    BY <1>0, <2>3 DEF Jobs
  <2> HIDE DEF listed
  <2> QED BY <1>1, <1>2, <2>2, <2>4
<1> QED BY <1>3, <1>4

\* A step of a fetch or a refresh lists nothing.
LEMMA RefreshMoves ==
    ASSUME Typed, NEW h \in Handlers,
           FetchFile(h) \/ RefreshStarts(h) \/ RefreshParses(h) \/ RefreshCommits(h)
    PROVE  \E i \in Jobs : Moved(h, i) /\ i.pc # "members"
<1>0. job[h] \in Jobs /\ tree \in [Components -> Files] /\ Typed'
  BY TypedRetrieve DEF Typed, TypeOK
<1>1. ASSUME NEW status, Answer(h, status)
      PROVE  \E i \in Jobs : Moved(h, i) /\ i.pc # "members"
  BY <1>1, AnswerMoves, NoJobFields
<1>2. ASSUME NEW j \in Jobs, NEW pc \in {"fetch", "parse", "rebuild"}, Go(h, j, pc)
      PROVE  \E i \in Jobs : Moved(h, i) /\ i.pc # "members"
  BY <1>2, GoMoves DEF PCs, Waiting
<1>3. CASE FetchFile(h)
  <2>1. PICK k \in job[h].left :
           Go(h, [job[h] EXCEPT !.left = @ \ {k},
                                !.wrote = [@ EXCEPT ![k] = tree'[k].version]], "fetch")
    BY <1>3 DEF FetchFile
  <2> DEFINE w == [job[h].wrote EXCEPT ![k] = tree'[k].version]
             j == [job[h] EXCEPT !.left = job[h].left \ {k}, !.wrote = w]
  <2>2. tree'[k].version \in Nat /\ k \in Components
    BY <1>0 DEF Typed, TypeOK, Jobs, Files
  <2>3. w \in Fetches
    BY <1>0, <2>2 DEF Jobs, Fetches
  <2>4. Go(h, j, "fetch")
    BY <2>1
  <2> HIDE DEF w
  <2>5. j \in Jobs
    BY <1>0, <2>3 DEF Jobs
  <2> HIDE DEF j
  <2> QED BY <1>2, <2>4, <2>5
<1>4. CASE RefreshStarts(h)
  BY <1>0, <1>1, <1>2, <1>4 DEF RefreshStarts
<1>5. CASE RefreshParses(h)
  <2> DEFINE j == [job[h] EXCEPT !.payload = tree]
  <2>1. Go(h, j, "rebuild") \/ Answer(h, "failed")
    BY <1>5 DEF RefreshParses
  <2>2. j \in Jobs
    BY <1>0 DEF Jobs
  <2> HIDE DEF j
  <2> QED BY <1>1, <1>2, <2>1, <2>2
<1>6. CASE RefreshCommits(h)
  BY <1>1, <1>6 DEF RefreshCommits
<1> QED BY <1>3, <1>4, <1>5, <1>6

------------------------------------------------------------------------------
(* What a completed retrieve fetched is in the graph.                      *)

\* Nothing a request holds is newer than the tree; the payload of the one refresh
\* holds everything the graph does and everything its request fetched.
Retrieved ==
    /\ \A k \in Components : /\ graph[k].version <= tree[k].version
                             /\ promised[k] <= graph[k].version
    /\ \A h \in Handlers, k \in Components : job[h].wrote[k] <= tree[k].version
    /\ \A h \in Handlers : job[h].pc \in Refreshing =>
          /\ refreshInProgress
          /\ \A g \in Handlers \ {h} : job[g].pc \notin Refreshing
    /\ \A h \in Handlers : job[h].pc = "rebuild" =>
          \A k \in Components :
             /\ job[h].wrote[k] <= job[h].payload[k].version
             /\ graph[k].version <= job[h].payload[k].version
             /\ job[h].payload[k].version <= tree[k].version

\* At first nothing was fetched.
LEMMA RetrievedInit == Init => Retrieved
BY NoJobFields DEF Init, Retrieved, Refreshing, Absent

\* A step of one handler leaves the requests of the others.
LEMMA JobAfter ==
    ASSUME Typed, NEW h \in Handlers, NEW i \in Jobs, Moved(h, i)
    PROVE  job'[h] = i /\ \A g \in Handlers \ {h} : job'[g] = job[g]
BY DEF Moved, Typed, TypeOK

\* The versions are numbers.
LEMMA Versions ==
    ASSUME Typed, NEW h \in Handlers, NEW k \in Components
    PROVE  /\ tree[k].version \in Nat /\ graph[k].version \in Nat /\ promised[k] \in Nat
           /\ job[h].wrote[k] \in Nat /\ job[h].payload[k].version \in Nat
BY DEF Typed, TypeOK, Files, Fetches, Jobs

\* A step that neither fetches nor refreshes.
LEMMA RetrievedKeeps ==
    ASSUME Typed, Retrieved, NEW h \in Handlers, NEW i \in Jobs, Moved(h, i),
           i.pc \notin Refreshing, i.wrote \in {job[h].wrote, NoJob.wrote},
           UNCHANGED <<tree, graph, promised>>,
           refreshInProgress' = refreshInProgress
             \/ job[h].pc \in Refreshing
    PROVE  Retrieved'
<1>1. job'[h] = i /\ \A g \in Handlers \ {h} : job'[g] = job[g]
  BY JobAfter
<1>2. ASSUME NEW g \in Handlers, NEW k \in Components PROVE job'[g].wrote[k] <= tree[k].version
  <2>1. job'[g].wrote[k] \in {job[g].wrote[k], 0}
    BY <1>1, NoJobFields
  <2> QED BY <2>1, Versions DEF Retrieved
<1>3. ASSUME NEW g \in Handlers, job'[g].pc \in Refreshing
      PROVE  g # h /\ job'[g] = job[g] /\ refreshInProgress'
             /\ \A f \in Handlers \ {g} : job'[f].pc \notin Refreshing
  <2>1. g # h /\ job'[g] = job[g]
    BY <1>1, <1>3
  <2>2. refreshInProgress /\ \A f \in Handlers \ {g} : job[f].pc \notin Refreshing
    BY <1>3, <2>1 DEF Retrieved
  <2> QED BY <1>1, <2>1, <2>2
<1>4. ASSUME NEW g \in Handlers, job'[g].pc = "rebuild"
      PROVE  job'[g] = job[g]
  BY <1>3, <1>4 DEF Refreshing
<1> QED BY <1>2, <1>3, <1>4 DEF Retrieved

\* Each step of a request.
LEMMA RetrievedStep ==
    ASSUME Typed, Retrieved, NEW h \in Handlers, Start(h) \/ Step(h)
    PROVE  Retrieved'
<1>0. job[h] \in Jobs /\ job \in [Handlers -> Jobs]
  BY DEF Typed, TypeOK
<1>1. CASE Start(h)
  <2>1. UNCHANGED <<tree, graph, promised, refreshInProgress>>
    BY <1>1 DEF Start, RequestAlias, RequestRetrieve, RequestSelected, RequestCatalog,
       RequestDisconnect, Request, parsed, ghosts
  <2> QED BY <1>1, <2>1, StartQuiet, RetrievedKeeps DEF Quiet
<1>2. CASE \/ EnsureSfInstalled(h) \/ EnsureCciInstalled(h) \/ DisplayOrg(h)
           \/ AuthDisplay(h) \/ AuthCci(h) \/ AuthInfo(h) \/ AuthImport(h)
           \/ CciOrgInfo(h) \/ ImportAliasIntoCci(h) \/ Recheck(h)
           \/ WriteSessionState(h) \/ AppendAuthAudit(h)
           \/ FetchExits(h) \/ FetchFails(h) \/ LiveSfInstalled(h)
  <2>1. UNCHANGED <<tree, graph, promised, refreshInProgress>>
    BY <1>2 DEF EnsureSfInstalled, EnsureCciInstalled, DisplayOrg, AuthDisplay, AuthCci, AuthInfo,
       AuthImport, CciOrgInfo, ImportAliasIntoCci, Recheck, WriteSessionState, AppendAuthAudit,
       FetchExits, FetchFails, LiveSfInstalled, SessionCall, RetrieveCall, DiscoveryCall,
       parsed, ghosts
  <2> QED BY <1>2, <2>1, CallQuiet, RetrievedKeeps DEF Quiet
<1>3. CASE ListMetadataTypes(h) \/ ListMetadata(h)
  <2>1. UNCHANGED <<tree, graph, promised, refreshInProgress>>
    BY <1>3 DEF ListMetadataTypes, ListMetadata, DiscoveryCall, parsed, ghosts
  <2> QED BY <1>3, <2>1, ListingMoves, RetrievedKeeps
<1>4. CASE FetchFile(h)
  <2>1. PICK k \in job[h].left :
           /\ tree' = [tree EXCEPT ![k] = [alias |-> job[h].alias, version |-> @.version + 1]]
           /\ Go(h, [job[h] EXCEPT !.left = @ \ {k},
                                   !.wrote = [@ EXCEPT ![k] = tree'[k].version]], "fetch")
    BY <1>4 DEF FetchFile
  <2> DEFINE w == [job[h].wrote EXCEPT ![k] = tree'[k].version]
             j == [job[h] EXCEPT !.left = job[h].left \ {k}, !.wrote = w]
  <2>2. k \in Components /\ tree'[k].version = tree[k].version + 1
        /\ \A c \in Components \ {k} : tree'[c] = tree[c]
    BY <1>0, <2>1 DEF Typed, TypeOK, Jobs
  <2>3. w \in Fetches
    BY <1>0, <2>2, Versions DEF Jobs, Fetches
  <2>4. Go(h, j, "fetch")
    BY <2>1
  <2>5. j \in Jobs /\ j.wrote = w
    <3> HIDE DEF w
    <3> QED BY <1>0, <2>3 DEF Jobs
  <2>6. PICK i \in Jobs : Moved(h, i) /\ i.pc = "fetch" /\ i.wrote = w
    <3> HIDE DEF j, w
    <3> QED BY <2>4, <2>5, GoMoves DEF PCs, Waiting
  <2>7. job'[h] = i /\ \A g \in Handlers \ {h} : job'[g] = job[g]
    BY <2>6, JobAfter
  <2>8. UNCHANGED <<graph, promised, refreshInProgress>>
    BY <1>4 DEF FetchFile
  <2>9. \A c \in Components : tree[c].version <= tree'[c].version
    BY <2>2, Versions
  <2>10. ASSUME NEW g \in Handlers, NEW c \in Components
         PROVE  job'[g].wrote[c] <= tree'[c].version
    <3>1. job[g].wrote[c] <= tree'[c].version
      BY <2>2, <2>9, Versions DEF Retrieved
    <3>2. w[c] <= tree'[c].version
      BY <1>0, <2>2, <2>9, <3>1, Versions DEF Jobs, Fetches, Retrieved
    <3> QED BY <2>6, <2>7, <3>1, <3>2
  <2>11. ASSUME NEW g \in Handlers, job'[g].pc \in Refreshing
         PROVE  g # h /\ job'[g] = job[g] /\ refreshInProgress'
                /\ \A f \in Handlers \ {g} : job'[f].pc \notin Refreshing
    <3>1. g # h /\ job'[g] = job[g]
      BY <2>6, <2>7, <2>11 DEF Refreshing
    <3>2. refreshInProgress /\ \A f \in Handlers \ {g} : job[f].pc \notin Refreshing
      BY <2>11, <3>1 DEF Retrieved
    <3>3. i.pc \notin Refreshing
      BY <2>6 DEF Refreshing
    <3> QED BY <2>7, <2>8, <3>1, <3>2, <3>3
  <2>12. ASSUME NEW g \in Handlers, job'[g].pc = "rebuild", NEW c \in Components
         PROVE  /\ job'[g].wrote[c] <= job'[g].payload[c].version
                /\ graph'[c].version <= job'[g].payload[c].version
                /\ job'[g].payload[c].version <= tree'[c].version
    <3>1. job'[g] = job[g]
      BY <2>11, <2>12 DEF Refreshing
    <3>2. /\ job[g].wrote[c] <= job[g].payload[c].version
          /\ graph[c].version <= job[g].payload[c].version
          /\ job[g].payload[c].version <= tree[c].version
      BY <2>12, <3>1 DEF Retrieved
    <3>3. job[g].payload[c].version <= tree'[c].version
      BY <2>2, <2>9, <3>2, Versions
    <3> QED BY <2>8, <3>1, <3>2, <3>3
  <2>13. ASSUME NEW c \in Components
         PROVE  graph'[c].version <= tree'[c].version /\ promised'[c] <= graph'[c].version
    BY <2>2, <2>8, <2>9, Versions DEF Retrieved
  <2> QED BY <2>10, <2>11, <2>12, <2>13 DEF Retrieved
<1>5. CASE RefreshStarts(h)
  <2>1. UNCHANGED <<tree, graph, promised>> /\ job[h].pc = "refresh"
    BY <1>5 DEF RefreshStarts, Awaits
  <2>2. CASE refreshInProgress
    <3>1. Answer(h, "failed") /\ UNCHANGED refreshInProgress
      BY <1>5, <2>2 DEF RefreshStarts
    <3> QED BY <2>1, <3>1, AnswerMoves, RetrievedKeeps, NoJobFields DEF Refreshing
  <2>3. CASE ~refreshInProgress
    <3>1. Go(h, job[h], "parse") /\ refreshInProgress'
      BY <1>5, <2>3 DEF RefreshStarts
    <3>2. PICK i \in Jobs : Moved(h, i) /\ i.pc = "parse" /\ i.wrote = job[h].wrote
      BY <1>0, <3>1, GoMoves DEF PCs, Waiting
    <3>3. job'[h] = i /\ \A g \in Handlers \ {h} : job'[g] = job[g]
      BY <3>2, JobAfter
    <3>4. \A g \in Handlers : job[g].pc \notin Refreshing
      BY <2>3 DEF Retrieved
    <3>5. \A g \in Handlers : job'[g].wrote = job[g].wrote /\ job'[g].pc # "rebuild"
      BY <3>2, <3>3, <3>4 DEF Refreshing
    <3>6. \A g \in Handlers : job'[g].pc \in Refreshing => g = h
      BY <3>3, <3>4
    <3> QED BY <2>1, <3>1, <3>5, <3>6 DEF Retrieved
  <2> QED BY <2>2, <2>3
<1>6. CASE RefreshParses(h)
  <2>1. UNCHANGED <<tree, graph, promised>> /\ job[h].pc \in Refreshing
    BY <1>6 DEF RefreshParses, Awaits, Refreshing
  <2>2. CASE Answer(h, "failed")
    BY <2>1, <2>2, AnswerMoves, RetrievedKeeps, NoJobFields DEF Refreshing
  <2>3. CASE Go(h, [job[h] EXCEPT !.payload = tree], "rebuild") /\ UNCHANGED refreshInProgress
    <3> DEFINE j == [job[h] EXCEPT !.payload = tree]
    <3>1. j \in Jobs /\ j.wrote = job[h].wrote /\ j.payload = tree
      BY <1>0 DEF Jobs, Typed, TypeOK
    <3>2. Go(h, j, "rebuild")
      BY <2>3
    <3> HIDE DEF j
    <3>3. PICK i \in Jobs :
             Moved(h, i) /\ i.pc = "rebuild" /\ i.wrote = job[h].wrote /\ i.payload = tree
      BY <3>1, <3>2, GoMoves DEF PCs, Waiting
    <3>4. job'[h] = i /\ \A g \in Handlers \ {h} : job'[g] = job[g]
      BY <3>3, JobAfter
    <3>5. refreshInProgress' /\ \A g \in Handlers \ {h} : job'[g].pc \notin Refreshing
      BY <2>1, <2>3, <3>4 DEF Retrieved
    <3>6. \A g \in Handlers : job'[g].wrote = job[g].wrote
      BY <3>3, <3>4
    <3>7. \A c \in Components : tree[c].version <= tree[c].version
      BY Versions
    <3>8. \A g \in Handlers : job'[g].pc = "rebuild" => g = h /\ job'[g].payload = tree
      BY <3>3, <3>4, <3>5 DEF Refreshing
    <3> QED BY <2>1, <3>5, <3>6, <3>7, <3>8 DEF Retrieved
  <2> QED BY <1>6, <2>2, <2>3 DEF RefreshParses
<1>7. CASE RefreshCommits(h)
  <2>1. /\ UNCHANGED tree /\ job[h].pc = "rebuild" /\ Moved(h, NoJob) /\ NoJob \in Jobs
        /\ graph' \in {graph, job[h].payload}
        /\ \/ promised' = promised
           \/ promised' = Newer(promised, job[h]) /\ graph' = job[h].payload
    BY <1>7, AnswerMoves DEF RefreshCommits, Awaits, RetrieveCall
  <2>2. /\ job'[h] = NoJob
        /\ \A g \in Handlers \ {h} : job'[g] = job[g] /\ job'[g].pc \notin Refreshing
    BY <2>1, JobAfter DEF Retrieved, Refreshing
  <2>3. \A g \in Handlers : job'[g].pc \notin Refreshing
    BY <2>2, NoJobFields DEF Refreshing
  <2>4. ASSUME NEW g \in Handlers, NEW c \in Components PROVE job'[g].wrote[c] <= tree'[c].version
    <3>1. job'[g].wrote[c] \in {job[g].wrote[c], 0}
      BY <2>2, NoJobFields
    <3> QED BY <2>1, <3>1, Versions DEF Retrieved
  <2>5. ASSUME NEW c \in Components
        PROVE  graph'[c].version <= tree'[c].version /\ promised'[c] <= graph'[c].version
    <3>1. /\ job[h].wrote[c] <= job[h].payload[c].version
          /\ graph[c].version <= job[h].payload[c].version
          /\ job[h].payload[c].version <= tree[c].version
          /\ promised[c] <= graph[c].version
          /\ graph[c].version <= tree[c].version
      BY <2>1 DEF Retrieved
    <3>2. Newer(promised, job[h])[c] \in {promised[c], job[h].wrote[c]}
      BY DEF Newer
    <3> QED BY <2>1, <3>1, <3>2, Versions
  <2> QED BY <2>3, <2>4, <2>5 DEF Retrieved, Refreshing
<1> QED BY <1>1, <1>2, <1>3, <1>4, <1>5, <1>6, <1>7 DEF Step

\* Retrieved is inductive: the lock keeps every other refresh from the graph between
\* a parse and its rebuild.
LEMMA RetrievedNext == Typed /\ Retrieved /\ [Next]_vars => Retrieved'
<1> SUFFICES ASSUME Typed, Retrieved, [Next]_vars PROVE Retrieved'
  OBVIOUS
<1>1. CASE UNCHANGED vars \/ Login
  <2>1. UNCHANGED <<tree, graph, promised, refreshInProgress, job>>
    BY <1>1 DEF vars, Login, parsed, ghosts
  <2> QED BY <2>1 DEF Retrieved
<1>2. CASE Crash
  <2>1. /\ job' = [h \in Handlers |-> NoJob]
        /\ UNCHANGED <<tree, graph, promised>>
    BY <1>2 DEF Crash
  <2>2. ASSUME NEW h \in Handlers, NEW k \in Components PROVE job'[h].wrote[k] <= tree'[k].version
    BY <2>1, NoJobFields, Versions
  <2>3. \A h \in Handlers : job'[h].pc \notin Refreshing
    BY <2>1, NoJobFields DEF Refreshing
  <2> QED BY <2>1, <2>2, <2>3 DEF Retrieved, Refreshing
<1> QED BY <1>1, <1>2, RetrievedStep DEF Next

\* A retrieve answered completed with its refresh has put what it fetched into the
\* graph for good (retrieveAndRefresh, retrieveSelectedMetadata and the lock of
\* IngestionService.refresh).
THEOREM CompletedStays == Spec => []CompletedRetrieveIsInGraph
<1>1. Retrieved => CompletedRetrieveIsInGraph
  BY DEF Retrieved, CompletedRetrieveIsInGraph
<1> QED BY <1>1, TypedInit, TypedNext, RetrievedInit, RetrievedNext, PTL DEF Spec

------------------------------------------------------------------------------
(* The session audit log.                                                  *)

Explains ==
    IF authAudit = <<>> THEN session = NoSession
    ELSE LET last == authAudit[Len(authAudit)]
         IN  /\ session.status = IF last.action \in {"connect", "switch"}
                                 THEN "connected" ELSE "disconnected"
             /\ last.action # "switch_failed" => session.activeAlias = last.alias

\* Between the two writes of a handler the session is already the one its entry
\* is about to explain.
AuditKept ==
    cutShort \/
        /\ ~authAuditTorn
        /\ turn = None => Explains
        /\ \A h \in Handlers : turn = h =>
              \/ job[h].pc = "session" /\ Explains
              \/ job[h].pc = "authAudit" /\ session = newSession(job[h])

\* At first there is neither a session nor an entry.
LEMMA AuditInit == Init => AuditKept
BY SessionAssumption DEF Init, AuditKept, Explains

\* The session write,
LEMMA AuditWrite ==
    ASSUME Typed, AuditKept, NEW h \in Handlers, WriteSessionState(h)
    PROVE  AuditKept'
<1> SUFFICES ASSUME ~cutShort PROVE AuditKept'
  BY DEF AuditKept, WriteSessionState, ghosts
<1>1. /\ turn = h /\ turn' = h /\ session' = newSession(job[h])
      /\ ~authAuditTorn' /\ Go(h, job[h], "authAudit")
  BY DEF AuditKept, WriteSessionState, Writes
<1>2. PICK i \in Jobs :
         /\ Moved(h, i) /\ i.pc = "authAudit" /\ i.op = job[h].op /\ i.alias = job[h].alias
         /\ i.readAlias = job[h].readAlias /\ i.denied = job[h].denied
  BY <1>1, GoMoves DEF PCs, Writing, Typed, TypeOK
<1>3. job'[h].pc = "authAudit" /\ newSession(job'[h]) = newSession(job[h])
  BY <1>2, JobAfter DEF newSession
<1> QED BY <1>1, <1>3, SessionAssumption DEF AuditKept

\* and the entry after it.
LEMMA AuditAppend ==
    ASSUME Typed, AuditKept, NEW h \in Handlers, AppendAuthAudit(h)
    PROVE  AuditKept'
<1> SUFFICES ASSUME ~cutShort PROVE AuditKept'
  BY DEF AuditKept, AppendAuthAudit, ghosts
<1> DEFINE entry == [action |-> auditAction(job[h]), alias |-> job[h].alias]
<1>1. turn = h /\ job[h].pc = "authAudit" /\ turn' = None /\ ~authAuditTorn'
  BY DEF AppendAuthAudit, Writes
<1>2. ~authAuditTorn /\ session = newSession(job[h])
  BY <1>1 DEF AuditKept
<1>3. authAudit' = Append(authAudit, entry) /\ session' = session
  BY <1>2 DEF AppendAuthAudit
<1>4. authAudit' # <<>> /\ authAudit'[Len(authAudit')] = entry
  <2>1. authAudit \in Seq(AuditEntries) /\ entry \in AuditEntries
    BY DEF Typed, TypeOK, auditAction, AuditEntries, AuditActions, Jobs
  <2> HIDE DEF entry
  <2> QED BY <1>3, <2>1
<1>5. /\ session.status = IF entry.action \in {"connect", "switch"}
                          THEN "connected" ELSE "disconnected"
      /\ entry.action # "switch_failed" => session.activeAlias = entry.alias
  <2>1. entry.action = auditAction(job[h]) /\ entry.alias = job[h].alias
    OBVIOUS
  <2> HIDE DEF entry
  <2>2. CASE job[h].op = "disconnect"
    BY <1>2, <2>1, <2>2 DEF newSession, auditAction
  <2>3. CASE job[h].op # "disconnect" /\ job[h].denied
    BY <1>2, <2>1, <2>3 DEF newSession, auditAction
  <2>4. CASE job[h].op # "disconnect" /\ ~job[h].denied
    BY <1>2, <2>1, <2>4 DEF newSession, auditAction
  <2> QED BY <2>2, <2>3, <2>4
<1>6. Explains'
  <2> HIDE DEF entry
  <2> QED BY <1>3, <1>4, <1>5 DEF Explains
<1> QED BY <1>1, <1>6, SessionAssumption DEF AuditKept

\* AuditKept is inductive: no other handler runs between the two writes.
LEMMA AuditNext == Typed /\ AuditKept /\ [Next]_vars => AuditKept'
<1> SUFFICES ASSUME Typed, AuditKept, [Next]_vars PROVE AuditKept'
  OBVIOUS
<1>1. CASE UNCHANGED vars \/ Login
  <2>1. UNCHANGED <<session, authAudit, authAuditTorn, turn, cutShort, job>>
    BY <1>1 DEF vars, Login, sessionFiles, ghosts
  <2> QED BY <2>1 DEF AuditKept, Explains, newSession
<1>2. CASE Crash
  <2>1. turn' = None /\ cutShort' = (cutShort \/ turn # None) /\ UNCHANGED authAudit
    BY <1>2 DEF Crash
  <2>2. CASE turn = None /\ ~cutShort
    <3>1. UNCHANGED <<session, authAuditTorn>>
      BY <1>2, <2>2, SessionAssumption DEF Crash, Writes
    <3> QED BY <2>1, <2>2, <3>1, SessionAssumption DEF AuditKept, Explains
  <2> QED BY <2>1, <2>2 DEF AuditKept
<1>3. ASSUME NEW h \in Handlers, turn = None,
             UNCHANGED <<session, authAudit, authAuditTorn, cutShort>>,
             turn' = None \/ (turn' = h /\ \E j \in Jobs : Go(h, j, "session"))
      PROVE  AuditKept'
  <2>1. Explains' <=> Explains
    BY <1>3 DEF Explains
  <2>2. CASE turn' = None
    BY <1>3, <2>1, <2>2, SessionAssumption DEF AuditKept
  <2>3. CASE turn' = h /\ \E j \in Jobs : Go(h, j, "session")
    <3>1. job'[h].pc = "session"
      BY <2>3, GoMoves, JobAfter DEF PCs, Writing
    <3> QED BY <1>3, <2>1, <2>3, <3>1, SessionAssumption DEF AuditKept
  <2> QED BY <1>3, <2>2, <2>3
<1>4. ASSUME NEW h \in Handlers, Start(h) \/ Step(h) PROVE AuditKept'
  <2>0. job[h] \in Jobs
    BY DEF Typed, TypeOK
  <2>1. CASE WriteSessionState(h)
    BY <2>1, AuditWrite
  <2>2. CASE AppendAuthAudit(h)
    BY <2>2, AuditAppend
  <2>3. CASE RequestAlias(h) \/ RequestRetrieve(h) \/ RequestSelected(h) \/ RequestCatalog(h)
    <3>1. turn = None /\ UNCHANGED <<session, authAudit, authAuditTorn, cutShort>> /\ turn' = None
      BY <2>3 DEF RequestAlias, RequestRetrieve, RequestSelected, RequestCatalog, Request,
         Awaits, sessionFiles, ghosts
    <3> QED BY <1>3, <3>1
  <2>4. CASE RequestDisconnect(h)
    <3>1. turn = None /\ turn' = h /\ UNCHANGED <<session, authAudit, authAuditTorn, cutShort>>
      BY <2>4 DEF RequestDisconnect, Request, Awaits, sessionFiles, ghosts
    <3> DEFINE j == [NoJob EXCEPT !.op = "disconnect", !.alias = disconnectedAlias]
    <3>2. j \in Jobs
      BY NoJobType, ActiveAliasType DEF Jobs, AllOperations, disconnectedAlias
    <3>3. Go(h, j, "session")
      BY <2>4 DEF RequestDisconnect
    <3> HIDE DEF j
    <3> QED BY <1>3, <3>1, <3>2, <3>3
  <2>5. CASE DisplayOrg(h)
    <3> DEFINE refused == [job[h] EXCEPT !.denied = TRUE]
    <3>1. turn = None /\ UNCHANGED <<session, authAudit, authAuditTorn, cutShort>>
      BY <2>5 DEF DisplayOrg, Awaits, SessionCall, sessionFiles
    <3>3. turn' = None \/ (turn' = h /\ Go(h, refused, "session"))
      BY <2>5, <3>1 DEF DisplayOrg
    <3>2. refused \in Jobs
      BY <2>0 DEF Jobs
    <3> HIDE DEF refused
    <3> QED BY <1>3, <3>1, <3>2, <3>3
  <2>6. CASE AuthCci(h) \/ AuthInfo(h) \/ AuthImport(h)
    <3>1. turn = None /\ UNCHANGED <<session, authAudit, authAuditTorn, cutShort>>
      BY <2>6 DEF AuthCci, AuthInfo, AuthImport, Awaits, SessionCall, sessionFiles
    <3>2. turn' = None \/ (turn' = h /\ Go(h, job[h], "session"))
      BY <2>6, <3>1 DEF AuthCci, AuthInfo, AuthImport, Authenticated
    <3> QED BY <1>3, <2>0, <3>1, <3>2
  <2>7. CASE \/ EnsureSfInstalled(h) \/ EnsureCciInstalled(h) \/ AuthDisplay(h)
             \/ CciOrgInfo(h) \/ ImportAliasIntoCci(h) \/ Recheck(h)
    <3>1. turn = None /\ UNCHANGED <<session, authAudit, authAuditTorn, cutShort>> /\ turn' = None
      BY <2>7 DEF EnsureSfInstalled, EnsureCciInstalled, AuthDisplay, CciOrgInfo,
         ImportAliasIntoCci, Recheck, Awaits, SessionCall, sessionFiles, ghosts
    <3> QED BY <1>3, <3>1
  <2>8. CASE \/ FetchFile(h) \/ FetchExits(h) \/ FetchFails(h)
             \/ RefreshStarts(h) \/ RefreshParses(h) \/ RefreshCommits(h)
    <3>1. turn = None /\ UNCHANGED <<session, authAudit, authAuditTorn, cutShort>> /\ turn' = None
      BY <2>8 DEF FetchFile, FetchExits, FetchFails, RefreshStarts, RefreshParses,
         RefreshCommits, Awaits, RetrieveCall, sessionFiles
    <3> QED BY <1>3, <3>1
  <2>9. CASE LiveSfInstalled(h) \/ ListMetadataTypes(h) \/ ListMetadata(h)
    <3>1. turn = None /\ UNCHANGED <<session, authAudit, authAuditTorn, cutShort>> /\ turn' = None
      BY <2>9 DEF LiveSfInstalled, ListMetadataTypes, ListMetadata, Awaits, DiscoveryCall,
         sessionFiles, ghosts
    <3> QED BY <1>3, <3>1
  <2> QED BY <1>4, <2>1, <2>2, <2>3, <2>4, <2>5, <2>6, <2>7, <2>8, <2>9 DEF Start, Step
<1> QED BY <1>1, <1>2, <1>4 DEF Next

\* Unless a crash hit a handler between its two writes, the last audit entry
\* explains the session (OrgService.writeSessionState, appendAuthAudit).
THEOREM AuditExplains == Spec => []AuditExplainsSession
<1>1. Typed /\ AuditKept => AuditExplainsSession
  BY DEF AuditKept, Explains, AuditExplainsSession
<1> QED BY <1>1, TypedInit, TypedNext, AuditInit, AuditNext, PTL DEF Spec

------------------------------------------------------------------------------
(* The catalogue cache.                                                    *)

\* An index that lists org a alone.
ListsOrg(index, a) ==
    /\ index.catalog = OrgTypes[a]
    /\ \A t \in DOMAIN index.members : index.members[t] \subseteq {a}

\* What a handler lists for the cache is, so far, the org it set out to list.
CacheKept ==
    /\ CacheIsOneOrgs
    /\ \A h \in Handlers :
          job[h].pc = "members" /\ job[h].cacheable => ListsOrg(job[h].index, job[h].readAlias)

\* An older version's cache is not taken for a current one.
LEMMA CacheInit == Init => CacheKept
<1> SUFFICES ASSUME Init PROVE CacheKept
  OBVIOUS
<1>1. PICK version \in {"none", "old"} :
         liveCache = [search \in BOOLEAN |->
             IF search \/ version = "none" THEN NoCache
             ELSE [version |-> version, index |-> FamilyIndex(OrgTypes[Configured])]]
  BY DEF Init
<1>2. \A search \in BOOLEAN : liveCache[search].version # "current"
  BY <1>1 DEF NoCache
<1> QED BY <1>2, NoJobFields DEF Init, CacheKept, CacheIsOneOrgs

\* A step that leaves the cache alone, to where no members are listed.
LEMMA CacheKeeps ==
    ASSUME Typed, CacheKept, NEW h \in Handlers, NEW i \in Jobs, Moved(h, i),
           UNCHANGED liveCache,
           i.pc = "members" /\ i.cacheable => ListsOrg(i.index, i.readAlias)
    PROVE  CacheKept'
<1>1. job'[h] = i /\ \A g \in Handlers \ {h} : job'[g] = job[g]
  BY JobAfter
<1>2. CacheIsOneOrgs'
  BY DEF CacheKept, CacheIsOneOrgs
<1> QED BY <1>1, <1>2 DEF CacheKept

\* The answer about one family keeps the list that of one org.
LEMMA ListsOrgKept ==
    ASSUME NEW index \in Indexes, NEW t \in Types, NEW a \in Aliases, ListsOrg(index, a)
    PROVE  ListsOrg(WithMembers(index, t, a), a)
<1> DEFINE f == [u \in DOMAIN index.members \cup {t} |->
                    IF u = t THEN (IF t \in OrgTypes[a] THEN {a} ELSE {})
                             ELSE index.members[u]]
<1>1. WithMembers(index, t, a) = [index EXCEPT !.members = f]
  BY DEF WithMembers
<1>2. \A u \in DOMAIN f : f[u] \subseteq {a}
  BY DEF ListsOrg
<1>3. /\ WithMembers(index, t, a).catalog = index.catalog
      /\ WithMembers(index, t, a).members = f
  <2> HIDE DEF f
  <2> QED BY <1>1 DEF Indexes
<1> HIDE DEF f
<1> QED BY <1>2, <1>3 DEF ListsOrg

\* The answers about the families, and the cache written after the last.
LEMMA CacheListing ==
    ASSUME Typed, CacheKept, NEW h \in Handlers, ListMetadata(h)
    PROVE  CacheKept'
<1>0. job[h] \in Jobs /\ job \in [Handlers -> Jobs] /\ job[h].pc = "members"
  BY DEF Typed, TypeOK, ListMetadata, Awaits
<1> DEFINE listed(index, t) == [job[h] EXCEPT !.index = index, !.unlisted = @ \ {t}]
           written(index) == [liveCache EXCEPT ![job[h].search] =
                                 [version |-> "current", index |-> index]]
<1>1. PICK t \in job[h].unlisted : \E index \in {Discovered(job[h], t), job[h].index} :
         \/ /\ liveCache' = liveCache \/ (job[h].cacheable /\ liveCache' = written(index))
            /\ WithLiveIndex(h, job[h], index)
         \/ Go(h, listed(index, t), "members") /\ UNCHANGED liveCache
  <2>1. PICK t \in job[h].unlisted : \E index \in {Discovered(job[h], t), job[h].index} :
           IF job[h].unlisted = {t}
           THEN /\ liveCache' = IF job[h].cacheable THEN written(index) ELSE liveCache
                /\ WithLiveIndex(h, job[h], index)
           ELSE Go(h, listed(index, t), "members") /\ UNCHANGED caches
    BY DEF ListMetadata
  <2>2. PICK index \in {Discovered(job[h], t), job[h].index} :
           IF job[h].unlisted = {t}
           THEN /\ liveCache' = IF job[h].cacheable THEN written(index) ELSE liveCache
                /\ WithLiveIndex(h, job[h], index)
           ELSE Go(h, listed(index, t), "members") /\ UNCHANGED caches
    BY <2>1
  <2>3. \/ /\ liveCache' = liveCache \/ (job[h].cacheable /\ liveCache' = written(index))
           /\ WithLiveIndex(h, job[h], index)
        \/ Go(h, listed(index, t), "members") /\ UNCHANGED liveCache
    <3> HIDE DEF listed, written
    <3> QED BY <2>2 DEF caches
  <2> QED BY <2>3
<1>2. PICK index \in {Discovered(job[h], t), job[h].index} :
         \/ /\ liveCache' = liveCache \/ (job[h].cacheable /\ liveCache' = written(index))
            /\ WithLiveIndex(h, job[h], index)
         \/ Go(h, listed(index, t), "members") /\ UNCHANGED liveCache
  BY <1>1
<1>3. t \in Types /\ job[h].readAlias \in Aliases /\ job[h].index \in Indexes
      /\ job[h].search \in BOOLEAN
  BY <1>0 DEF Jobs
<1>4. index \in Indexes /\ (job[h].cacheable => ListsOrg(index, job[h].readAlias))
  BY <1>0, <1>2, <1>3, WithMembersType, ListsOrgKept DEF Discovered, CacheKept
<1>5. CASE Go(h, listed(index, t), "members") /\ UNCHANGED liveCache
  <2>1. /\ listed(index, t) \in Jobs /\ listed(index, t).index = index
        /\ listed(index, t).readAlias = job[h].readAlias
        /\ listed(index, t).cacheable = job[h].cacheable
    BY <1>0, <1>4 DEF Jobs
  <2> HIDE DEF listed
  <2> QED BY <1>4, <1>5, <2>1, GoMoves, CacheKeeps DEF PCs, Waiting
<1>6. CASE /\ liveCache' = liveCache \/ (job[h].cacheable /\ liveCache' = written(index))
           /\ WithLiveIndex(h, job[h], index)
  <2>1. PICK i \in Jobs : Moved(h, i) /\ i.pc # "members"
    BY <1>0, <1>6, LiveContinues, ContinuesQuiet DEF Quiet
  <2>2. CASE liveCache' = liveCache
    BY <2>1, <2>2, CacheKeeps
  <2>3. CASE job[h].cacheable /\ liveCache' = written(index)
    <3>1. job'[h] = i /\ \A g \in Handlers \ {h} : job'[g] = job[g]
      BY <2>1, JobAfter
    <3>2. ASSUME NEW s \in BOOLEAN
          PROVE  liveCache'[s] \in {liveCache[s], [version |-> "current", index |-> index]}
      BY <1>3, <2>3 DEF Typed, TypeOK
    <3>3. ASSUME NEW s \in BOOLEAN, liveCache'[s].version = "current"
          PROVE  \E a \in Aliases : ListsOrg(liveCache'[s].index, a)
      <4>1. CASE liveCache'[s] = liveCache[s]
        BY <3>3, <4>1 DEF CacheKept, CacheIsOneOrgs, ListsOrg
      <4>2. CASE liveCache'[s] = [version |-> "current", index |-> index]
        BY <1>3, <1>4, <2>3, <4>2
      <4> QED BY <3>2, <4>1, <4>2
    <3>4. CacheIsOneOrgs'
      BY <3>3 DEF CacheIsOneOrgs, ListsOrg
    <3> QED BY <2>1, <3>1, <3>4 DEF CacheKept
  <2> QED BY <1>6, <2>2, <2>3
<1> QED BY <1>2, <1>5, <1>6

\* Each step of a request.
LEMMA CacheStep ==
    ASSUME Typed, CacheKept, NEW h \in Handlers, Start(h) \/ Step(h)
    PROVE  CacheKept'
<1>0. job[h] \in Jobs /\ job \in [Handlers -> Jobs]
  BY DEF Typed, TypeOK
<1>1. CASE Start(h)
  <2>1. UNCHANGED liveCache
    BY <1>1 DEF Start, RequestAlias, RequestRetrieve, RequestSelected, RequestCatalog,
       RequestDisconnect, Request
  <2> QED BY <1>1, <2>1, StartQuiet, CacheKeeps DEF Quiet
<1>2. CASE \/ EnsureSfInstalled(h) \/ EnsureCciInstalled(h) \/ DisplayOrg(h)
           \/ AuthDisplay(h) \/ AuthCci(h) \/ AuthInfo(h) \/ AuthImport(h)
           \/ CciOrgInfo(h) \/ ImportAliasIntoCci(h) \/ Recheck(h)
           \/ WriteSessionState(h) \/ AppendAuthAudit(h)
           \/ FetchExits(h) \/ FetchFails(h) \/ LiveSfInstalled(h)
  <2>1. UNCHANGED liveCache
    BY <1>2 DEF EnsureSfInstalled, EnsureCciInstalled, DisplayOrg, AuthDisplay, AuthCci, AuthInfo,
       AuthImport, CciOrgInfo, ImportAliasIntoCci, Recheck, WriteSessionState, AppendAuthAudit,
       FetchExits, FetchFails, LiveSfInstalled, SessionCall, RetrieveCall, DiscoveryCall, caches
  <2> QED BY <1>2, <2>1, CallQuiet, CacheKeeps DEF Quiet
<1>3. CASE FetchFile(h) \/ RefreshStarts(h) \/ RefreshParses(h) \/ RefreshCommits(h)
  <2>1. UNCHANGED liveCache
    BY <1>3 DEF FetchFile, RefreshStarts, RefreshParses, RefreshCommits, RetrieveCall, caches
  <2>2. PICK i \in Jobs : Moved(h, i) /\ i.pc # "members"
    BY <1>3, RefreshMoves
  <2> QED BY <2>1, <2>2, CacheKeeps
<1>4. CASE ListMetadataTypes(h)
  <2>1. UNCHANGED liveCache
    BY <1>4 DEF ListMetadataTypes, DiscoveryCall
  <2>2. CASE WithLiveIndex(h, job[h], CachedIndex(job[h]))
    BY <1>0, <2>1, <2>2, LiveContinues, ContinuesQuiet, CacheKeeps DEF Quiet
  <2> DEFINE seeded(families, cacheable) ==
         [job[h] EXCEPT !.index = FamilyIndex(families), !.cacheable = cacheable,
                        !.unlisted = SeedsFor(job[h].search)]
  <2>3. SeedsFor(job[h].search) \subseteq Types /\ job[h].readAlias \in Aliases
    BY <1>0, CatalogAssumption DEF SeedsFor, Jobs
  <2>4. ASSUME NEW families \in SUBSET Types, NEW cacheable \in BOOLEAN
        PROVE  /\ seeded(families, cacheable) \in Jobs
               /\ seeded(families, cacheable).readAlias = job[h].readAlias
               /\ seeded(families, cacheable).index = FamilyIndex(families)
               /\ seeded(families, cacheable).cacheable = cacheable
    BY <1>0, <2>3, IndexTypes DEF Jobs
  <2>5. \/ Go(h, seeded(OrgTypes[job[h].readAlias], TRUE), "members")
        \/ Go(h, seeded(SeedsFor(job[h].search), FALSE), "members")
        \/ WithLiveIndex(h, job[h], CachedIndex(job[h]))
    BY <1>4 DEF ListMetadataTypes
  <2> HIDE DEF seeded
  <2>6. CASE Go(h, seeded(OrgTypes[job[h].readAlias], TRUE), "members")
    <3>1. OrgTypes[job[h].readAlias] \in SUBSET Types
      BY <2>3, CatalogAssumption
    <3>2. ListsOrg(FamilyIndex(OrgTypes[job[h].readAlias]), job[h].readAlias)
      BY DEF ListsOrg, FamilyIndex
    <3> DEFINE j == seeded(OrgTypes[job[h].readAlias], TRUE)
    <3>3. /\ j \in Jobs /\ j.readAlias = job[h].readAlias
          /\ j.index = FamilyIndex(OrgTypes[job[h].readAlias])
      BY <2>4, <3>1
    <3> HIDE DEF j
    <3>4. PICK i \in Jobs : Moved(h, i) /\ i.readAlias = j.readAlias /\ i.index = j.index
      <4>1. Go(h, j, "members")
        BY <2>6 DEF j
      <4> QED BY <3>3, <4>1, GoMoves DEF PCs, Waiting
    <3> QED BY <2>1, <3>2, <3>3, <3>4, CacheKeeps
  <2>7. CASE Go(h, seeded(SeedsFor(job[h].search), FALSE), "members")
    <3> DEFINE j == seeded(SeedsFor(job[h].search), FALSE)
    <3>2. j \in Jobs /\ j.cacheable = FALSE
      BY <2>3, <2>4
    <3> HIDE DEF j
    <3>1. PICK i \in Jobs : Moved(h, i) /\ ~i.cacheable
      <4>1. Go(h, j, "members")
        BY <2>7 DEF j
      <4> QED BY <3>2, <4>1, GoMoves DEF PCs, Waiting
    <3> QED BY <2>1, <3>1, CacheKeeps
  <2> QED BY <2>2, <2>5, <2>6, <2>7
<1>5. CASE ListMetadata(h)
  BY <1>5, CacheListing
<1> QED BY <1>1, <1>2, <1>3, <1>4, <1>5 DEF Step

\* CacheKept is inductive: the alias listed is the one read before the first call.
LEMMA CacheNext == Typed /\ CacheKept /\ [Next]_vars => CacheKept'
<1> SUFFICES ASSUME Typed, CacheKept, [Next]_vars PROVE CacheKept'
  OBVIOUS
<1>1. CASE UNCHANGED vars \/ Login
  <2>1. UNCHANGED <<liveCache, job>>
    BY <1>1 DEF vars, Login, caches
  <2> QED BY <2>1 DEF CacheKept, CacheIsOneOrgs
<1>2. CASE Crash
  <2>1. job' = [h \in Handlers |-> NoJob] /\ UNCHANGED liveCache
    BY <1>2 DEF Crash, caches
  <2> QED BY <2>1, NoJobFields DEF CacheKept, CacheIsOneOrgs
<1> QED BY <1>1, <1>2, CacheStep DEF Next

\* A cached catalogue is the listing of one org, although the alias may be switched
\* between the calls that list it (loadLiveMetadataIndex).
THEOREM CachedOrg == Spec => []CacheIsOneOrgs
<1>1. CacheKept => CacheIsOneOrgs
  BY DEF CacheKept
<1> QED BY <1>1, TypedInit, TypedNext, CacheInit, CacheNext, PTL DEF Spec
===============================================================================
