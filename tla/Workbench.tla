------------------------------ MODULE Workbench ------------------------------
(***************************************************************************)
(* Connect, Org Browser and Refresh & Build of the web client: one page    *)
(* whose handlers send a request, keep what they read when they were       *)
(* clicked, and write state when the answer arrives.  Answers arrive in    *)
(* any order.  One flag, loading, disables most buttons; it is set by      *)
(* whatever starts and cleared by whatever ends first, and the rows of the *)
(* alias list ignore it.  The API is kept to what its answers tell (its    *)
(* own steps are OrgSession's and Refresh's): the session, the retrieves   *)
(* whose files reached the project, in order, and the snapshot its state   *)
(* file names.  A snapshot is named by the number of retrieves it was      *)
(* built after.                                                            *)
(***************************************************************************)
EXTENDS RetrieveLineage, Sequences

CONSTANTS Aliases, Families, Members, Slots

VARIABLES server,   \* the API: session, retrieves and snapshot
          org,      \* useConnectWorkspace
          browser,  \* useBrowserWorkspace
          work,     \* useRefreshWorkspace
          calls,    \* the requests under way, None in a free slot
          loading,  \* useSecondaryQueryRunner
          bounds    \* clicks in Connect and on metadata, failures and reloads left to the behaviour

vars == <<server, org, browser, work, calls, loading, bounds>>

Selections == SUBSET (Families \X (Members \cup {Whole}))
Sessions   == [alias : Aliases, connected : BOOLEAN]
Retrieves  == [alias : Aliases, metadataArgs : Selections]
Handoffs   == [completedAt : Nat, alias : Aliases, metadataArgs : Selections]
Snapshots  == Nat \cup {None}

------------------------------------------------------------------------------
(* What the page derives.                                                  *)

activeAlias ==
    CASE org.session # None -> org.session.alias
      [] org.session = None /\ org.status # None -> org.status.alias
      [] OTHER -> org.orgAlias

sessionStatus ==
    LET known == {s \in {org.session} : s # None} \cup {s \in {org.status} : org.session = None /\ s # None}
    IN  IF ~org.runtimeUnavailable /\ \E s \in known : s.connected THEN "connected" ELSE "other"

\* The view of Refresh & Build; expected is activeAlias on the page, and
\* orgAlias in the guards of the hook.
View(expected) ==
    [handoff |-> browser.handoff, selections |-> browser.selections, expectedAlias |-> expected,
     lastRefreshRun |-> work.lastRefreshRun, lastDiffRun |-> work.lastDiffRun,
     lastOrgRetrieveRun |-> work.lastOrgRetrieveRun, orgRunRetrieve |-> work.orgRunRetrieve,
     fromSnapshot |-> work.fromSnapshot, toSnapshot |-> work.toSnapshot]

Page == View(activeAlias)
Hook == View(org.orgAlias)

\* The catalog is kept as the families it blocks: none before it is loaded.
isCatalogTypeRetrievable(type) == type \notin browser.blocked

------------------------------------------------------------------------------
(* Requests.                                                               *)

Free == {s \in Slots : calls[s] = None}

\* What a handler reads when it is clicked and uses when it is answered.
Closure ==
    [handoff |-> browser.handoff, selections |-> browser.selections, orgAlias |-> org.orgAlias,
     orgRunRetrieve |-> work.orgRunRetrieve,
     snapshotId |-> IF work.lastRefreshRun = None THEN None ELSE work.lastRefreshRun.snapshotId]

\* Every read of a request is one part: an overview has two that matter.
Call(op, alias, selections) ==
    [op |-> op, alias |-> alias, selections |-> selections, first |-> None,
     at |-> IF op \in {"refresh", "rebaseline", "diff", "pipeline", "authPipeline"} THEN Closure ELSE None,
     left |-> IF op = "overview" THEN {"session", "status"} ELSE {op},
     result |-> "ok", reply |-> None, status |-> None, gone |-> FALSE]

Send(c) ==
    /\ \E s \in Free : calls' = [calls EXCEPT ![s] = c]
    /\ loading' = TRUE

Clicked(area) == bounds[area] > 0 /\ bounds' = [bounds EXCEPT ![area] = @ - 1]

\* A button the page disables while loading.
Button(area) == ~loading /\ Clicked(area)

\* A handler that ends before it sends anything.
Refuse == loading' = FALSE /\ UNCHANGED calls

------------------------------------------------------------------------------
(* Connect.                                                                *)

\* connectExistingAlias and switchAlias, on a row or on the selected alias
\* (restoreLastSession is the former), inspectAlias, and bridgeAlias.
AliasAction(op, alias) ==
    /\ Send(Call(op, alias, {}))
    /\ org' = IF op = "overview" THEN [org EXCEPT !.orgAlias = alias] ELSE org

RowAction == \E op \in {"connect", "switch", "overview"}, a \in Aliases : Clicked("connect") /\ AliasAction(op, a)

SelectedAction ==
    \E op \in {"bridge", "disconnect", "session", "status", "preflight"} :
        Button("connect") /\ Send(Call(op, org.orgAlias, {})) /\ UNCHANGED org

selectAlias == \E a \in Aliases \cup {None} : Clicked("connect") /\ org' = [org EXCEPT !.orgAlias = a]

OrgStep ==
    /\ \/ RowAction
       \/ SelectedAction
       \/ selectAlias /\ UNCHANGED <<calls, loading>>
    /\ UNCHANGED <<server, browser, work>>

------------------------------------------------------------------------------
(* Org Browser.  The rows of a family taken whole are disabled.            *)

setTypeSelected(type) ==
    \/ /\ isCatalogTypeRetrievable(type)
       /\ browser' = [browser EXCEPT !.cart = {s \in @ : s[1] # type} \cup {<<type, Whole>>}]
    \/ browser' = [browser EXCEPT !.cart = {s \in @ : s[1] # type}]

setMembersSelected(type, members) ==
    /\ <<type, Whole>> \notin browser.cart
    /\ \/ /\ isCatalogTypeRetrievable(type)
          /\ browser' = [browser EXCEPT !.cart = @ \cup ({type} \X members)]
       \/ browser' = [browser EXCEPT !.cart = @ \ ({type} \X members)]

Cart ==
    /\ \/ \E t \in Families : setTypeSelected(t)
       \/ \E t \in Families : \E ms \in SUBSET browser.members[t] : setMembersSelected(t, ms)
       \/ \E s \in browser.cart : browser' = [browser EXCEPT !.cart = @ \ {s}]
       \/ browser' = [browser EXCEPT !.cart = {}]
    /\ browser' # browser
    /\ UNCHANGED <<server, org, work, calls, loading, bounds>>

\* The effect of useBrowserWorkspace: a connected alias the catalog was not
\* asked for yet.  Effects run before the next event.
CatalogDue == sessionStatus = "connected" /\ activeAlias # browser.lastCatalogAlias

CatalogForAlias ==
    /\ CatalogDue
    /\ Send(Call("catalog", activeAlias, {}))
    /\ browser' = [browser EXCEPT !.lastCatalogAlias = activeAlias]
    /\ UNCHANGED <<server, org, work, bounds>>

refreshTypes == Button("metadata") /\ Send(Call("catalog", None, {})) /\ UNCHANGED browser

loadMembers(type) == Button("metadata") /\ Send(Call("members", None, {<<type, Whole>>})) /\ UNCHANGED browser

retrieveSelected ==
    /\ Button("metadata") /\ browser.cart # {}
    /\ IF \E s \in browser.cart : ~isCatalogTypeRetrievable(s[1])
       THEN Refuse /\ browser' = [browser EXCEPT !.handoff = None, !.selections = {}]
       ELSE Send(Call("retrieve", None, browser.cart)) /\ UNCHANGED browser

BrowserStep ==
    /\ refreshTypes \/ retrieveSelected \/ \E t \in Families : loadMembers(t)
    /\ UNCHANGED <<server, org, work>>

------------------------------------------------------------------------------
(* Refresh & Build.                                                        *)

executeRefresh(rebaseline) ==
    /\ Button("metadata") /\ hasReadyHandoff(Page) /\ (rebaseline => work.refreshNeedsRebaseline)
    /\ IF hasReadyHandoff(Hook)
       THEN Send(Call(IF rebaseline THEN "rebaseline" ELSE "refresh", None, {})) /\ UNCHANGED work
       ELSE Refuse /\ work' = [work EXCEPT !.lastRefreshRun = None, !.refreshNeedsRebaseline = FALSE]

runDiff ==
    /\ Button("metadata") /\ assessRefreshRunLineage(Page) = "current" /\ ValidPair(Page)
    /\ IF assessRefreshRunLineage(Hook) = "current"
       THEN Send(Call("diff", None, {})) /\ UNCHANGED work
       ELSE Refuse /\ work' = [work EXCEPT !.lastDiffRun = None]

runOrgRetrieveNow ==
    /\ Button("metadata") /\ (work.orgRunRetrieve => hasReadyHandoff(Page))
    /\ IF work.orgRunRetrieve => hasReadyHandoff(Hook)
       THEN /\ \E op \in {"authPipeline", "pipeline"} :
                  Send(Call(op, org.orgAlias, IF work.orgRunRetrieve THEN browser.selections ELSE {}))
            /\ UNCHANGED work
       ELSE Refuse /\ work' = [work EXCEPT !.lastOrgRetrieveRun = None]

\* The two snapshot fields and the Run Retrieve switch.
EditFields ==
    /\ Clicked("metadata")
    /\ \/ work' = [work EXCEPT !.orgRunRetrieve = ~@]
       \/ \E s \in {None} \cup 0 .. Len(server.retrieves) :
             work' \in {[work EXCEPT !.fromSnapshot = s], [work EXCEPT !.toSnapshot = s]}
    /\ UNCHANGED <<calls, loading>>

RefreshStep ==
    /\ runDiff \/ runOrgRetrieveNow \/ EditFields \/ \E b \in BOOLEAN : executeRefresh(b)
    /\ UNCHANGED <<server, org, browser>>

------------------------------------------------------------------------------
(* The API.                                                                *)

Connected(s, alias) == [s EXCEPT !.session = [alias |-> alias, connected |-> TRUE]]
Disconnected(s)     == [s EXCEPT !.session.connected = FALSE]
Retrieved(s, alias, selections) ==
    [s EXCEPT !.retrieves = Append(@, [alias |-> alias, metadataArgs |-> selections])]

Built(s) == [s EXCEPT !.snapshot = Len(s.retrieves)]

\* The states a request takes the API through, the last on success.
Stages(c) ==
    LET alias == IF c.alias = None THEN server.session.alias ELSE c.alias
        authed == IF c.op = "authPipeline" THEN Connected(server, alias) ELSE server
        fetched == IF c.selections = {} THEN authed ELSE Retrieved(authed, alias, c.selections)
    IN  CASE c.op \in {"connect", "switch"} -> <<server, Connected(server, alias)>>
          [] c.op = "disconnect" -> <<server, Disconnected(server)>>
          [] c.op = "retrieve" ->
                LET files == Retrieved(server, alias, c.selections) IN <<server, files, Built(files)>>
          [] c.op \in {"authPipeline", "pipeline"} -> <<server, authed, fetched, Built(fetched)>>
          [] c.op \in {"refresh", "rebaseline"} -> <<server, Built(server)>>
          [] OTHER -> <<server>>

\* Where a request may end well. The stage before the rebuild will do: a retrieve
\* without autoRefresh, and an incremental refresh that finds the fingerprint of its
\* sources in the state file.
Ends(c) ==
    LET last == Len(Stages(c))
    IN  IF c.op \in {"retrieve", "authPipeline", "pipeline", "refresh", "rebaseline"}
        THEN {last - 1, last} ELSE {last}

\* What an answer carries: the session, the last retrieve, or the snapshot of the
\* state file, which a refresh that was skipped found there. History: refreshedAt,
\* the retrieves there were when a refresh was answered.
Payload(c, part, after, skipped) ==
    CASE part \in {"connect", "switch", "disconnect", "session", "status"} -> after.session
      [] part = "retrieve" ->
            [completedAt |-> Len(after.retrieves), alias |-> after.session.alias,
             metadataArgs |-> c.selections]
      [] part \in {"refresh", "rebaseline"} ->
            [snapshotId |-> after.snapshot, skipped |-> skipped, refreshedAt |-> Len(after.retrieves)]
      [] part \in {"authPipeline", "pipeline"} ->
            [alias |-> IF c.alias = None THEN after.session.alias ELSE c.alias,
             metadataArgs |-> c.selections, completedAt |-> Len(after.retrieves)]
      [] OTHER -> None

\* What it may carry: a catalog and a list of members are whatever the org has.
Replies(c, part, after, skipped) ==
    CASE part = "catalog" -> SUBSET Families
      [] part = "members" -> SUBSET Members
      [] OTHER -> {Payload(c, part, after, skipped)}

\* A request one part of which is answered: its first failure stays, unless
\* the API is down afterwards.
Done(c, part, result, payload) ==
    [c EXCEPT !.left = @ \ {part},
              !.result = IF @ = "ok" \/ result = "down" THEN result ELSE @,
              !.reply  = IF part # "status" THEN payload ELSE @,
              !.status = IF part = "status" THEN payload ELSE @]

\* The API takes a part of a request, or the request fails on the way: refused,
\* or down when no answer comes.  A refused switch ends the connection.
Serve(s) ==
    LET c == calls[s]
    IN  /\ c # None
        /\ \E part \in c.left :
             \/ /\ \E end \in Ends(c) :
                      /\ server' = Stages(c)[end]
                      /\ \E payload \in Replies(c, part, server', end # Len(Stages(c))) :
                            calls' = [calls EXCEPT ![s] = Done(c, part, "ok", payload)]
                /\ UNCHANGED bounds
             \/ /\ bounds.failures > 0
                /\ bounds' = [bounds EXCEPT !.failures = @ - 1]
                /\ \E result \in {"refused", "down"}, i \in DOMAIN Stages(c) :
                      /\ server' = IF c.op = "switch" /\ result = "refused"
                                   THEN Disconnected(server) ELSE Stages(c)[i]
                      /\ calls' = [calls EXCEPT ![s] = Done(c, part, result, None)]
        /\ UNCHANGED <<org, browser, work, loading>>

------------------------------------------------------------------------------
(* Answers.                                                                *)

\* Nothing is under way any more: the flag is cleared whoever else waits.
Finished(s) == calls' = [calls EXCEPT ![s] = None] /\ loading' = FALSE

\* runAction's verdict on the runtime: a refusal may or may not name it.
Unavailable(result) ==
    CASE result = "ok" -> {FALSE} [] result = "refused" -> BOOLEAN [] OTHER -> {TRUE}

\* A refused request's body is read as a payload without the fields.
OrgAnswer(s) ==
    LET c == calls[s]
        heard == c.result # "down"
        verdict == IF c.first = None \/ ~heard THEN c.result ELSE c.first
    IN  /\ c.op \in {"connect", "switch", "bridge", "disconnect", "overview", "session", "status", "preflight"}
        /\ \E u \in Unavailable(verdict) :
             org' = [org EXCEPT
                 !.session = IF heard /\ c.op \notin {"bridge", "status", "preflight"} THEN c.reply ELSE @,
                 !.status  = IF heard /\ c.op \in {"overview", "status"} THEN c.status ELSE @,
                 !.orgAlias = IF heard /\ c.op \in {"connect", "switch", "bridge", "preflight", "overview"}
                                       /\ ~(c.op = "overview" /\ c.first # None)
                              THEN c.alias ELSE @,
                 !.runtimeUnavailable = u]
        /\ IF heard /\ c.op \in {"connect", "switch", "bridge", "disconnect"}
           THEN /\ calls' = [calls EXCEPT ![s] = [Call("overview", c.alias, {}) EXCEPT !.first = c.result]]
                /\ UNCHANGED loading
           ELSE Finished(s)
        /\ UNCHANGED <<browser, work>>

\* Mutation: the cart as it is when the answer arrives.
retrieved_Current(c) == IF c.result = "ok" THEN <<c.reply, browser.cart>> ELSE <<None, {}>>

\* The handoff and the selections the answer leaves.
retrieved(c) == IF c.result = "ok" THEN <<c.reply, c.selections>> ELSE <<None, {}>>

BrowserAnswer(s) ==
    LET c == calls[s]
    IN  /\ c.op \in {"catalog", "members", "retrieve"}
        /\ browser' = CASE c.op = "retrieve" ->
                              [browser EXCEPT !.handoff = retrieved(c)[1], !.selections = retrieved(c)[2]]
                        [] c.op = "catalog" /\ c.result = "ok" -> [browser EXCEPT !.blocked = c.reply]
                        [] c.op = "members" /\ c.result = "ok" ->
                              [browser EXCEPT !.members = [t \in Families |->
                                  IF <<t, Whole>> \in c.selections THEN c.reply ELSE @[t]]]
                        [] OTHER -> browser
        /\ Finished(s) /\ UNCHANGED <<org, work>>

MAX_REFRESH_SNAPSHOTS == 10

\* current.filter(value => value # x): the entries kept, in their order.
Without(current, x) ==
    LET kept   == {i \in DOMAIN current : current[i] # x}
        nth(k) == CHOOSE i \in kept : Cardinality({j \in kept : j <= i}) = k
    IN  [k \in 1 .. Cardinality(kept) |-> current[nth(k)]]

\* The two latest snapshots fill the fields of the diff.
Remembered(w, listed) ==
    LET next == SubSeq(listed, 1, IF Len(listed) <= MAX_REFRESH_SNAPSHOTS THEN Len(listed)
                                  ELSE MAX_REFRESH_SNAPSHOTS)
    IN  [w EXCEPT !.refreshSnapshots = next, !.toSnapshot = next[1],
                  !.fromSnapshot = IF Len(next) >= 2 THEN next[2] ELSE None]

\* Mutation: a snapshot that is listed already is listed again.
rememberRefreshSnapshot_Again(w, snapshotId) ==
    Remembered(w, <<snapshotId>> \o w.refreshSnapshots)

rememberRefreshSnapshot(w, snapshotId) ==
    Remembered(w, <<snapshotId>> \o Without(w.refreshSnapshots, snapshotId))

\* The run the page records: `skipped' is shown in a badge and decides nothing.
RefreshRun(reply, lineage) ==
    [snapshotId |-> reply.snapshotId, skipped |-> reply.skipped,
     refreshedAt |-> reply.refreshedAt, lineage |-> lineage]

Lineage(c) == buildWorkflowLineage(c.at.handoff, c.at.selections, c.at.orgAlias)

RefreshAnswer(s) ==
    LET c == calls[s]
        ok == c.result = "ok"
    IN  /\ \/ /\ c.op \in {"refresh", "rebaseline"}
              /\ \E drifted \in IF c.op = "refresh" /\ c.result = "refused" THEN BOOLEAN ELSE {FALSE} :
                   work' = IF ok
                           THEN rememberRefreshSnapshot(
                                  [work EXCEPT !.lastRefreshRun = RefreshRun(c.reply, Lineage(c)),
                                               !.refreshNeedsRebaseline = FALSE], c.reply.snapshotId)
                           ELSE [work EXCEPT !.lastRefreshRun = None, !.refreshNeedsRebaseline = drifted]
           \/ /\ c.op = "diff"
              /\ work' = [work EXCEPT !.lastDiffRun =
                    IF ok THEN [refreshSnapshotId |-> c.at.snapshotId, lineage |-> Lineage(c)] ELSE None]
           \/ /\ c.op \in {"authPipeline", "pipeline"}
              /\ work' = [work EXCEPT !.lastOrgRetrieveRun =
                    IF ~ok THEN None
                    ELSE [alias |-> c.reply.alias, metadataArgs |-> c.reply.metadataArgs,
                          completedAt |-> c.reply.completedAt, runRetrieve |-> c.at.orgRunRetrieve,
                          lineage |-> IF c.at.orgRunRetrieve THEN Lineage(c) ELSE None]]
        /\ Finished(s) /\ UNCHANGED <<org, browser>>

Answer(s) ==
    /\ calls[s] # None /\ calls[s].left = {}
    /\ \/ ~calls[s].gone /\ (OrgAnswer(s) \/ BrowserAnswer(s) \/ RefreshAnswer(s))
       \/ calls[s].gone /\ calls' = [calls EXCEPT ![s] = None] /\ UNCHANGED <<org, browser, work, loading>>
    /\ UNCHANGED <<server, bounds>>

------------------------------------------------------------------------------
NewPage(alias) ==
    [orgAlias |-> alias, session |-> None, status |-> None, runtimeUnavailable |-> FALSE]

NewBrowser(handoff, selections) ==
    [blocked |-> {}, cart |-> {}, members |-> [t \in Families |-> {}],
     lastCatalogAlias |-> None, handoff |-> handoff, selections |-> selections]

\* The page is loaded again: what it kept in local storage comes back, the
\* requests it sent are answered to nobody, and the catalog is asked for.
Reload ==
    /\ bounds.reloads > 0
    /\ \E a \in Aliases : org.orgAlias \in {a, None} /\ org' = NewPage(a)
    /\ browser' = NewBrowser(browser.handoff, browser.selections)
    /\ work' = [work EXCEPT !.refreshNeedsRebaseline = FALSE, !.orgRunRetrieve = TRUE]
    /\ \E s \in Free : calls' = [t \in Slots |->
            CASE t = s -> Call("catalog", None, {})
              [] t # s /\ calls[t] # None -> [calls[t] EXCEPT !.gone = TRUE]
              [] OTHER -> None]
    /\ loading' = TRUE
    /\ bounds' = [bounds EXCEPT !.reloads = @ - 1]
    /\ UNCHANGED server

WorkStep ==
    \/ \E s \in Slots : Serve(s) \/ Answer(s)
    \/ CatalogForAlias
    \/ ~CatalogDue /\ (OrgStep \/ Cart \/ BrowserStep \/ RefreshStep)

------------------------------------------------------------------------------
(* Properties.                                                             *)

\* The handoff is one retrieve of the API: the org it names is the one the
\* files came from and the selections kept with it are those it asked for,
\* whatever was in the cart by then (use-browser-workspace.ts, 646-693).
HandoffIsOneRetrieve ==
    browser.handoff # None =>
        LET h == browser.handoff
        IN  /\ h.completedAt \in DOMAIN server.retrieves
            /\ server.retrieves[h.completedAt] = [alias |-> h.alias, metadataArgs |-> h.metadataArgs]
            /\ browser.selections = h.metadataArgs

\* A stage shown complete is grounded: the API answered a complete Refresh after
\* the files of the handoff arrived, and built its snapshot of them unless the
\* answer says that it skipped the rebuild; a complete Org Pipeline retrieved the
\* same selections from the org on show (refresh-workflow-state.ts, 155-262;
\* workflow-lineage.ts, 73-249; types.ts, 20).
CompleteIsBuilt ==
    LET stage == buildRefreshWorkflowStages(Page)
        run == work.lastRefreshRun
    IN  /\ stage.refresh = "complete" =>
             /\ run.refreshedAt >= browser.handoff.completedAt
             /\ run.snapshotId >= browser.handoff.completedAt \/ run.skipped
        /\ stage.orgRetrieve = "complete" =>
             LET r == server.retrieves[work.lastOrgRetrieveRun.completedAt]
             IN  /\ r.alias = browser.handoff.alias /\ r.metadataArgs = browser.selections
                 /\ work.lastOrgRetrieveRun.completedAt > browser.handoff.completedAt
==============================================================================
