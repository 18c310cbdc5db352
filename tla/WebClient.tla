------------------------------- MODULE WebClient -------------------------------
(***************************************************************************)
(* The page of the web client: the Connect, Org Browser and Refresh &      *)
(* Build workspaces (Workbench), and Ask with Proofs & Metrics             *)
(* (ProofsHistory).  They share the loading flag, and the effects of a     *)
(* render run before its next click or answer.                             *)
(***************************************************************************)
EXTENDS Workbench, Functions

CONSTANTS Requests,   \* room for the requests of Ask and Proofs
          Budgets     \* how much of everything a behaviour may hold

VARIABLES log, ask, history, ran, requests, budget

H == INSTANCE ProofsHistory

asked   == <<log, ask, history, ran, requests, budget>>
webVars == <<vars, asked>>

Lineages ==
    [alias : Aliases, metadataArgs : Selections, selectionCount : Nat, handoffCompletedAt : Nat]
Seen == Nat \cup {None}
Asked ==
    [op : {"ask", "list", "lookup", "tokenLookup", "replay", "exportProof", "exportReplay"},
     id : Seen, selectedId : Seen, served : BOOLEAN, ok : BOOLEAN, reply : Seq(Nat)]

\* A catalog lists finitely many families, and who comes back to an earlier
\* retrieve had something to retrieve.
ASSUME WebAssumption ==
    /\ None \notin Asked \cup Handoffs /\ IsFiniteSet(Families)
    /\ (\E b \in Budgets : b.earlier) => Families # {} /\ Members # {}
    /\ \A b \in Budgets :
          b.earlier \in BOOLEAN /\ {b.connect, b.metadata, b.failures, b.reloads, b.clicks, b.lost} \subseteq Nat

\* The snapshots offered to the diff are listed once each.
TypeOK ==
    /\ server.session \in Sessions /\ server.retrieves \in Seq(Retrieves)
    /\ server.snapshot \in Nat
    /\ {org.session, org.status} \subseteq Sessions \cup {None}
    /\ org.orgAlias \in Aliases \cup {None} /\ org.runtimeUnavailable \in BOOLEAN
    /\ browser.handoff \in Handoffs \cup {None}
    /\ {browser.selections, browser.cart} \subseteq Selections /\ browser.blocked \subseteq Families
    /\ browser.members \in [Families -> SUBSET Members]
    /\ browser.lastCatalogAlias \in Aliases \cup {None}
    /\ work.lastRefreshRun \in {None} \cup [snapshotId : Nat, skipped : BOOLEAN, refreshedAt : Nat, lineage : Lineages]
    /\ work.lastDiffRun \in {None} \cup [refreshSnapshotId : Nat, lineage : Lineages]
    /\ work.lastOrgRetrieveRun \in
          {None} \cup [alias : Aliases, metadataArgs : Selections, completedAt : Nat,
                       runRetrieve : BOOLEAN, lineage : Lineages \cup {None}]
    /\ work.refreshSnapshots \in Seq(Nat) /\ IsInjective(work.refreshSnapshots)
    /\ {work.fromSnapshot, work.toSnapshot} \subseteq Snapshots
    /\ {work.refreshNeedsRebaseline, work.orgRunRetrieve, loading} \subseteq BOOLEAN
    /\ log \in Seq(Nat) /\ {ask, history.selectedId, history.shown, history.replay, history.token} \subseteq Seen
    /\ history.recents \in Seq(Nat) /\ history.tab \in {"ask", "proofs"}
    /\ requests \in [Requests -> Asked \cup {None}]

------------------------------------------------------------------------------
\* A page nothing was done on; the alias and the tab are kept in local storage.
Fresh ==
    [tab |-> "ask", recents |-> <<>>, selectedId |-> None, shown |-> None, replay |-> None, token |-> None]
FirstRan == [sync |-> None, list |-> <<"ask", 0>>, lookup |-> <<"ask", None, None>>]

NewWork ==
    [lastRefreshRun |-> None, lastDiffRun |-> None, lastOrgRetrieveRun |-> None,
     refreshSnapshots |-> <<>>, fromSnapshot |-> None, toSnapshot |-> None,
     refreshNeedsRebaseline |-> FALSE, orgRunRetrieve |-> TRUE]

\* What one retrieve and one refresh of an earlier visit left behind.
EarlierWork(handoff) ==
    [NewWork EXCEPT !.refreshSnapshots = <<1>>, !.toSnapshot = 1,
        !.lastRefreshRun = RefreshRun([snapshotId |-> 1, skipped |-> FALSE, refreshedAt |-> 1],
                                      buildWorkflowLineage(handoff, handoff.metadataArgs, handoff.alias))]

\* A first visit, or one after a retrieve and a refresh.  The members of
\* every family were listed before, and they may be in the cart.
Init ==
    /\ \E a \in Aliases, b \in Budgets, cart \in {{}, Families \X Members} :
          LET handoff == [completedAt |-> 1, alias |-> a, metadataArgs |-> Families \X Members]
              page == NewBrowser(IF b.earlier THEN handoff ELSE None,
                                 IF b.earlier THEN handoff.metadataArgs ELSE {})
          IN  /\ server = [session |-> [alias |-> a, connected |-> TRUE],
                           retrieves |-> IF b.earlier THEN <<[alias |-> a, metadataArgs |-> handoff.metadataArgs]>>
                                         ELSE <<>>,
                           snapshot |-> IF b.earlier THEN 1 ELSE 0]
              /\ org = NewPage(a)
              /\ browser = [page EXCEPT !.cart = cart, !.members = [t \in Families |-> Members]]
              /\ work = IF b.earlier THEN EarlierWork(handoff) ELSE NewWork
              /\ bounds = [connect |-> b.connect, metadata |-> b.metadata,
                           failures |-> b.failures, reloads |-> b.reloads]
              /\ budget = [clicks |-> b.clicks, failures |-> b.lost, failed |-> FALSE]
    /\ calls = [s \in Slots |-> None]
    /\ loading = FALSE
    /\ log = <<1, 2>> /\ ask = None /\ history = Fresh /\ ran = FirstRan
    /\ requests = [r \in Requests |-> None]

\* A reload while Ask and Proofs wait for nothing.
ReloadPage ==
    /\ Reload /\ H!NoRequest
    /\ ask' = None /\ history' = [Fresh EXCEPT !.tab = history.tab] /\ ran' = FirstRan
    /\ UNCHANGED <<log, requests, budget>>

Next ==
    \/ H!HistoryStep /\ UNCHANGED <<server, org, browser, work, calls, bounds>>
    \/ H!dependencies = ran /\ WorkStep /\ UNCHANGED asked
    \/ H!dependencies = ran /\ ~CatalogDue /\ ReloadPage

Spec == Init /\ [][Next]_webVars

\* When the page rests on the Proofs tab, the proof on show is the selected
\* one, whichever answer came last; only a failed lookup leaves none on show
\* (page.tsx, 138-160; use-proofs-workspace.ts, 282-351).
ShownIsSelected == H!ShownIsSelected
==============================================================================
