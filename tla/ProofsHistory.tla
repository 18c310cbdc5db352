---------------------------- MODULE ProofsHistory ----------------------------
(***************************************************************************)
(* Ask and Proofs & Metrics of the web client: the last answer, the list   *)
(* of recent proofs, the one selected in it, the proof and the replay on   *)
(* show, and the three effects of page.tsx that keep them together.  An    *)
(* effect runs after the render in which one of the values it depends on   *)
(* changed, and reads the values of that render; the page renders between  *)
(* any two answers.                                                        *)
(***************************************************************************)
EXTENDS Naturals, Sequences, SequencesExt

CONSTANTS None,     \* null or an empty text
          Requests  \* room for the requests under way: a bound

VARIABLES log,       \* the API's proofs, oldest first
          ask,       \* the proof of the answer on show
          history,   \* useProofsWorkspace, and the tab
          ran,       \* what each effect depended on when it last ran
          requests,  \* the requests under way, None where there is room
          loading,   \* useSecondaryQueryRunner
          budget     \* clicks and failures left, and whether one failed

vars == <<log, ask, history, ran, requests, loading, budget>>

------------------------------------------------------------------------------
(* history-selection.ts                                                    *)

resolveSelectedHistoryProofId(recents, id) ==
    CASE recents = <<>> -> None
      [] recents # <<>> /\ id \in Range(recents) -> id
      [] OTHER -> recents[1]

selectedRecentProof == resolveSelectedHistoryProofId(history.recents, history.selectedId)

------------------------------------------------------------------------------
(* Requests.                                                               *)

NoRequest == \A r \in Requests : requests[r] = None

\* A request keeps the selection of the render it was made in.
Request(op, id) ==
    [op |-> op, id |-> id, selectedId |-> history.selectedId, served |-> FALSE, ok |-> FALSE, reply |-> <<>>]

Post(q) ==
    /\ \E r \in Requests : requests[r] = None
    /\ requests' = [requests EXCEPT ![CHOOSE r \in Requests : requests[r] = None] = q]
    /\ loading' = TRUE

Click  == budget.clicks > 0 /\ budget' = [budget EXCEPT !.clicks = @ - 1]
Button == ~loading /\ Click
Silent == UNCHANGED <<requests, loading>>

\* The API: a proof is appended for every answer, the list is newest first.
Serve(r) ==
    /\ requests[r] # None /\ ~requests[r].served
    /\ \/ /\ log' = IF requests[r].op = "ask" THEN Append(log, Len(log) + 1) ELSE log
          /\ requests' = [requests EXCEPT ![r].served = TRUE, ![r].ok = TRUE,
                 ![r].id = IF requests[r].op = "ask" THEN Len(log') ELSE @,
                 ![r].reply = IF requests[r].op = "list" THEN Reverse(log) ELSE @]
          /\ UNCHANGED budget
       \/ /\ budget.failures > 0 /\ budget' = [budget EXCEPT !.failures = @ - 1, !.failed = TRUE]
          /\ requests' = [requests EXCEPT ![r].served = TRUE]
          /\ log' \in {log, IF requests[r].op = "ask" THEN Append(log, Len(log) + 1) ELSE log}
    /\ UNCHANGED <<ask, history, ran, loading>>

------------------------------------------------------------------------------
(* What the operator does.                                                 *)

\* runAsk and runAskElaboration.
runAsk == history.tab = "ask" /\ Button /\ Post(Request("ask", None)) /\ UNCHANGED history

\* syncFromAsk: the answer's proof becomes the selection, the tokens go.
Synced(h) == IF ask = None THEN h ELSE [h EXCEPT !.selectedId = ask, !.token = None]

openProof ==
    history.tab = "ask" /\ Click /\ history' = [Synced(history) EXCEPT !.tab = "proofs"] /\ Silent

\* The list is asked for with the selection of before.
openProofHistoryFromAsk ==
    /\ history.tab = "ask" /\ Click
    /\ history' = [Synced(history) EXCEPT !.tab = "proofs"]
    /\ Post(Request("list", None))

setUiTab ==
    Click /\ \E t \in {"ask", "proofs"} \ {history.tab} : history' = [history EXCEPT !.tab = t] /\ Silent

\* Rows of the history, which no flag disables; an export asks for what is not
\* on show already.
Row ==
    /\ Click
    /\ \E p \in Range(history.recents) :
          /\ history' = [history EXCEPT !.selectedId = p]
          /\ \/ Silent
             \/ \E op \in {"lookup", "replay"} : Post(Request(op, p))
             \/ \E x \in {<<"exportProof", history.shown>>, <<"exportReplay", history.replay>>} :
                   IF x[2] = p THEN loading' = FALSE /\ UNCHANGED requests ELSE Post(Request(x[1], p))

\* Refresh History, Get Proof, Replay and the exports of the selection.
SelectionButton ==
    /\ Button /\ UNCHANGED history
    /\ \/ Post(Request("list", None))
       \/ /\ selectedRecentProof # None
          /\ \/ \E op \in {"lookup", "replay"} : Post(Request(op, selectedRecentProof))
             \/ \E x \in {<<"exportProof", history.shown>>, <<"exportReplay", history.replay>>} :
                   IF x[2] = selectedRecentProof THEN loading' = FALSE /\ UNCHANGED requests
                   ELSE Post(Request(x[1], selectedRecentProof))

\* Advanced lookup by a proof id somebody typed.
TypeToken ==
    Click /\ \E p \in Range(log) : history' = [history EXCEPT !.token = p] /\ Silent

\* What clearing the tokens leaves on show: the selected proof only.
Cleared(p) == IF p = selectedRecentProof THEN p ELSE None

TokenButton ==
    /\ history.token # None /\ Button
    /\ \/ \E op \in {"tokenLookup", "replay"} : Post(Request(op, history.token)) /\ UNCHANGED history
       \/ /\ history' = [history EXCEPT !.token = None,
                !.shown = Cleared(@), !.replay = Cleared(@)]
          /\ Silent

Operate ==
    /\ \/ runAsk \/ openProof \/ openProofHistoryFromAsk \/ setUiTab
       \/ history.tab = "proofs" /\ (Row \/ SelectionButton \/ TypeToken \/ TokenButton)
    /\ UNCHANGED <<log, ask, ran>>

------------------------------------------------------------------------------
(* Answers.                                                                *)

\* A refused request, or an answer the page cannot read, shows nothing.
Read(q) == IF q.ok THEN q.id ELSE None

\* runProofsRecent keeps the selection it was asked with if the list has it.
Listed(q) ==
    IF ~q.ok THEN [history EXCEPT !.recents = <<>>]
    ELSE [history EXCEPT !.recents = q.reply,
                         !.selectedId = resolveSelectedHistoryProofId(q.reply, q.selectedId)]

Answer(r) ==
    LET q == requests[r]
    IN  /\ q # None /\ q.served
        /\ ask' = IF q.op = "ask" /\ q.ok THEN q.id ELSE ask
        /\ history' =
             CASE q.op = "list" -> Listed(q)
               [] q.op = "lookup" -> [history EXCEPT !.shown = Read(q)]
               [] q.op = "tokenLookup" ->
                    [history EXCEPT !.shown = Read(q), !.token = IF q.ok THEN q.id ELSE @]
               [] q.op = "replay" -> [history EXCEPT !.replay = Read(q)]
               [] q.op = "exportProof" /\ q.ok -> [history EXCEPT !.shown = q.id]
               [] q.op = "exportReplay" /\ q.ok -> [history EXCEPT !.replay = q.id]
               [] OTHER -> history
        /\ requests' = [requests EXCEPT ![r] = None] /\ loading' = FALSE
        /\ UNCHANGED <<log, ran, budget>>

------------------------------------------------------------------------------
(* The effects of page.tsx.                                                *)

\* Mutation: the lookup does not depend on the proof on show.
dependencies_NoShown ==
    [sync |-> ask, list |-> <<history.tab, Len(history.recents)>>, lookup |-> <<history.tab, selectedRecentProof>>]

dependencies ==
    [sync |-> ask, list |-> <<history.tab, Len(history.recents)>>,
     lookup |-> <<history.tab, selectedRecentProof, history.shown>>]

Changed(effect) == dependencies[effect] # ran[effect]

ListDue == Changed("list") /\ history.tab = "proofs" /\ history.recents = <<>>

LookupDue ==
    /\ Changed("lookup") /\ history.tab = "proofs"
    /\ selectedRecentProof \notin {None, history.shown}

Effects ==
    /\ dependencies # ran
    /\ ran' = dependencies
    /\ history' = IF Changed("sync") THEN Synced(history) ELSE history
    /\ CASE ListDue -> Post(Request("list", None))
         [] LookupDue -> Post(Request("lookup", selectedRecentProof))
         [] OTHER -> Silent
    /\ UNCHANGED <<log, ask, budget>>

HistoryStep ==
    \/ \E r \in Requests : Serve(r)
    \/ Effects
    \/ dependencies = ran /\ (Operate \/ \E r \in Requests : Answer(r))

------------------------------------------------------------------------------
(* Property.                                                               *)

\* When the page has come to rest on the Proofs tab, the proof on show is the
\* selected one, whichever answer came last; only a failed lookup leaves none
\* on show (page.tsx, 150-160; use-proofs-workspace.ts, 319-351).
ShownIsSelected ==
    NoRequest /\ dependencies = ran /\ history.tab = "proofs" /\ selectedRecentProof # None
        => \/ history.shown = selectedRecentProof
           \/ history.shown = None /\ budget.failed
==============================================================================
