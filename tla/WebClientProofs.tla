---------------------------- MODULE WebClientProofs ----------------------------
(***************************************************************************)
(* Proofs about WebClient, for any aliases, families, slots for requests   *)
(* and bounds: what the page tells of the server is what the server did,   *)
(* in whatever order answers come.                                         *)
(***************************************************************************)
EXTENDS WebClient, SequenceTheorems, FunctionTheorems, FiniteSetTheorems, TLAPS

------------------------------------------------------------------------------
(* Ask and Proofs.                                                         *)

Ops  == {"ask", "list", "lookup", "tokenLookup", "replay", "exportProof", "exportReplay"}
Tabs == {"ask", "proofs"}
Histories ==
    [tab : Tabs, recents : Seq(Nat), selectedId : Seen, shown : Seen, replay : Seen, token : Seen]

HistoryTypes ==
    /\ log \in Seq(Nat) /\ ask \in Seen /\ history \in Histories
    /\ requests \in [Requests -> Asked \cup {None}]
    /\ budget \in [clicks : Nat, failures : Nat, failed : BOOLEAN]

\* Whoever is answered without a proof has met a failure.
FailureTold ==
    \A r \in Requests :
        requests[r] # None /\ requests[r].served /\ ~requests[r].ok => budget.failed

\* Once the effects have run, a selection that is not on show is being looked up,
\* or its lookup failed.
Looked ==
    H!dependencies.lookup = ran.lookup /\ history.tab = "proofs"
    /\ H!selectedRecentProof \notin {None, history.shown}
        => \/ \E r \in Requests : /\ requests[r] # None /\ requests[r].op = "lookup"
                                  /\ requests[r].id = H!selectedRecentProof
           \/ history.shown = None /\ budget.failed

HistoryInv == HistoryTypes /\ FailureTold /\ Looked

LEMMA RequestType ==
    ASSUME history \in Histories, NEW op \in Ops, NEW id \in Seen
    PROVE  /\ H!Request(op, id) \in Asked /\ H!Request(op, id).op = op
           /\ H!Request(op, id).id = id /\ ~H!Request(op, id).served
           /\ H!Request(op, id) # None
  <1>1. <<>> \in Seq(Nat) /\ history.selectedId \in Seen
    BY EmptySeq DEF Histories
  <1>2. PICK e \in Seq(Nat) : e = <<>>
    BY <1>1
  <1>3. H!Request(op, id) = [op |-> op, id |-> id, selectedId |-> history.selectedId,
                             served |-> FALSE, ok |-> FALSE, reply |-> e]
    BY <1>2 DEF H!Request
  <1>4. H!Request(op, id) \in Asked
    BY <1>1, <1>3 DEF Asked, Ops
  <1>5. /\ H!Request(op, id).op = op /\ H!Request(op, id).id = id
        /\ H!Request(op, id).served = FALSE
    BY <1>3
  <1>6. H!Request(op, id) # None
    BY <1>4, WebAssumption
  <1> QED BY <1>4, <1>5, <1>6

\* What a selection is resolved to is a proof of the list, or nothing.
LEMMA Resolved ==
    ASSUME NEW recents \in Seq(Nat), NEW id
    PROVE  H!resolveSelectedHistoryProofId(recents, id) \in Seen
  <1>1. CASE recents = <<>>
    BY <1>1 DEF H!resolveSelectedHistoryProofId, Seen
  <1>2. CASE recents # <<>> /\ id \in H!Range(recents)
    BY <1>2 DEF H!resolveSelectedHistoryProofId, Seen, H!Range
  <1>3. CASE recents # <<>> /\ id \notin H!Range(recents)
    <2>1. recents[1] \in Nat
      BY <1>3, ElementOfSeq, LenProperties, EmptySeq
    <2> QED BY <1>3, <2>1 DEF H!resolveSelectedHistoryProofId, Seen
  <1> QED BY <1>1, <1>2, <1>3

LEMMA Selected ==
    ASSUME history \in Histories
    PROVE  H!selectedRecentProof \in Seen
  BY Resolved DEF H!selectedRecentProof, Histories

\* A step that leaves the requests under way, or adds one.
Added ==
    /\ requests' \in [Requests -> Asked \cup {None}]
    /\ \A r \in Requests : requests[r] # None => requests'[r] = requests[r]
    /\ \A r \in Requests : requests'[r] # requests[r] => ~requests'[r].served

LEMMA Posted ==
    ASSUME HistoryTypes, NEW q \in Asked, ~q.served, H!Post(q)
    PROVE  Added /\ \E r \in Requests : requests'[r] = q
  <1>1. PICK r \in Requests : requests[r] = None /\ requests' = [requests EXCEPT ![r] = q]
    BY DEF H!Post
  <1> QED BY <1>1 DEF Added, HistoryTypes

LEMMA Unposted ==
    ASSUME HistoryTypes, requests' = requests
    PROVE  Added
  BY DEF Added, HistoryTypes

LEMMA Clicks ==
    ASSUME HistoryTypes, H!Click
    PROVE  /\ budget' \in [clicks : Nat, failures : Nat, failed : BOOLEAN]
           /\ budget'.failed = budget.failed
  BY DEF HistoryTypes, H!Click

LEMMA Syncs ==
    ASSUME HistoryTypes
    PROVE  /\ H!Synced(history) \in Histories
           /\ [H!Synced(history) EXCEPT !.tab = "proofs"] \in Histories
  BY DEF H!Synced, Histories, HistoryTypes, Seen, Tabs

\* What an operator can do changes what is on show, and may ask for something.
LEMMA Operated ==
    ASSUME HistoryTypes, H!Operate
    PROVE  /\ Added /\ history' \in Histories /\ log' = log /\ ask' = ask /\ ran' = ran
           /\ budget' \in [clicks : Nat, failures : Nat, failed : BOOLEAN]
           /\ budget'.failed = budget.failed
  <1>1. log' = log /\ ask' = ask /\ ran' = ran
    BY DEF H!Operate
  <1>2. history \in Histories /\ None \in Seen
    BY DEF HistoryTypes, Seen
  <1>3. \A op \in Ops, id \in Seen : H!Post(H!Request(op, id)) => Added
    BY <1>2, RequestType, Posted
  <1>4. \A p \in Range(history.recents) : p \in Seen
    BY <1>2 DEF Histories, Range, Seen
  <1>5. H!selectedRecentProof \in Seen
    BY <1>2, Selected
  <1>6. CASE H!runAsk
    <2>1. H!Post(H!Request("ask", None)) /\ history' = history /\ H!Click /\ "ask" \in Ops
      BY <1>6 DEF H!runAsk, H!Button, Ops
    <2>2. Added
      BY <1>2, <1>3, <2>1
    <2> QED BY <1>1, <1>2, <2>1, <2>2, Clicks
  <1>7. CASE H!openProof
    BY <1>1, <1>7, Syncs, Clicks, Unposted DEF H!openProof, H!Silent
  <1>8. CASE H!openProofHistoryFromAsk
    <2>1. /\ H!Post(H!Request("list", None)) /\ H!Click /\ "list" \in Ops
          /\ history' = [H!Synced(history) EXCEPT !.tab = "proofs"]
      BY <1>8 DEF H!openProofHistoryFromAsk, Ops
    <2>2. Added
      BY <1>2, <1>3, <2>1
    <2> QED BY <1>1, <2>1, <2>2, Syncs, Clicks
  <1>9. CASE H!setUiTab
    <2>1. PICK t \in Tabs : history' = [history EXCEPT !.tab = t]
      BY <1>9 DEF H!setUiTab, Tabs
    <2>2. history' \in Histories
      BY <1>2, <2>1 DEF Histories
    <2>3. H!Click /\ requests' = requests
      BY <1>9 DEF H!setUiTab, H!Silent
    <2> QED BY <1>1, <2>2, <2>3, Clicks, Unposted
  <1>10. CASE H!Row
    <2>1. PICK p \in Range(history.recents) :
            /\ history' = [history EXCEPT !.selectedId = p]
            /\ requests' = requests \/ \E op \in Ops : H!Post(H!Request(op, p))
      BY <1>10 DEF H!Row, H!Silent, Ops, H!Range, Range
    <2>2. history' \in Histories
      BY <1>2, <1>4, <2>1 DEF Histories
    <2>3. Added
      BY <1>3, <1>4, <2>1, Unposted
    <2>4. H!Click
      BY <1>10 DEF H!Row
    <2> QED BY <1>1, <2>2, <2>3, <2>4, Clicks
  <1>11. CASE H!SelectionButton
    <2>1. /\ history' = history /\ H!Click
          /\ requests' = requests \/ \E op \in Ops, id \in Seen : H!Post(H!Request(op, id))
      BY <1>2, <1>5, <1>11 DEF H!SelectionButton, H!Button, Ops
    <2> QED BY <1>1, <1>2, <1>3, <2>1, Unposted, Clicks
  <1>12. CASE H!TypeToken
    <2>1. PICK p \in H!Range(log) : history' = [history EXCEPT !.token = p]
      BY <1>12 DEF H!TypeToken
    <2>2. p \in Seen
      BY <2>1 DEF HistoryTypes, H!Range, Seen
    <2>3. requests' = requests /\ H!Click
      BY <1>12 DEF H!TypeToken, H!Silent
    <2>4. history' \in Histories
      BY <1>2, <2>1, <2>2 DEF Histories
    <2> QED BY <1>1, <2>3, <2>4, Unposted, Clicks
  <1>13. CASE H!TokenButton
    <2>1. H!Click
      BY <1>13 DEF H!TokenButton, H!Button
    <2>2. CASE /\ \E op \in {"tokenLookup", "replay"} : H!Post(H!Request(op, history.token))
               /\ history' = history
      <3>1. history.token \in Seen
        BY <1>2 DEF Histories
      <3> QED BY <1>1, <1>2, <1>3, <2>1, <2>2, <3>1, Clicks DEF Ops
    <2>3. CASE /\ history' = [history EXCEPT !.token = None, !.shown = H!Cleared(@),
                                             !.replay = H!Cleared(@)]
               /\ H!Silent
      <3>1. H!Cleared(history.shown) \in Seen /\ H!Cleared(history.replay) \in Seen
        BY <1>2 DEF H!Cleared, Histories
      <3>2. history' \in Histories
        BY <1>2, <2>3, <3>1 DEF Histories
      <3> QED BY <1>1, <2>1, <2>3, <3>2, Clicks, Unposted DEF H!Silent
    <2> QED BY <1>13, <2>2, <2>3 DEF H!TokenButton
  <1> QED BY <1>1, <1>6, <1>7, <1>8, <1>9, <1>10, <1>11, <1>12, <1>13 DEF H!Operate

LEMMA Served ==
    ASSUME HistoryTypes, FailureTold, NEW r \in Requests, H!Serve(r)
    PROVE  /\ HistoryTypes' /\ FailureTold' /\ history' = history /\ ran' = ran
           /\ budget.failed => budget'.failed
           /\ \A s \in Requests : requests[s] # None /\ requests[s].op # "ask" =>
                /\ requests'[s] # None /\ requests'[s].op = requests[s].op
                /\ requests'[s].id = requests[s].id
  <1>1. PICK q \in Asked : q = requests[r] /\ q # None
    BY DEF H!Serve, HistoryTypes
  <1>2. /\ history' = history /\ ask' = ask /\ ran' = ran
        /\ log' \in Seq(Nat)
    <2>1. log' = log \/ log' = Append(log, Len(log) + 1)
      BY DEF H!Serve
    <2>2. log \in Seq(Nat) /\ Len(log) + 1 \in Nat
      BY LenProperties DEF HistoryTypes
    <2>3. Append(log, Len(log) + 1) \in Seq(Nat)
      BY <2>2, AppendProperties
    <2> QED BY <2>1, <2>2, <2>3 DEF H!Serve
  <1>3. PICK a \in Asked :
            /\ requests' = [requests EXCEPT ![r] = a] /\ a.op = q.op /\ (q.op # "ask" => a.id = q.id)
            /\ a.served /\ (~a.ok => budget'.failed)
            /\ budget' \in [clicks : Nat, failures : Nat, failed : BOOLEAN]
            /\ budget.failed => budget'.failed
    <2>1. CASE /\ requests' = [requests EXCEPT ![r].served = TRUE, ![r].ok = TRUE,
                      ![r].id = IF requests[r].op = "ask" THEN Len(log') ELSE @,
                      ![r].reply = IF requests[r].op = "list" THEN H!Reverse(log) ELSE @]
               /\ budget' = budget
      <3>1. PICK n, l : /\ n = (IF q.op = "ask" THEN Len(log') ELSE q.id)
                        /\ l = (IF q.op = "list" THEN H!Reverse(log) ELSE q.reply)
        OBVIOUS
      <3>2. n \in Seen
        BY <1>1, <1>2, <3>1, LenProperties DEF Seen, Asked
      <3>3. l \in Seq(Nat)
        <4>1. H!Reverse(log) \in Seq(Nat)
          <5>1. log \in Seq(Nat) /\ Len(log) \in Nat /\ DOMAIN log = 1..Len(log)
            BY LenProperties DEF HistoryTypes
          <5>2. \A i \in 1..Len(log) : (Len(log) - i) + 1 \in 1..Len(log)
            BY <5>1
          <5>3. \A i \in 1..Len(log) : log[(Len(log) - i) + 1] \in Nat
            BY <5>1, <5>2, ElementOfSeq
          <5> QED BY <5>1, <5>3, IsASeq DEF H!Reverse
        <4> QED BY <1>1, <3>1, <4>1 DEF Asked
      <3>4. PICK a : a = [q EXCEPT !.served = TRUE, !.ok = TRUE, !.id = n, !.reply = l]
        OBVIOUS
      <3>5. requests' = [requests EXCEPT ![r] = a]
        BY <1>1, <2>1, <3>1, <3>4 DEF HistoryTypes, Asked
      <3>6. /\ a \in Asked /\ a.op = q.op /\ a.id = n /\ a.served /\ a.ok
        BY <1>1, <3>2, <3>3, <3>4 DEF Asked
      <3> QED BY <2>1, <3>1, <3>5, <3>6 DEF HistoryTypes
    <2>2. CASE /\ budget' = [budget EXCEPT !.failures = @ - 1, !.failed = TRUE]
               /\ budget.failures > 0
               /\ requests' = [requests EXCEPT ![r].served = TRUE]
      <3>1. PICK a : a = [q EXCEPT !.served = TRUE]
        OBVIOUS
      <3>2. requests' = [requests EXCEPT ![r] = a]
        BY <1>1, <2>2, <3>1 DEF HistoryTypes
      <3>3. a \in Asked /\ a.op = q.op /\ a.id = q.id /\ a.served
        BY <1>1, <3>1 DEF Asked
      <3>4. budget \in [clicks : Nat, failures : Nat, failed : BOOLEAN] /\ budget.failures - 1 \in Nat
        BY <2>2 DEF HistoryTypes
      <3>5. budget' \in [clicks : Nat, failures : Nat, failed : BOOLEAN] /\ budget'.failed
        BY <2>2, <3>4
      <3> QED BY <3>2, <3>3, <3>5
    <2> QED BY <2>1, <2>2 DEF H!Serve
  <1>4. /\ requests \in [Requests -> Asked \cup {None}]
        /\ \A s \in Requests : requests'[s] = IF s = r THEN a ELSE requests[s]
    BY <1>3 DEF HistoryTypes
  <1>5. HistoryTypes'
    BY <1>2, <1>3 DEF HistoryTypes
  <1>6. FailureTold'
    BY <1>3, <1>4 DEF FailureTold
  <1>7. a # None
    BY WebAssumption
  <1> QED BY <1>1, <1>2, <1>3, <1>4, <1>5, <1>6, <1>7

LEMMA Answers ==
    ASSUME HistoryTypes, NEW r \in Requests, H!Answer(r)
    PROVE  /\ ask' \in Seen /\ history' \in Histories /\ log' = log /\ ran' = ran /\ budget' = budget
           /\ requests' = [requests EXCEPT ![r] = None]
           /\ requests[r] # None /\ requests[r].served
           /\ requests[r].op = "lookup" => history'.shown = H!Read(requests[r])
  <1>1. PICK q \in Asked : q = requests[r] /\ q # None
    BY DEF H!Answer, HistoryTypes
  <1>2. /\ ask' = (IF q.op = "ask" /\ q.ok THEN q.id ELSE ask)
        /\ history' =
             CASE q.op = "list" -> H!Listed(q)
               [] q.op = "lookup" -> [history EXCEPT !.shown = H!Read(q)]
               [] q.op = "tokenLookup" ->
                    [history EXCEPT !.shown = H!Read(q), !.token = IF q.ok THEN q.id ELSE @]
               [] q.op = "replay" -> [history EXCEPT !.replay = H!Read(q)]
               [] q.op = "exportProof" /\ q.ok -> [history EXCEPT !.shown = q.id]
               [] q.op = "exportReplay" /\ q.ok -> [history EXCEPT !.replay = q.id]
               [] OTHER -> history
        /\ log' = log /\ ran' = ran /\ budget' = budget
        /\ requests' = [requests EXCEPT ![r] = None] /\ q.served
    BY <1>1 DEF H!Answer
  <1>3. /\ history \in Histories /\ ask \in Seen /\ q.id \in Seen /\ q.reply \in Seq(Nat)
        /\ <<>> \in Seq(Nat) /\ None \in Seen
    BY EmptySeq DEF HistoryTypes, Asked, Seen
  <1>4. H!Read(q) \in Seen
    BY <1>3 DEF H!Read
  <1>5. H!Listed(q) \in Histories
    <2>1. CASE ~q.ok
      <3>1. PICK e \in Seq(Nat) : e = <<>>
        BY <1>3
      <3>2. H!Listed(q) = [history EXCEPT !.recents = e]
        BY <2>1, <3>1 DEF H!Listed
      <3> QED BY <1>3, <3>2 DEF Histories
    <2>2. CASE q.ok
      <3>1. PICK x \in Seen : x = H!resolveSelectedHistoryProofId(q.reply, q.selectedId)
        BY <1>3, Resolved
      <3>2. H!Listed(q) = [history EXCEPT !.recents = q.reply, !.selectedId = x]
        BY <2>2, <3>1 DEF H!Listed
      <3> QED BY <1>3, <3>2 DEF Histories
    <2> QED BY <2>1, <2>2
  <1>6. history' \in Histories
    <2>1. CASE q.op = "list"
      BY <1>2, <1>5, <2>1
    <2>2. CASE q.op # "list"
      <3>1. \/ history' = history
            \/ \E x \in Seen : \/ history' = [history EXCEPT !.shown = x]
                               \/ history' = [history EXCEPT !.replay = x]
            \/ \E x, y \in Seen : history' = [history EXCEPT !.shown = x, !.token = y]
        <4>1. CASE q.op = "lookup"
          BY <1>2, <1>4, <4>1
        <4>2. CASE q.op = "tokenLookup"
          <5>1. PICK x, y : x = H!Read(q) /\ y = (IF q.ok THEN q.id ELSE history.token)
            OBVIOUS
          <5>2. x \in Seen /\ y \in Seen
            BY <1>3, <1>4, <5>1 DEF Histories
          <5>3. history' = [history EXCEPT !.shown = x, !.token = y]
            BY <1>2, <4>2, <5>1
          <5> QED BY <5>2, <5>3
        <4>3. CASE q.op = "replay"
          BY <1>2, <1>4, <4>3
        <4>4. CASE q.op = "exportProof"
          BY <1>2, <1>3, <4>4
        <4>5. CASE q.op = "exportReplay"
          BY <1>2, <1>3, <4>5
        <4>6. CASE q.op = "ask"
          BY <1>2, <4>6
        <4> QED BY <2>2, <4>1, <4>2, <4>3, <4>4, <4>5, <4>6 DEF Asked
      <3> QED BY <1>3, <3>1 DEF Histories
    <2> QED BY <2>1, <2>2
  <1>7. q.op = "lookup" => history'.shown = H!Read(q)
    BY <1>2, <1>3 DEF Histories
  <1> QED BY <1>1, <1>2, <1>3, <1>6, <1>7

\* An effect asks for the list or for the selected proof, if anything is due.
LEMMA EffectsRan ==
    ASSUME HistoryTypes, Looked, H!Effects
    PROVE  /\ Added /\ history' \in Histories /\ log' = log /\ ask' = ask /\ budget' = budget
           /\ ran' = H!dependencies
           /\ history.tab = "proofs" /\ H!selectedRecentProof \notin {None, history.shown} =>
                \/ \E r \in Requests : /\ requests'[r] # None /\ requests'[r].op = "lookup"
                                       /\ requests'[r].id = H!selectedRecentProof
                \/ history.shown = None /\ budget.failed
  <1>1. /\ history \in Histories /\ log' = log /\ ask' = ask /\ budget' = budget
        /\ ran' = H!dependencies /\ None \in Seen
    BY DEF HistoryTypes, H!Effects, Seen
  <1>2. history' \in Histories
    BY <1>1, Syncs DEF H!Effects
  <1>3. H!selectedRecentProof \in Seen
    BY <1>1, Selected
  <1>4. CASE H!ListDue
    <2>1. history.recents = <<>>
      BY <1>4 DEF H!ListDue
    <2>2. H!selectedRecentProof = None
      BY <2>1 DEF H!selectedRecentProof, H!resolveSelectedHistoryProofId
    <2>3. ~H!LookupDue
      BY <2>2 DEF H!LookupDue
    <2>4. H!Post(H!Request("list", None))
      BY <1>4, <2>3 DEF H!Effects
    <2>5. Added
      BY <1>1, <2>4, RequestType, Posted DEF Ops
    <2> QED BY <1>1, <1>2, <2>2, <2>5
  <1>5. CASE ~H!ListDue /\ H!LookupDue
    <2>1. H!Post(H!Request("lookup", H!selectedRecentProof))
      BY <1>5 DEF H!Effects
    <2>2. PICK q \in Asked : /\ q = H!Request("lookup", H!selectedRecentProof)
                             /\ q.op = "lookup" /\ q.id = H!selectedRecentProof
                             /\ ~q.served /\ q # None
      BY <1>1, <1>3, RequestType DEF Ops
    <2>3. Added /\ \E r \in Requests : requests'[r] = q
      BY <2>1, <2>2, Posted
    <2> QED BY <1>1, <1>2, <2>2, <2>3
  <1>6. CASE ~H!ListDue /\ ~H!LookupDue
    <2>1. requests' = requests
      BY <1>6 DEF H!Effects, H!Silent
    <2>2. ASSUME history.tab = "proofs", H!selectedRecentProof \notin {None, history.shown}
          PROVE  H!dependencies.lookup = ran.lookup
      BY <1>6, <2>2 DEF H!LookupDue, H!Changed
    <2> QED BY <1>1, <1>2, <2>1, <2>2, Unposted DEF Looked
  <1> QED BY <1>4, <1>5, <1>6

\* Ask and Proofs on their own: an effect looks up what is selected and not on show,
\* and whatever is answered before that lookup leaves it under way.
LEMMA HistoryStepKeeps ==
    ASSUME HistoryInv, H!HistoryStep
    PROVE  HistoryInv'
  <1>1. HistoryTypes /\ FailureTold /\ Looked
    BY DEF HistoryInv
  <1> DEFINE Here == <<history.tab, H!selectedRecentProof, history.shown>>
  <1>2. /\ H!dependencies.lookup = Here
        /\ H!dependencies'.lookup = Here'
    BY DEF H!dependencies
  <1>3. CASE \E r \in Requests : H!Serve(r)
    <2>1. PICK r \in Requests : H!Serve(r)
      BY <1>3
    <2>2. /\ HistoryTypes' /\ FailureTold' /\ history' = history /\ ran' = ran
          /\ budget.failed => budget'.failed
          /\ \A s \in Requests : requests[s] # None /\ requests[s].op = "lookup" =>
                /\ requests'[s] # None /\ requests'[s].op = "lookup"
                /\ requests'[s].id = requests[s].id
      BY <1>1, <2>1, Served
    <2>3. H!selectedRecentProof' = H!selectedRecentProof
      BY <2>2 DEF H!selectedRecentProof
    <2>4. Looked'
      BY <1>1, <1>2, <2>2, <2>3 DEF Looked
    <2> QED BY <2>2, <2>4 DEF HistoryInv
  <1>4. CASE H!Effects
    <2>1. /\ Added /\ history' \in Histories /\ log' = log /\ ask' = ask /\ budget' = budget
          /\ ran' = H!dependencies
          /\ history.tab = "proofs" /\ H!selectedRecentProof \notin {None, history.shown} =>
                \/ \E r \in Requests : /\ requests'[r] # None /\ requests'[r].op = "lookup"
                                       /\ requests'[r].id = H!selectedRecentProof
                \/ history.shown = None /\ budget.failed
      BY <1>1, <1>4, EffectsRan
    <2>2. HistoryTypes'
      BY <1>1, <2>1 DEF HistoryTypes, Added
    <2>3. FailureTold'
      BY <1>1, <2>1 DEF FailureTold, Added
    <2>4. ASSUME H!dependencies'.lookup = ran'.lookup
          PROVE  /\ history'.tab = history.tab /\ history'.shown = history.shown
                 /\ H!selectedRecentProof' = H!selectedRecentProof
      BY <1>2, <2>1, <2>4
    <2>5. Looked'
      BY <2>1, <2>4 DEF Looked
    <2> QED BY <2>2, <2>3, <2>5 DEF HistoryInv
  <1>5. CASE H!dependencies = ran /\ H!Operate
    <2>1. /\ Added /\ history' \in Histories /\ log' = log /\ ask' = ask /\ ran' = ran
          /\ budget' \in [clicks : Nat, failures : Nat, failed : BOOLEAN]
          /\ budget'.failed = budget.failed
      BY <1>1, <1>5, Operated
    <2>2. HistoryTypes'
      BY <1>1, <2>1 DEF HistoryTypes, Added
    <2>3. FailureTold'
      BY <1>1, <2>1 DEF FailureTold, Added
    <2>4. ASSUME H!dependencies'.lookup = ran'.lookup
          PROVE  /\ history'.tab = history.tab /\ history'.shown = history.shown
                 /\ H!selectedRecentProof' = H!selectedRecentProof
                 /\ H!dependencies.lookup = ran.lookup
      BY <1>2, <1>5, <2>1, <2>4
    <2>5. Looked'
      BY <1>1, <2>1, <2>4 DEF Looked, Added
    <2> QED BY <2>2, <2>3, <2>5 DEF HistoryInv
  <1>6. CASE H!dependencies = ran /\ \E r \in Requests : H!Answer(r)
    <2>1. PICK r \in Requests : H!Answer(r)
      BY <1>6
    <2>2. /\ ask' \in Seen /\ history' \in Histories /\ log' = log /\ ran' = ran /\ budget' = budget
          /\ requests' = [requests EXCEPT ![r] = None]
          /\ requests[r] # None /\ requests[r].served
          /\ requests[r].op = "lookup" => history'.shown = H!Read(requests[r])
      BY <1>1, <2>1, Answers
    <2>3. \A s \in Requests : requests'[s] = IF s = r THEN None ELSE requests[s]
      BY <1>1, <2>2 DEF HistoryTypes
    <2>4. HistoryTypes'
      BY <1>1, <2>2 DEF HistoryTypes
    <2>5. FailureTold'
      BY <1>1, <2>2, <2>3 DEF FailureTold
    <2>6. ASSUME H!dependencies'.lookup = ran'.lookup
          PROVE  /\ history'.tab = history.tab /\ history'.shown = history.shown
                 /\ H!selectedRecentProof' = H!selectedRecentProof
                 /\ H!dependencies.lookup = ran.lookup
      BY <1>2, <1>6, <2>2, <2>6
    <2>7. ASSUME history'.shown = history.shown, H!selectedRecentProof \notin {None, history.shown},
                 requests[r].op = "lookup", requests[r].id = H!selectedRecentProof
          PROVE  history.shown = None /\ budget.failed
      BY <1>1, <2>2, <2>7 DEF H!Read, FailureTold
    <2>8. Looked'
      <3>1. SUFFICES ASSUME H!dependencies'.lookup = ran'.lookup, history'.tab = "proofs",
                            H!selectedRecentProof' \notin {None, history'.shown}
                     PROVE  \/ \E s \in Requests : /\ requests'[s] # None /\ requests'[s].op = "lookup"
                                                   /\ requests'[s].id = H!selectedRecentProof'
                            \/ history'.shown = None /\ budget'.failed
        BY DEF Looked
      <3>2. \/ \E s \in Requests : /\ requests[s] # None /\ requests[s].op = "lookup"
                                   /\ requests[s].id = H!selectedRecentProof
            \/ history.shown = None /\ budget.failed
        BY <1>1, <2>6, <3>1 DEF Looked
      <3> QED BY <2>2, <2>3, <2>6, <2>7, <3>1, <3>2
    <2> QED BY <2>4, <2>5, <2>8 DEF HistoryInv
  <1> QED BY <1>3, <1>4, <1>5, <1>6 DEF H!HistoryStep

------------------------------------------------------------------------------
(* Connect, Org Browser, Refresh & Build.                                  *)

Refreshes == {"refresh", "rebaseline"}
Pipelines == {"authPipeline", "pipeline"}
OrgOps    == {"connect", "switch", "bridge", "disconnect", "overview", "session", "status", "preflight"}

Servers == [session : Sessions, retrieves : Seq(Retrieves), snapshot : Nat]
Pages ==
    [orgAlias : Aliases \cup {None}, session : Sessions \cup {None}, status : Sessions \cup {None},
     runtimeUnavailable : BOOLEAN]
Browsers ==
    [blocked : SUBSET Families, cart : Selections, members : [Families -> SUBSET Members],
     lastCatalogAlias : Aliases \cup {None}, handoff : Handoffs \cup {None}, selections : Selections]
RefreshReplies == [snapshotId : Nat, skipped : BOOLEAN, refreshedAt : Nat]
RefreshRuns  == [snapshotId : Nat, skipped : BOOLEAN, refreshedAt : Nat, lineage : Lineages]
DiffRuns     == [refreshSnapshotId : Nat, lineage : Lineages]
PipelineRuns ==
    [alias : Aliases, metadataArgs : Selections, completedAt : Nat, runRetrieve : BOOLEAN,
     lineage : Lineages \cup {None}]
Works ==
    [lastRefreshRun : RefreshRuns \cup {None}, lastDiffRun : DiffRuns \cup {None},
     lastOrgRetrieveRun : PipelineRuns \cup {None}, refreshSnapshots : Seq(Nat),
     fromSnapshot : Snapshots, toSnapshot : Snapshots,
     refreshNeedsRebaseline : BOOLEAN, orgRunRetrieve : BOOLEAN]

\* What a click of Refresh & Build keeps, and what that lets it file.
Closures ==
    [handoff : Handoffs \cup {None}, selections : Selections, orgAlias : Aliases \cup {None},
     orgRunRetrieve : BOOLEAN, snapshotId : Snapshots]

\* The n-th retrieve of the API brought args from the org alias.
Brought(n, alias, args) ==
    /\ n \in DOMAIN server.retrieves
    /\ server.retrieves[n] = [alias |-> alias, metadataArgs |-> args]

Fields(c) ==
    c = [op |-> c.op, alias |-> c.alias, selections |-> c.selections, first |-> c.first,
         at |-> c.at, left |-> c.left, result |-> c.result, reply |-> c.reply,
         status |-> c.status, gone |-> c.gone]

\* A request is about its own alias and selections, and what it kept was there
\* when it was made.
Sent(c) ==
    /\ Fields(c)
    /\ c.op # "catalog" => c.alias \in Aliases \cup {None}
    /\ c.op = "retrieve" => c.alias = None
    /\ c.op \in {"retrieve"} \cup Pipelines => c.selections \in Selections
    /\ c.left \subseteq IF c.op = "overview" THEN {"session", "status"} ELSE {c.op}
    /\ c.op \in OrgOps => {c.reply, c.status} \subseteq Sessions \cup {None}
    /\ c.op \in Refreshes \cup {"diff"} \cup Pipelines => c.at \in Closures
    /\ c.op \in Refreshes \cup {"diff"} => Lineage(c) \in Lineages
    /\ c.op = "diff" => c.at.snapshotId \in Nat
    /\ c.op \in Refreshes \cup Pipelines /\ c.at.handoff # None =>
          c.at.handoff.completedAt \in Nat /\ c.at.handoff.completedAt <= Len(server.retrieves)
    /\ c.op \in Pipelines /\ c.at.orgRunRetrieve => c.selections # {} /\ c.at.handoff # None

\* What an answer tells is what the API did.
Told(c) ==
    c.left = {} /\ c.result = "ok" =>
        /\ c.op = "retrieve" => /\ c.reply \in Handoffs /\ c.reply.metadataArgs = c.selections
                                /\ Brought(c.reply.completedAt, c.reply.alias, c.selections)
        /\ c.op = "catalog" => c.reply \subseteq Families
        /\ c.op = "members" => c.reply \subseteq Members
        /\ c.op \in Refreshes =>
              /\ c.reply \in RefreshReplies
              /\ c.reply.skipped \/ c.reply.snapshotId = c.reply.refreshedAt
              /\ c.at.handoff # None => c.reply.refreshedAt >= c.at.handoff.completedAt
        /\ c.op \in Pipelines =>
              /\ c.reply.metadataArgs = c.selections
              /\ c.reply.alias \in Aliases /\ c.reply.completedAt \in Nat
              /\ c.selections # {} =>
                    /\ Brought(c.reply.completedAt, c.reply.alias, c.selections)
                    /\ c.at.handoff # None => c.reply.completedAt > c.at.handoff.completedAt

CallsInv ==
    /\ calls = [s \in Slots |-> calls[s]]
    /\ \A s \in Slots : calls[s] # None => Sent(calls[s]) /\ Told(calls[s])

WorkTypes ==
    /\ server \in Servers /\ org \in Pages /\ browser \in Browsers /\ work \in Works
    /\ IsInjective(work.refreshSnapshots)

\* A recorded run was answered after the handoff of its lineage came, and built
\* its snapshot then unless it says skipped.
RefreshRunInv ==
    LET run == work.lastRefreshRun
    IN  run # None =>
            /\ run.skipped \/ run.snapshotId = run.refreshedAt
            /\ run.lineage # None => run.refreshedAt >= run.lineage.handoffCompletedAt

PipelineRunInv ==
    LET run == work.lastOrgRetrieveRun
    IN  run # None /\ run.runRetrieve =>
            /\ Brought(run.completedAt, run.alias, run.metadataArgs)
            /\ run.lineage # None => run.completedAt > run.lineage.handoffCompletedAt

WorkInv ==
    WorkTypes /\ CallsInv /\ RefreshRunInv /\ PipelineRunInv /\ HandoffIsOneRetrieve

\* The filter of a list without repetitions has none either, nor what it drops.
LEMMA Filtered ==
    ASSUME NEW l \in Seq(Nat), IsInjective(l), NEW x
    PROVE  /\ Without(l, x) \in Seq(Nat) /\ IsInjective(Without(l, x))
           /\ \A k \in DOMAIN Without(l, x) : Without(l, x)[k] # x
  <1>1. PICK kept : kept = {i \in DOMAIN l : l[i] # x}
    OBVIOUS
  <1>2. PICK rank : rank = [i \in kept |-> Cardinality({j \in kept : j <= i})]
    OBVIOUS
  <1>3. kept \subseteq 1..Len(l) /\ Len(l) \in Nat /\ DOMAIN l = 1..Len(l)
    BY <1>1, LenProperties
  <1>4. IsFiniteSet(kept) /\ Cardinality(kept) \in Nat
    <2>1. IsFiniteSet(1..Len(l))
      BY <1>3, FS_Interval
    <2> QED BY <1>3, <2>1, FS_Subset, FS_CardinalityType
  <1>5. ASSUME NEW i \in kept
        PROVE  /\ IsFiniteSet({j \in kept : j <= i})
               /\ Cardinality({j \in kept : j <= i}) \in 1..Cardinality(kept)
    <2>1. PICK below : below = {j \in kept : j <= i}
      OBVIOUS
    <2>2. below \in SUBSET kept /\ i \in below
      BY <1>3, <2>1
    <2>3. IsFiniteSet(below) /\ Cardinality(below) <= Cardinality(kept)
      BY <1>4, <2>2, FS_Subset
    <2>4. Cardinality(below) \in Nat /\ Cardinality(below) # 0
      BY <2>2, <2>3, FS_CardinalityType, FS_EmptySet
    <2> QED BY <1>4, <2>1, <2>3, <2>4
  <1>6. rank \in Injection(kept, 1..Cardinality(kept))
    <2>1. rank \in [kept -> 1..Cardinality(kept)]
      BY <1>2, <1>5
    <2>2. ASSUME NEW i \in kept, NEW h \in kept, h < i PROVE rank[h] # rank[i]
      <3>1. PICK few, more : few = {j \in kept : j <= h} /\ more = {j \in kept : j <= i}
        OBVIOUS
      <3>2. h \in Nat /\ i \in Nat /\ kept \subseteq Nat
        BY <1>3
      <3>3. few \in SUBSET more /\ i \in more /\ i \notin few
        <4>1. (\A j \in kept : j <= h => j <= i) /\ i <= i /\ ~(i <= h)
          BY <2>2, <3>2
        <4> QED BY <3>1, <4>1
      <3>4. IsFiniteSet(more)
        BY <1>5, <3>1
      <3>5. Cardinality(few) # Cardinality(more)
        BY <3>3, <3>4, FS_Subset
      <3> QED BY <1>2, <3>1, <3>5
    <2>3. ASSUME NEW i \in kept, NEW h \in kept, rank[h] = rank[i] PROVE h = i
      <3>1. h \in Nat /\ i \in Nat
        BY <1>3
      <3>2. ~(h < i) /\ ~(i < h)
        BY <2>2, <2>3
      <3> QED BY <3>1, <3>2
    <2> QED BY <2>1, <2>3 DEF Injection, IsInjective
  <1>7. \A k \in 1..Cardinality(kept) : \E i \in kept : rank[i] = k
    <2>1. IsFiniteSet(1..Cardinality(kept)) /\ Cardinality(1..Cardinality(kept)) = Cardinality(kept)
      BY <1>4, FS_Interval
    <2>2. rank \in Surjection(kept, 1..Cardinality(kept))
      BY <1>6, <2>1, FS_Injection
    <2> QED BY <2>2 DEF Surjection
  <1>8. PICK nth : nth = [k \in 1..Cardinality(kept) |->
                             CHOOSE i \in kept : Cardinality({j \in kept : j <= i}) = k]
    OBVIOUS
  <1>9. \A k \in 1..Cardinality(kept) : nth[k] \in kept /\ rank[nth[k]] = k
    BY <1>2, <1>7, <1>8
  <1>10. Without(l, x) = [k \in 1..Cardinality(kept) |-> l[nth[k]]]
    BY <1>1, <1>8 DEF Without
  <1>11. \A k \in 1..Cardinality(kept) : l[nth[k]] \in Nat /\ l[nth[k]] # x
    BY <1>1, <1>3, <1>9, ElementOfSeq
  <1>12. \A k, h \in 1..Cardinality(kept) : l[nth[k]] = l[nth[h]] => k = h
    BY <1>1, <1>9 DEF IsInjective
  <1>13. Without(l, x) \in Seq(Nat)
    BY <1>4, <1>10, <1>11, IsASeq
  <1> QED BY <1>10, <1>11, <1>12, <1>13 DEF IsInjective

\* What a ready handoff is filed as.
LEMMA LineageType ==
    ASSUME NEW handoff \in Handoffs \cup {None}, NEW selections \in Selections, NEW alias
    PROVE  LET lineage == buildWorkflowLineage(handoff, selections, alias)
           IN  /\ lineage \in Lineages \cup {None}
               /\ IsReady(handoff, selections, alias) => lineage \in Lineages
  <1>1. ASSUME IsReady(handoff, selections, alias)
        PROVE  buildWorkflowLineage(handoff, selections, alias) \in Lineages
    <2>1. handoff \in Handoffs
      BY <1>1 DEF IsReady, assessRetrieveHandoff
    <2>2. selectionCount(selections) \in Nat
      <3>1. {x[1] : x \in selections} \in SUBSET Families
        BY DEF Selections
      <3> QED BY <3>1, WebAssumption, FS_Subset, FS_CardinalityType DEF selectionCount
    <2> QED BY <1>1, <2>1, <2>2 DEF buildWorkflowLineage, Lineages, Handoffs
  <1>2. ~IsReady(handoff, selections, alias) => buildWorkflowLineage(handoff, selections, alias) = None
    BY DEF buildWorkflowLineage
  <1> QED BY <1>1, <1>2

\* What each step of the API leaves in each field.
LEMMA ServerSteps ==
    ASSUME NEW v \in Servers
    PROVE  /\ \A a \in Aliases : /\ Connected(v, a) \in Servers
                                 /\ Connected(v, a).retrieves = v.retrieves
                                 /\ Connected(v, a).session.alias = a
           /\ Disconnected(v) \in Servers /\ Disconnected(v).retrieves = v.retrieves
           /\ \A a \in Aliases, args \in Selections :
                /\ Retrieved(v, a, args) \in Servers /\ Retrieved(v, a, args).session = v.session
                /\ Retrieved(v, a, args).retrieves =
                       Append(v.retrieves, [alias |-> a, metadataArgs |-> args])
           /\ Built(v) \in Servers /\ Built(v).session = v.session /\ Built(v).retrieves = v.retrieves
           /\ Built(v).snapshot = Len(v.retrieves) /\ Len(v.retrieves) \in Nat
  <1>1. ASSUME NEW a \in Aliases
        PROVE  /\ Connected(v, a) \in Servers /\ Connected(v, a).retrieves = v.retrieves
               /\ Connected(v, a).session.alias = a
    BY DEF Connected, Servers, Sessions
  <1>2. Disconnected(v) \in Servers /\ Disconnected(v).retrieves = v.retrieves
    BY DEF Disconnected, Servers, Sessions
  <1>3. ASSUME NEW a \in Aliases, NEW args \in Selections
        PROVE  /\ Retrieved(v, a, args) \in Servers /\ Retrieved(v, a, args).session = v.session
               /\ Retrieved(v, a, args).retrieves =
                      Append(v.retrieves, [alias |-> a, metadataArgs |-> args])
    <2>1. PICK e \in Retrieves : e = [alias |-> a, metadataArgs |-> args]
      BY DEF Retrieves
    <2>2. PICK l \in Seq(Retrieves) : l = Append(v.retrieves, e)
      BY AppendProperties DEF Servers
    <2>3. Retrieved(v, a, args) = [v EXCEPT !.retrieves = l]
      BY <2>1, <2>2 DEF Retrieved
    <2> QED BY <2>1, <2>2, <2>3 DEF Servers
  <1>4. /\ Built(v) \in Servers /\ Built(v).session = v.session /\ Built(v).retrieves = v.retrieves
        /\ Built(v).snapshot = Len(v.retrieves) /\ Len(v.retrieves) \in Nat
    <2>1. Len(v.retrieves) \in Nat
      BY LenProperties DEF Servers
    <2>2. PICK n \in Nat : n = Len(v.retrieves)
      BY <2>1
    <2>3. Built(v) = [v EXCEPT !.snapshot = n]
      BY <2>2 DEF Built
    <2> QED BY <2>2, <2>3 DEF Servers
  <1> QED BY <1>1, <1>2, <1>3, <1>4

\* The retrieves of the API after a step of it: none more, or one.
Grown(v, w) ==
    /\ Len(v.retrieves) \in Nat /\ Len(w.retrieves) \in Nat
    /\ Len(v.retrieves) <= Len(w.retrieves)
    /\ \A n \in DOMAIN v.retrieves : n \in DOMAIN w.retrieves /\ w.retrieves[n] = v.retrieves[n]

LEMMA Grows ==
    ASSUME NEW v \in Servers, NEW w \in Servers, NEW e \in Retrieves,
           w.retrieves = v.retrieves \/ w.retrieves = Append(v.retrieves, e)
    PROVE  /\ Grown(v, w)
           /\ w.retrieves = Append(v.retrieves, e) =>
                /\ Len(w.retrieves) \in DOMAIN w.retrieves /\ w.retrieves[Len(w.retrieves)] = e
                /\ Len(w.retrieves) > Len(v.retrieves)
  <1>1. PICK l \in Seq(Retrieves), k \in Seq(Retrieves) : l = v.retrieves /\ k = w.retrieves
    BY DEF Servers
  <1>2. Len(l) \in Nat /\ DOMAIN l = 1..Len(l)
    BY LenProperties
  <1>3. CASE k = l
    <2>1. PICK n \in Nat : n = Len(l)
      BY <1>2
    <2>2. n <= n
      BY <2>1
    <2>3. l = Append(l, e) => FALSE
      <3>1. Len(Append(l, e)) = Len(l) + 1
        BY AppendProperties
      <3> QED BY <2>1, <3>1
    <2> QED BY <1>1, <1>2, <1>3, <2>1, <2>2, <2>3 DEF Grown
  <1>4. CASE k = Append(l, e)
    <2>1. /\ Len(k) = Len(l) + 1 /\ DOMAIN k = 1..(Len(l) + 1) /\ k[Len(l) + 1] = e
          /\ \A n \in 1..Len(l) : k[n] = l[n]
      BY <1>4, AppendProperties, LenProperties
    <2>2. PICK n \in Nat : n = Len(l)
      BY <1>2
    <2>3. n <= n + 1 /\ n + 1 > n /\ n + 1 \in 1..(n + 1) /\ (\A i \in 1..n : i \in 1..(n + 1))
          /\ n + 1 \in Nat
      BY <2>2
    <2> QED BY <1>1, <1>2, <2>1, <2>2, <2>3 DEF Grown
  <1> QED BY <1>1, <1>3, <1>4

\* What was told stays true: the API only adds to its retrieves.
LEMMA StaysTold ==
    ASSUME Grown(server, server')
    PROVE  /\ \A n, alias, args : Brought(n, alias, args) => Brought(n, alias, args)'
           /\ \A c : Sent(c) => Sent(c)'
           /\ \A c : Told(c) => Told(c)'
           /\ work' = work => (RefreshRunInv => RefreshRunInv') /\ (PipelineRunInv => PipelineRunInv')
           /\ browser' = browser => (HandoffIsOneRetrieve => HandoffIsOneRetrieve')
  <1>1. \A n, alias, args : Brought(n, alias, args) => Brought(n, alias, args)'
    BY DEF Brought, Grown
  <1>2. ASSUME NEW c, Sent(c) PROVE Sent(c)'
    <2>1. PICK a, b : a = Len(server.retrieves) /\ b = Len(server'.retrieves)
      OBVIOUS
    <2>2. a \in Nat /\ b \in Nat /\ a <= b
      BY <2>1 DEF Grown
    <2>3. c.at.handoff.completedAt \in Nat /\ c.at.handoff.completedAt <= a
            => c.at.handoff.completedAt <= b
      BY <2>2
    <2> QED BY <1>2, <2>1, <2>3 DEF Sent
  <1>3. ASSUME NEW c, Told(c) PROVE Told(c)'
    BY <1>1, <1>3 DEF Told
  <1>4. work' = work => (RefreshRunInv => RefreshRunInv') /\ (PipelineRunInv => PipelineRunInv')
    BY <1>1 DEF RefreshRunInv, PipelineRunInv
  <1>5. browser' = browser => (HandoffIsOneRetrieve => HandoffIsOneRetrieve')
    BY DEF HandoffIsOneRetrieve, Grown
  <1> QED BY <1>1, <1>2, <1>3, <1>4, <1>5

\* Where a request may leave the API, and what it has done when it ends well.
LEMMA StagesOf ==
    ASSUME server \in Servers, NEW c, Sent(c)
    PROVE  /\ Ends(c) \subseteq DOMAIN Stages(c)
           /\ \A i \in DOMAIN Stages(c) :
                /\ Stages(c)[i] \in Servers
                /\ \/ Stages(c)[i].retrieves = server.retrieves
                   \/ \E e \in Retrieves : Stages(c)[i].retrieves = Append(server.retrieves, e)
           /\ \A i \in Ends(c) :
                /\ c.op = "retrieve" =>
                     /\ Stages(c)[i].session.alias = server.session.alias
                     /\ Stages(c)[i].retrieves = Append(server.retrieves,
                            [alias |-> server.session.alias, metadataArgs |-> c.selections])
                /\ c.op \in Pipelines =>
                     LET alias == IF c.alias = None THEN server.session.alias ELSE c.alias
                     IN  /\ alias \in Aliases
                         /\ c.alias = None => Stages(c)[i].session.alias = alias
                         /\ c.selections = {} => Stages(c)[i].retrieves = server.retrieves
                         /\ c.selections # {} => Stages(c)[i].retrieves = Append(server.retrieves,
                                [alias |-> alias, metadataArgs |-> c.selections])
                /\ c.op \in Refreshes =>
                     /\ Stages(c)[i].retrieves = server.retrieves
                     /\ i = Len(Stages(c)) => Stages(c)[i].snapshot = Len(server.retrieves)
  <1>1. PICK a : a = IF c.alias = None THEN server.session.alias ELSE c.alias
    OBVIOUS
  <1>2. PICK v : v = IF c.op = "authPipeline" THEN Connected(server, a) ELSE server
    OBVIOUS
  <1>3. server.session.alias \in Aliases
    BY DEF Servers, Sessions
  <1>4. c.op # "catalog" => a \in Aliases
    BY <1>1, <1>3 DEF Sent
  <1>5. PICK u \in Servers : u = server
    OBVIOUS
  <1>6. CASE c.op \in {"connect", "switch", "disconnect"}
    <2>1. a \in Aliases
      BY <1>4, <1>6
    <2>2. PICK w \in Servers : /\ w = (IF c.op = "disconnect" THEN Disconnected(server)
                                       ELSE Connected(server, a))
                               /\ w.retrieves = server.retrieves
      <3>1. /\ Connected(server, a) \in Servers /\ Connected(server, a).retrieves = server.retrieves
            /\ Disconnected(server) \in Servers /\ Disconnected(server).retrieves = server.retrieves
        BY <2>1, ServerSteps
      <3> QED BY <3>1
    <2>3. Stages(c) = <<u, w>>
      BY <1>1, <1>5, <1>6, <2>2 DEF Stages
    <2>4. /\ DOMAIN <<u, w>> = {1, 2} /\ Len(<<u, w>>) = 2 /\ <<u, w>>[1] = u /\ <<u, w>>[2] = w
      OBVIOUS
    <2>5. Ends(c) = {2}
      BY <1>6, <2>3, <2>4 DEF Ends
    <2> QED BY <1>5, <1>6, <2>2, <2>3, <2>4, <2>5 DEF Pipelines, Refreshes
  <1>7. CASE c.op = "retrieve"
    <2>1. a = server.session.alias /\ c.selections \in Selections
      BY <1>1, <1>7 DEF Sent
    <2>2. PICK e \in Retrieves : e = [alias |-> a, metadataArgs |-> c.selections]
      BY <1>3, <2>1 DEF Retrieves
    <2>3. PICK f \in Servers : /\ f = Retrieved(server, a, c.selections)
                               /\ f.retrieves = Append(server.retrieves, e) /\ f.session = server.session
      BY <1>3, <2>1, <2>2, ServerSteps
    <2>4. PICK w \in Servers : w = Built(f) /\ w.retrieves = f.retrieves /\ w.session = f.session
      BY ServerSteps
    <2>5. Stages(c) = <<u, f, w>>
      BY <1>1, <1>5, <1>7, <2>3, <2>4 DEF Stages
    <2>6. /\ DOMAIN <<u, f, w>> = {1, 2, 3} /\ Len(<<u, f, w>>) = 3 /\ <<u, f, w>>[1] = u
          /\ <<u, f, w>>[2] = f /\ <<u, f, w>>[3] = w
      OBVIOUS
    <2>7. Ends(c) = {2, 3}
      BY <1>7, <2>5, <2>6 DEF Ends
    <2>8. ASSUME NEW i \in {1, 2, 3}
          PROVE  /\ Stages(c)[i] \in Servers
                 /\ \/ Stages(c)[i].retrieves = server.retrieves
                    \/ Stages(c)[i].retrieves = Append(server.retrieves, e)
                 /\ i # 1 => /\ Stages(c)[i].retrieves = Append(server.retrieves, e)
                             /\ Stages(c)[i].session = server.session
      BY <1>5, <2>3, <2>4, <2>5, <2>6
    <2> QED BY <1>7, <2>1, <2>2, <2>5, <2>6, <2>7, <2>8 DEF Pipelines, Refreshes
  <1>8. CASE c.op \in Pipelines
    <2>1. a \in Aliases /\ c.selections \in Selections
      BY <1>4, <1>8 DEF Sent, Pipelines
    <2>2. v \in Servers /\ v.retrieves = server.retrieves
          /\ (c.alias = None => v.session.alias = a)
      BY <1>1, <1>2, <2>1, ServerSteps
    <2>3. PICK e \in Retrieves : e = [alias |-> a, metadataArgs |-> c.selections]
      BY <2>1 DEF Retrieves
    <2>4. PICK f \in Servers : /\ f = (IF c.selections = {} THEN v ELSE Retrieved(v, a, c.selections))
                               /\ c.selections = {} => f.retrieves = server.retrieves
                               /\ c.selections # {} => f.retrieves = Append(server.retrieves, e)
                               /\ f.session = v.session
      <3>1. PICK f : f = IF c.selections = {} THEN v ELSE Retrieved(v, a, c.selections)
        OBVIOUS
      <3>2. /\ Retrieved(v, a, c.selections) \in Servers
            /\ Retrieved(v, a, c.selections).session = v.session
            /\ Retrieved(v, a, c.selections).retrieves = Append(v.retrieves, e)
        BY <2>1, <2>2, <2>3, ServerSteps
      <3>3. CASE c.selections = {}
        BY <2>2, <3>1, <3>3
      <3>4. CASE c.selections # {}
        BY <2>2, <3>1, <3>2, <3>4
      <3> QED BY <3>3, <3>4
    <2>5. PICK w \in Servers : w = Built(f) /\ w.retrieves = f.retrieves /\ w.session = f.session
      BY ServerSteps
    <2>6. Stages(c) = <<u, v, f, w>>
      BY <1>1, <1>2, <1>5, <1>8, <2>4, <2>5 DEF Stages, Pipelines
    <2>7. /\ DOMAIN <<u, v, f, w>> = {1, 2, 3, 4} /\ Len(<<u, v, f, w>>) = 4
          /\ <<u, v, f, w>>[1] = u /\ <<u, v, f, w>>[2] = v
          /\ <<u, v, f, w>>[3] = f /\ <<u, v, f, w>>[4] = w
      OBVIOUS
    <2>8. Ends(c) = {3, 4}
      BY <1>8, <2>6, <2>7 DEF Ends, Pipelines
    <2>9. ASSUME NEW i \in {1, 2, 3, 4}
          PROVE  /\ Stages(c)[i] \in Servers
                 /\ \/ Stages(c)[i].retrieves = server.retrieves
                    \/ Stages(c)[i].retrieves = Append(server.retrieves, e)
      BY <1>5, <2>2, <2>4, <2>5, <2>6, <2>7
    <2>10. ASSUME NEW i \in {3, 4}
           PROVE  /\ c.selections = {} => Stages(c)[i].retrieves = server.retrieves
                  /\ c.selections # {} => Stages(c)[i].retrieves = Append(server.retrieves, e)
                  /\ c.alias = None => Stages(c)[i].session.alias = a
      BY <2>2, <2>4, <2>5, <2>6, <2>7
    <2>11. c.op # "retrieve" /\ c.op \notin Refreshes
      BY <1>8 DEF Pipelines, Refreshes
    <2> QED BY <1>1, <2>1, <2>3, <2>6, <2>7, <2>8, <2>9, <2>10, <2>11
  <1>9. CASE c.op \in Refreshes
    <2>1. PICK w \in Servers : /\ w = Built(server) /\ w.retrieves = server.retrieves
                               /\ w.snapshot = Len(server.retrieves)
      BY ServerSteps
    <2>2. Stages(c) = <<u, w>>
      BY <1>5, <1>9, <2>1 DEF Stages, Refreshes
    <2>3. /\ DOMAIN <<u, w>> = {1, 2} /\ Len(<<u, w>>) = 2 /\ <<u, w>>[1] = u /\ <<u, w>>[2] = w
      OBVIOUS
    <2>4. Ends(c) = {1, 2}
      BY <1>9, <2>2, <2>3 DEF Ends, Refreshes
    <2>5. c.op # "retrieve" /\ c.op \notin Pipelines
      BY <1>9 DEF Pipelines, Refreshes
    <2> QED BY <1>5, <2>1, <2>2, <2>3, <2>4, <2>5
  <1>10. CASE c.op \notin {"connect", "switch", "disconnect", "retrieve"} \cup Pipelines \cup Refreshes
    <2>1. Stages(c) = <<u>>
      BY <1>5, <1>10 DEF Stages, Pipelines, Refreshes
    <2>2. DOMAIN <<u>> = {1} /\ Len(<<u>>) = 1 /\ <<u>>[1] = u
      OBVIOUS
    <2>3. Ends(c) = {1}
      BY <1>10, <2>1, <2>2 DEF Ends, Pipelines, Refreshes
    <2> QED BY <1>5, <1>10, <2>1, <2>2, <2>3
  <1> QED BY <1>6, <1>7, <1>8, <1>9, <1>10

------------------------------------------------------------------------------
(* The steps of the workspaces.                                            *)

LEMMA DoneFields ==
    ASSUME NEW c, Fields(c), NEW part, NEW result, NEW payload, NEW d, d = Done(c, part, result, payload)
    PROVE  /\ Fields(d) /\ d.op = c.op /\ d.alias = c.alias /\ d.selections = c.selections
           /\ d.at = c.at /\ d.left = c.left \ {part} /\ (d.result = "ok" => result = "ok")
           /\ (part # "status" => d.reply = payload)
           /\ d.reply \in {c.reply, payload} /\ d.status \in {c.status, payload}
  <1>1. PICK left, res, reply, status :
            /\ left = c.left \ {part}
            /\ res = (IF c.result = "ok" \/ result = "down" THEN result ELSE c.result)
            /\ reply = (IF part # "status" THEN payload ELSE c.reply)
            /\ status = (IF part = "status" THEN payload ELSE c.status)
    OBVIOUS
  <1>2. d = [c EXCEPT !.left = left, !.result = res, !.reply = reply, !.status = status]
    BY <1>1 DEF Done
  <1>3. d = [op |-> c.op, alias |-> c.alias, selections |-> c.selections, first |-> c.first,
             at |-> c.at, left |-> left, result |-> res, reply |-> reply,
             status |-> status, gone |-> c.gone]
    BY <1>2 DEF Fields
  <1>4. res = "ok" => result = "ok"
    BY <1>1
  <1> QED BY <1>1, <1>3, <1>4 DEF Fields

LEMMA DoneIsSent ==
    ASSUME NEW c, Sent(c), NEW part, NEW result, NEW payload, NEW d, d = Done(c, part, result, payload),
           c.op \in OrgOps => payload \in Sessions \cup {None}
    PROVE  Sent(d)
  <1>1. /\ Fields(d) /\ d.op = c.op /\ d.alias = c.alias /\ d.selections = c.selections
        /\ d.at = c.at /\ d.left \subseteq c.left
        /\ d.reply \in {c.reply, payload} /\ d.status \in {c.status, payload}
    BY DoneFields DEF Sent
  <1>2. Lineage(d) = Lineage(c)
    BY <1>1 DEF Lineage
  <1> QED BY <1>1, <1>2 DEF Sent

\* The answer to a retrieve names what the API has just fetched.
LEMMA RetrieveTold ==
    ASSUME server \in Servers, server' \in Servers, NEW c, Sent(c), c.op = "retrieve",
           NEW end \in Ends(c), server' = Stages(c)[end],
           NEW skipped, NEW reply, reply = Payload(c, "retrieve", server', skipped)
    PROVE  /\ reply \in Handoffs /\ reply.metadataArgs = c.selections
           /\ Brought(reply.completedAt, reply.alias, c.selections)'
  <1>1. PICK a \in Aliases, args \in Selections : a = server.session.alias /\ args = c.selections
    BY DEF Sent, Servers, Sessions
  <1>2. PICK w \in Servers : w = server'
    OBVIOUS
  <1>3. PICK e \in Retrieves : e = [alias |-> a, metadataArgs |-> args]
    BY DEF Retrieves
  <1>4. w.retrieves = Append(server.retrieves, e) /\ w.session.alias = a
    BY <1>1, <1>2, <1>3, StagesOf
  <1>5. PICK n \in Nat : /\ n = Len(w.retrieves) /\ n \in DOMAIN w.retrieves /\ w.retrieves[n] = e
    BY <1>4, Grows DEF Grown
  <1>6. reply = [completedAt |-> n, alias |-> a, metadataArgs |-> args]
    BY <1>1, <1>2, <1>4, <1>5 DEF Payload
  <1> QED BY <1>1, <1>2, <1>3, <1>5, <1>6 DEF Brought, Handoffs

\* The answer to a refresh comes after all that was fetched by then, and names a
\* snapshot of that unless it tells that the rebuild was skipped.
LEMMA RefreshTold ==
    ASSUME server \in Servers, server' \in Servers, NEW c, Sent(c), c.op \in Refreshes,
           NEW end \in Ends(c), server' = Stages(c)[end],
           NEW reply, reply = Payload(c, c.op, server', end # Len(Stages(c)))
    PROVE  /\ reply \in RefreshReplies
           /\ reply.skipped \/ reply.snapshotId = reply.refreshedAt
           /\ c.at.handoff # None => reply.refreshedAt >= c.at.handoff.completedAt
  <1>1. PICK m \in Nat : m = Len(server.retrieves)
    BY LenProperties DEF Servers
  <1>2. PICK w \in Servers, skipped \in BOOLEAN : w = server' /\ skipped = (end # Len(Stages(c)))
    OBVIOUS
  <1>3. Len(w.retrieves) = m /\ (~skipped => w.snapshot = m)
    BY <1>1, <1>2, StagesOf
  <1>4. PICK k \in Nat : k = w.snapshot
    BY DEF Servers
  <1>5. reply = [snapshotId |-> k, skipped |-> skipped, refreshedAt |-> m]
    BY <1>2, <1>3, <1>4 DEF Payload, Refreshes
  <1>6. c.at.handoff # None => c.at.handoff.completedAt \in Nat /\ c.at.handoff.completedAt <= m
    BY <1>1 DEF Sent
  <1>7. c.at.handoff # None => m >= c.at.handoff.completedAt
    BY <1>6
  <1>8. skipped \/ k = m
    BY <1>3, <1>4
  <1> QED BY <1>5, <1>7, <1>8 DEF RefreshReplies

\* The answer to a pipeline names what it has just fetched, if it fetched anything.
LEMMA PipelineTold ==
    ASSUME server \in Servers, server' \in Servers, NEW c, Sent(c), c.op \in Pipelines,
           NEW end \in Ends(c), server' = Stages(c)[end],
           NEW skipped, NEW reply, reply = Payload(c, c.op, server', skipped)
    PROVE  /\ reply.metadataArgs = c.selections
           /\ reply.alias \in Aliases /\ reply.completedAt \in Nat
           /\ c.selections # {} =>
                /\ Brought(reply.completedAt, reply.alias, c.selections)'
                /\ c.at.handoff # None => reply.completedAt > c.at.handoff.completedAt
  <1>1. PICK a \in Aliases : a = IF c.alias = None THEN server.session.alias ELSE c.alias
    BY DEF Sent, Servers, Sessions, Pipelines
  <1>2. PICK args \in Selections : args = c.selections
    BY DEF Sent
  <1>3. PICK w \in Servers : w = server'
    OBVIOUS
  <1>4. /\ c.alias = None => w.session.alias = a
        /\ args # {} => w.retrieves = Append(server.retrieves, [alias |-> a, metadataArgs |-> args])
    BY <1>1, <1>2, <1>3, StagesOf
  <1>5. PICK n \in Nat : n = Len(w.retrieves)
    BY LenProperties DEF Servers
  <1>6. a = IF c.alias = None THEN w.session.alias ELSE c.alias
    BY <1>1, <1>4
  <1>7. reply = [alias |-> a, metadataArgs |-> args, completedAt |-> n]
    BY <1>2, <1>3, <1>5, <1>6 DEF Payload, Pipelines
  <1>8. ASSUME args # {}
        PROVE  /\ Brought(reply.completedAt, reply.alias, args)'
               /\ c.at.handoff # None => reply.completedAt > c.at.handoff.completedAt
    <2>1. PICK e \in Retrieves : e = [alias |-> a, metadataArgs |-> args]
      BY DEF Retrieves
    <2>2. PICK m \in Nat : /\ n \in DOMAIN w.retrieves /\ w.retrieves[n] = e
                           /\ m = Len(server.retrieves) /\ n > m
      BY <1>4, <1>5, <1>8, <2>1, Grows DEF Grown
    <2>3. c.at.handoff # None => c.at.handoff.completedAt \in Nat /\ c.at.handoff.completedAt <= m
      BY <2>2 DEF Sent, Pipelines
    <2>4. c.at.handoff # None => n > c.at.handoff.completedAt
      BY <2>2, <2>3
    <2> QED BY <1>3, <1>7, <2>1, <2>2, <2>4 DEF Brought
  <1> QED BY <1>2, <1>7, <1>8

\* An answer about the org is a session, or nothing.
LEMMA OrgTold ==
    ASSUME server' \in Servers, NEW c, NEW part \in OrgOps, NEW skipped
    PROVE  Payload(c, part, server', skipped) \in Sessions \cup {None}
  <1>1. server'.session \in Sessions
    BY DEF Servers
  <1> QED BY <1>1 DEF Payload, OrgOps

\* A slot is freed or holds another request; the others keep theirs.
LEMMA CallReplaced ==
    ASSUME CallsInv, Grown(server, server'), NEW s \in Slots, NEW d, calls' = [calls EXCEPT ![s] = d],
           d # None => Sent(d)' /\ Told(d)'
    PROVE  CallsInv'
  <1>1. calls' = [t \in Slots |-> calls'[t]] /\ \A t \in Slots : calls'[t] = IF t = s THEN d ELSE calls[t]
    BY DEF CallsInv
  <1>2. \A b : (Sent(b) => Sent(b)') /\ (Told(b) => Told(b)')
    BY StaysTold
  <1>3. ASSUME NEW t \in Slots, calls'[t] # None PROVE (Sent(calls[t]) /\ Told(calls[t]))'
    <2>1. PICK b : b = calls'[t]
      OBVIOUS
    <2>2. Sent(b)' /\ Told(b)'
      <3>1. CASE b = d
        BY <1>3, <2>1, <3>1
      <3>2. CASE b = calls[t]
        <4>1. Sent(b) /\ Told(b)
          BY <1>3, <2>1, <3>2 DEF CallsInv
        <4> QED BY <1>2, <4>1
      <3> QED BY <1>1, <2>1, <3>1, <3>2
    <2> QED BY <2>1, <2>2 DEF Sent, Told, Fields, Brought
  <1> QED BY <1>1, <1>3 DEF CallsInv

\* A part of a request is taken by the API, or fails on the way.
LEMMA WorkServed ==
    ASSUME WorkInv, NEW s \in Slots, Serve(s)
    PROVE  WorkInv'
  <1>1. PICK c : c = calls[s] /\ c # None
    BY DEF Serve
  <1>2. /\ org' = org /\ browser' = browser /\ work' = work /\ server \in Servers
        /\ Sent(c) /\ Told(c) /\ calls = [t \in Slots |-> calls[t]]
    BY <1>1 DEF Serve, WorkInv, WorkTypes, CallsInv
  <1>3. PICK part \in c.left, result \in {"ok", "refused", "down"} :
            \E payload, end :
               /\ end \in Ends(c)
               /\ calls' = [calls EXCEPT ![s] = Done(c, part, result, payload)]
               /\ \E i \in DOMAIN Stages(c) : server' = Stages(c)[i] \/ server' = Disconnected(server)
               /\ result = "ok" => /\ server' = Stages(c)[end]
                                   /\ part = "catalog" => payload \subseteq Families
                                   /\ part = "members" => payload \subseteq Members
                                   /\ part \notin {"catalog", "members"} =>
                                         payload = Payload(c, part, server', end # Len(Stages(c)))
               /\ result # "ok" => payload = None
    <2>1. PICK part \in c.left :
            \/ \E end \in Ends(c) :
                  /\ server' = Stages(c)[end]
                  /\ \E payload \in Replies(c, part, server', end # Len(Stages(c))) :
                        calls' = [calls EXCEPT ![s] = Done(c, part, "ok", payload)]
            \/ \E res \in {"refused", "down"}, i \in DOMAIN Stages(c) :
                  /\ server' = IF c.op = "switch" /\ res = "refused"
                               THEN Disconnected(server) ELSE Stages(c)[i]
                  /\ calls' = [calls EXCEPT ![s] = Done(c, part, res, None)]
      BY <1>1 DEF Serve
    <2>2. Ends(c) \subseteq DOMAIN Stages(c)
      BY <1>2, StagesOf
    <2>3. ASSUME NEW end \in Ends(c), server' = Stages(c)[end],
                 NEW payload \in Replies(c, part, server', end # Len(Stages(c))),
                 calls' = [calls EXCEPT ![s] = Done(c, part, "ok", payload)]
          PROVE  /\ \E i \in DOMAIN Stages(c) : server' = Stages(c)[i] \/ server' = Disconnected(server)
                 /\ part = "catalog" => payload \subseteq Families
                 /\ part = "members" => payload \subseteq Members
                 /\ part \notin {"catalog", "members"} =>
                       payload = Payload(c, part, server', end # Len(Stages(c)))
      <3>1. end \in DOMAIN Stages(c)
        BY <2>2
      <3> QED BY <2>3, <3>1 DEF Replies
    <2>4. \E end : end \in Ends(c)
      BY DEF Ends
    <2>5. CASE \E end \in Ends(c) :
                  /\ server' = Stages(c)[end]
                  /\ \E payload \in Replies(c, part, server', end # Len(Stages(c))) :
                        calls' = [calls EXCEPT ![s] = Done(c, part, "ok", payload)]
      <3>1. PICK end \in Ends(c) :
                  /\ server' = Stages(c)[end]
                  /\ \E payload \in Replies(c, part, server', end # Len(Stages(c))) :
                        calls' = [calls EXCEPT ![s] = Done(c, part, "ok", payload)]
        BY <2>5
      <3>2. PICK payload \in Replies(c, part, server', end # Len(Stages(c))) :
                  calls' = [calls EXCEPT ![s] = Done(c, part, "ok", payload)]
        BY <3>1
      <3> QED BY <2>3, <3>1, <3>2
    <2>6. CASE \E res \in {"refused", "down"}, i \in DOMAIN Stages(c) :
                  /\ server' = IF c.op = "switch" /\ res = "refused"
                               THEN Disconnected(server) ELSE Stages(c)[i]
                  /\ calls' = [calls EXCEPT ![s] = Done(c, part, res, None)]
      BY <2>4, <2>6
    <2> QED BY <2>1, <2>5, <2>6
  <1>31. PICK payload, end :
               /\ end \in Ends(c)
               /\ calls' = [calls EXCEPT ![s] = Done(c, part, result, payload)]
               /\ \E i \in DOMAIN Stages(c) : server' = Stages(c)[i] \/ server' = Disconnected(server)
               /\ result = "ok" => /\ server' = Stages(c)[end]
                                   /\ part = "catalog" => payload \subseteq Families
                                   /\ part = "members" => payload \subseteq Members
                                   /\ part \notin {"catalog", "members"} =>
                                         payload = Payload(c, part, server', end # Len(Stages(c)))
               /\ result # "ok" => payload = None
    BY <1>3
  <1>32. PICK d : d = Done(c, part, result, payload)
    OBVIOUS
  <1>33. calls' = [calls EXCEPT ![s] = d]
    BY <1>31, <1>32
  <1>4. server' \in Servers /\ Grown(server, server')
    <2>1. PICK i \in DOMAIN Stages(c) : server' = Stages(c)[i] \/ server' = Disconnected(server)
      BY <1>31
    <2>2. /\ server' \in Servers
          /\ \/ server'.retrieves = server.retrieves
             \/ \E e \in Retrieves : server'.retrieves = Append(server.retrieves, e)
      <3>1. PICK t : t = Stages(c)[i]
        OBVIOUS
      <3>2. /\ t \in Servers
            /\ \/ t.retrieves = server.retrieves
               \/ \E e \in Retrieves : t.retrieves = Append(server.retrieves, e)
        BY <1>2, <3>1, StagesOf
      <3>3. Disconnected(server) \in Servers /\ Disconnected(server).retrieves = server.retrieves
        BY <1>2, ServerSteps
      <3> QED BY <2>1, <3>1, <3>2, <3>3
    <2>3. PICK v \in Servers, w \in Servers : v = server /\ w = server'
      BY <1>2, <2>2
    <2>4. PICK e \in Retrieves : w.retrieves = v.retrieves \/ w.retrieves = Append(v.retrieves, e)
      <3>1. PICK a \in Aliases : a = server.session.alias
        BY <1>2 DEF Servers, Sessions
      <3>2. [alias |-> a, metadataArgs |-> {}] \in Retrieves
        BY DEF Retrieves, Selections
      <3> QED BY <2>2, <2>3, <3>2
    <2> QED BY <2>3, <2>4, Grows
  <1>5. Sent(d)' /\ Told(d)'
    <2>1. /\ d.op = c.op /\ d.selections = c.selections /\ d.at = c.at
          /\ (d.result = "ok" => result = "ok") /\ (part # "status" => d.reply = payload)
      BY <1>2, <1>32, DoneFields DEF Sent
    <2>2. Sent(d)
      <3>1. c.op \in OrgOps => payload \in Sessions \cup {None}
        <4>1. c.op \in OrgOps => part \in OrgOps \ {"catalog", "members"}
          BY <1>2 DEF Sent, OrgOps
        <4> QED BY <1>31, <1>4, <4>1, OrgTold
      <3> QED BY <1>2, <1>32, <3>1, DoneIsSent
    <2>3. Sent(d)'
      <3>1. \A b : Sent(b) => Sent(b)'
        BY <1>4, StaysTold
      <3> QED BY <2>2, <3>1
    <2>4. ASSUME d.result = "ok", d.op \in {"retrieve", "catalog", "members"} \cup Refreshes \cup Pipelines
          PROVE  /\ part = c.op /\ server' = Stages(c)[end] /\ d.reply = payload
                 /\ c.op = "catalog" => payload \subseteq Families
                 /\ c.op = "members" => payload \subseteq Members
                 /\ c.op \notin {"catalog", "members"} =>
                       payload = Payload(c, c.op, server', end # Len(Stages(c)))
      <3>1. part = c.op
        BY <1>2, <2>1, <2>4 DEF Sent, Refreshes, Pipelines
      <3> QED BY <1>31, <2>1, <2>4, <3>1 DEF Refreshes, Pipelines
    <2>5. Told(d)'
      <3>1. SUFFICES ASSUME d.result = "ok",
                            d.op \in {"retrieve", "catalog", "members"} \cup Refreshes \cup Pipelines
                     PROVE  Told(d)'
        BY DEF Told
      <3>2. CASE d.op = "retrieve"
        <4>1. /\ payload \in Handoffs /\ payload.metadataArgs = c.selections
              /\ Brought(payload.completedAt, payload.alias, c.selections)'
          <5>1. c.op = "retrieve"
            BY <2>1, <3>2
          <5>2. payload = Payload(c, "retrieve", server', end # Len(Stages(c))) /\ server' = Stages(c)[end]
            BY <2>4, <3>1, <5>1
          <5>3. end \in Ends(c)
            BY <1>31
          <5> QED BY <1>2, <1>4, <5>1, <5>2, <5>3, RetrieveTold
        <4> QED BY <2>1, <2>4, <3>1, <3>2, <4>1 DEF Told, Refreshes, Pipelines
      <3>3. CASE d.op \in {"catalog", "members"}
        BY <2>1, <2>4, <3>1, <3>3 DEF Told, Refreshes, Pipelines
      <3>4. CASE d.op \in Refreshes
        <4>1. /\ payload \in RefreshReplies
              /\ payload.skipped \/ payload.snapshotId = payload.refreshedAt
              /\ c.at.handoff # None => payload.refreshedAt >= c.at.handoff.completedAt
          <5>1. c.op \notin {"catalog", "members"} /\ c.op \in Refreshes
            BY <2>1, <3>4 DEF Refreshes
          <5>2. payload = Payload(c, c.op, server', end # Len(Stages(c))) /\ server' = Stages(c)[end]
            BY <2>4, <3>1, <5>1
          <5>3. end \in Ends(c)
            BY <1>31
          <5> QED BY <1>2, <1>4, <5>1, <5>2, <5>3, RefreshTold
        <4> QED BY <2>1, <2>4, <3>1, <3>4, <4>1 DEF Told, Refreshes, Pipelines
      <3>5. CASE d.op \in Pipelines
        <4>1. /\ payload.metadataArgs = c.selections
              /\ payload.alias \in Aliases /\ payload.completedAt \in Nat
              /\ c.selections # {} =>
                   /\ Brought(payload.completedAt, payload.alias, c.selections)'
                   /\ c.at.handoff # None => payload.completedAt > c.at.handoff.completedAt
          <5>1. c.op \notin {"catalog", "members"} /\ c.op \in Pipelines
            BY <2>1, <3>5 DEF Pipelines
          <5>2. payload = Payload(c, c.op, server', end # Len(Stages(c))) /\ server' = Stages(c)[end]
            BY <2>4, <3>1, <5>1
          <5>3. end \in Ends(c)
            BY <1>31
          <5> QED BY <1>2, <1>4, <5>1, <5>2, <5>3, PipelineTold
        <4> QED BY <2>1, <2>4, <3>1, <3>5, <4>1 DEF Told, Refreshes, Pipelines
      <3> QED BY <3>1, <3>2, <3>3, <3>4, <3>5
    <2> QED BY <2>3, <2>5
  <1>6. CallsInv'
    <2>1. CallsInv
      BY DEF WorkInv
    <2> QED BY <1>4, <1>5, <1>33, <2>1, CallReplaced
  <1>7. WorkTypes'
    BY <1>2, <1>4 DEF WorkInv, WorkTypes
  <1>8. RefreshRunInv' /\ PipelineRunInv' /\ HandoffIsOneRetrieve'
    BY <1>2, <1>4, StaysTold DEF WorkInv
  <1> QED BY <1>6, <1>7, <1>8 DEF WorkInv

\* The API at rest.
LEMMA Still ==
    ASSUME WorkTypes, server' = server
    PROVE  Grown(server, server')
  <1>1. PICK l \in Seq(Retrieves) : l = server.retrieves
    BY DEF WorkTypes, Servers
  <1>2. PICK n \in Nat : n = Len(l)
    BY <1>1, LenProperties
  <1> QED BY <1>1, <1>2 DEF Grown

\* A click keeps what the page shows at that moment.
LEMMA CallIsSent ==
    ASSUME WorkInv, NEW op, NEW alias, NEW selections, NEW d, d = Call(op, alias, selections),
           op # "catalog" => alias \in Aliases \cup {None},
           op = "retrieve" => alias = None,
           op \in {"retrieve"} \cup Pipelines => selections \in Selections,
           op \in Pipelines /\ work.orgRunRetrieve => selections # {} /\ browser.handoff # None,
           op \in Refreshes \cup {"diff"} =>
              buildWorkflowLineage(browser.handoff, browser.selections, org.orgAlias) \in Lineages,
           op = "diff" => work.lastRefreshRun # None
    PROVE  Sent(d) /\ Told(d) /\ d.alias = alias /\ d.left # {}
  <1>1. PICK at, left :
            /\ at = (IF op \in {"refresh", "rebaseline", "diff", "pipeline", "authPipeline"}
                     THEN Closure ELSE None)
            /\ left = IF op = "overview" THEN {"session", "status"} ELSE {op}
    OBVIOUS
  <1>2. d = [op |-> op, alias |-> alias, selections |-> selections, first |-> None, at |-> at,
             left |-> left, result |-> "ok", reply |-> None, status |-> None, gone |-> FALSE]
    BY <1>1 DEF Call
  <1>3. Fields(d)
    BY <1>2 DEF Fields
  <1>4. left # {} /\ left \subseteq IF op = "overview" THEN {"session", "status"} ELSE {op}
    BY <1>1
  <1>5. op \in Refreshes \cup {"diff"} \cup Pipelines =>
            /\ at.handoff = browser.handoff /\ at.orgRunRetrieve = work.orgRunRetrieve
            /\ at.selections = browser.selections /\ at.orgAlias = org.orgAlias
            /\ at \in Closures /\ (work.lastRefreshRun # None => at.snapshotId \in Nat)
    <2>1. PICK id \in Snapshots :
              /\ id = (IF work.lastRefreshRun = None THEN None ELSE work.lastRefreshRun.snapshotId)
              /\ work.lastRefreshRun # None => id \in Nat
      BY DEF WorkInv, WorkTypes, Works, RefreshRuns, Snapshots
    <2>2. /\ browser.handoff \in Handoffs \cup {None} /\ browser.selections \in Selections
          /\ org.orgAlias \in Aliases \cup {None} /\ work.orgRunRetrieve \in BOOLEAN
      BY DEF WorkInv, WorkTypes, Browsers, Pages, Works
    <2>3. Closure = [handoff |-> browser.handoff, selections |-> browser.selections,
                     orgAlias |-> org.orgAlias, orgRunRetrieve |-> work.orgRunRetrieve, snapshotId |-> id]
      BY <2>1 DEF Closure
    <2>4. Closure \in Closures /\ (work.lastRefreshRun # None => Closure.snapshotId \in Nat)
      BY <2>1, <2>2, <2>3 DEF Closures
    <2> QED BY <1>1, <2>3, <2>4 DEF Refreshes, Pipelines
  <1>6. browser.handoff # None =>
            browser.handoff.completedAt \in Nat /\ browser.handoff.completedAt <= Len(server.retrieves)
    <2>1. PICK l \in Seq(Retrieves) : l = server.retrieves
      BY DEF WorkInv, WorkTypes, Servers
    <2>2. DOMAIN l = 1..Len(l) /\ Len(l) \in Nat
      BY LenProperties
    <2>3. browser.handoff # None => browser.handoff.completedAt \in DOMAIN l
      BY <2>1 DEF WorkInv, HandoffIsOneRetrieve
    <2> QED BY <2>1, <2>2, <2>3
  <1>7. Sent(d)
    <2>1. op \in Refreshes \cup {"diff"} => Lineage(d) \in Lineages
      BY <1>2, <1>5 DEF Lineage
    <2> QED BY <1>2, <1>3, <1>4, <1>5, <1>6, <2>1 DEF Sent
  <1>8. Told(d)
    BY <1>2, <1>4 DEF Told
  <1> QED BY <1>2, <1>4, <1>7, <1>8

\* A click that only sends a request.
LEMMA Sends ==
    ASSUME WorkInv, server' = server, NEW d, Sent(d), Told(d), Send(d)
    PROVE  CallsInv'
  <1>1. PICK s \in Slots : calls' = [calls EXCEPT ![s] = d]
    BY DEF Send, Free
  <1>2. Grown(server, server') /\ CallsInv
    BY Still DEF WorkInv
  <1>3. Sent(d)' /\ Told(d)'
    BY <1>2, StaysTold
  <1> QED BY <1>1, <1>2, <1>3, CallReplaced

\* What the API and the requests leave alone.
LEMMA Quiet ==
    ASSUME WorkInv, server' = server
    PROVE  /\ calls' = calls => CallsInv'
           /\ work' = work => RefreshRunInv' /\ PipelineRunInv'
           /\ browser' = browser => HandoffIsOneRetrieve'
           /\ browser'.handoff = browser.handoff /\ browser'.selections = browser.selections
                => HandoffIsOneRetrieve'
           /\ work'.lastRefreshRun \in {work.lastRefreshRun, None} => RefreshRunInv'
           /\ work'.lastOrgRetrieveRun \in {work.lastOrgRetrieveRun, None} => PipelineRunInv'
  <1>1. Grown(server, server')
    BY Still DEF WorkInv
  <1>2. calls' = calls => CallsInv'
    BY DEF WorkInv, CallsInv, Sent, Told, Fields, Brought
  <1>3. /\ work' = work => RefreshRunInv' /\ PipelineRunInv'
        /\ browser' = browser => HandoffIsOneRetrieve'
    BY <1>1, StaysTold DEF WorkInv
  <1>4. browser'.handoff = browser.handoff /\ browser'.selections = browser.selections
            => HandoffIsOneRetrieve'
    BY DEF WorkInv, HandoffIsOneRetrieve
  <1>5. work'.lastRefreshRun \in {work.lastRefreshRun, None} => RefreshRunInv'
    BY DEF WorkInv, RefreshRunInv
  <1>6. work'.lastOrgRetrieveRun \in {work.lastOrgRetrieveRun, None} => PipelineRunInv'
    BY DEF WorkInv, PipelineRunInv, Brought
  <1> QED BY <1>2, <1>3, <1>4, <1>5, <1>6

\* The list is cut, and its two latest snapshots fill the fields of the diff.
LEMMA Listed ==
    ASSUME NEW w \in Works, NEW l \in Seq(Nat), l # <<>>, IsInjective(l), NEW v, v = Remembered(w, l)
    PROVE  /\ v \in Works /\ IsInjective(v.refreshSnapshots) /\ v.lastRefreshRun = w.lastRefreshRun
           /\ v.lastOrgRetrieveRun = w.lastOrgRetrieveRun /\ v.orgRunRetrieve = w.orgRunRetrieve
  <1>1. Len(l) \in Nat /\ Len(l) # 0 /\ DOMAIN l = 1..Len(l)
    BY LenProperties, EmptySeq
  <1>2. PICK n \in 1..Len(l) :
            n = IF Len(l) <= MAX_REFRESH_SNAPSHOTS THEN Len(l) ELSE MAX_REFRESH_SNAPSHOTS
    <2>1. PICK m \in Nat : m = Len(l) /\ m # 0
      BY <1>1
    <2>2. PICK n \in 1..m : n = IF m <= 10 THEN m ELSE 10
      <3>1. CASE m <= 10
        BY <2>1, <3>1
      <3>2. CASE ~(m <= 10)
        BY <3>2
      <3> QED BY <3>1, <3>2
    <2> QED BY <2>1, <2>2 DEF MAX_REFRESH_SNAPSHOTS
  <1>3. PICK next : next = SubSeq(l, 1, n)
    OBVIOUS
  <1>4. next \in Seq(Nat) /\ Len(next) = n /\ \A i \in 1..n : next[i] = l[i]
    <2>1. \A i \in 1..n : l[i] \in Nat
      BY <1>1, ElementOfSeq
    <2>2. 1 \in Int /\ n \in Int /\ 1 <= n /\ (n - 1) + 1 = n /\ \A i \in 1..n : (1 + i) - 1 = i
      BY <1>1
    <2> QED BY <1>3, <2>1, <2>2, SubSeqProperties
  <1>5. DOMAIN next = 1..n
    BY <1>4, LenProperties
  <1>6. IsInjective(next)
    BY <1>1, <1>4, <1>5 DEF IsInjective
  <1>7. PICK to \in Snapshots, from \in Snapshots :
            to = next[1] /\ from = IF Len(next) >= 2 THEN next[2] ELSE None
    <2>1. 1 \in 1..n /\ (n >= 2 => 2 \in 1..n)
      BY <1>1
    <2>2. next[1] \in Nat /\ (n >= 2 => next[2] \in Nat)
      BY <1>4, <2>1, ElementOfSeq
    <2> QED BY <1>4, <2>2 DEF Snapshots
  <1>8. v = [w EXCEPT !.refreshSnapshots = next, !.toSnapshot = to, !.fromSnapshot = from]
    BY <1>2, <1>3, <1>7 DEF Remembered
  <1> QED BY <1>4, <1>6, <1>8 DEF Works

LEMMA One ==
    ASSUME NEW x \in Nat
    PROVE  \E one \in Seq(Nat) : one = <<x>> /\ Len(one) = 1 /\ one[1] = x /\ IsInjective(one)
  <1>1. PICK one : one = <<x>>
    OBVIOUS
  <1>2. one \in Seq(Nat)
    BY <1>1
  <1>3. Len(one) = 1 /\ one[1] = x
    BY <1>1
  <1>4. DOMAIN one = {1}
    BY <1>1
  <1>5. IsInjective(one)
    BY <1>4 DEF IsInjective
  <1> QED BY <1>1, <1>2, <1>3, <1>5

LEMMA NoSnapshots == \E none \in Seq(Nat) : none = <<>> /\ IsInjective(none)
  <1>1. PICK none \in Seq(Nat) : none = <<>>
    BY EmptySeq
  <1>2. DOMAIN none = {}
    BY <1>1
  <1>3. IsInjective(none)
    BY <1>2 DEF IsInjective
  <1> QED BY <1>1, <1>3

\* The snapshot just built comes first, and no snapshot is listed twice.
LEMMA Remembers ==
    ASSUME NEW w \in Works, IsInjective(w.refreshSnapshots), NEW id \in Nat,
           NEW v, v = rememberRefreshSnapshot(w, id)
    PROVE  /\ v \in Works /\ IsInjective(v.refreshSnapshots) /\ v.lastRefreshRun = w.lastRefreshRun
           /\ v.lastOrgRetrieveRun = w.lastOrgRetrieveRun /\ v.orgRunRetrieve = w.orgRunRetrieve
  <1>1. PICK others \in Seq(Nat) :
            /\ others = Without(w.refreshSnapshots, id) /\ IsInjective(others)
            /\ \A k \in DOMAIN others : others[k] # id
    BY Filtered DEF Works
  <1>2. PICK first \in Seq(Nat) : first = <<id>> /\ Len(first) = 1 /\ first[1] = id
    BY One
  <1>3. PICK n \in Nat : n = Len(others) /\ DOMAIN others = 1..n
    BY LenProperties
  <1>4. PICK l : l = first \o others
    OBVIOUS
  <1>5. /\ l \in Seq(Nat) /\ Len(l) = n + 1 /\ l[1] = id
        /\ \A i \in 1..(n + 1) : i # 1 => l[i] = others[i - 1]
    BY <1>2, <1>3, <1>4, ConcatProperties
  <1>6. DOMAIN l = 1..(n + 1) /\ l # <<>>
    BY <1>3, <1>5, LenProperties, EmptySeq
  <1>7. IsInjective(l)
    <2>1. ASSUME NEW i \in 1..(n + 1), NEW j \in 1..(n + 1), l[i] = l[j]
          PROVE  i = j
      <3>1. (i # 1 => i - 1 \in 1..n) /\ (j # 1 => j - 1 \in 1..n)
        BY <1>3
      <3>2. CASE i = 1
        BY <1>1, <1>3, <1>5, <2>1, <3>1, <3>2
      <3>3. CASE j = 1
        BY <1>1, <1>3, <1>5, <2>1, <3>1, <3>3
      <3>4. CASE i # 1 /\ j # 1
        <4>1. others[i - 1] = others[j - 1]
          BY <1>5, <2>1, <3>4
        <4>2. i - 1 = j - 1
          BY <1>1, <1>3, <3>1, <3>4, <4>1 DEF IsInjective
        <4> QED BY <1>3, <4>2
      <3> QED BY <3>2, <3>3, <3>4
    <2> QED BY <1>6, <2>1 DEF IsInjective
  <1>8. v = Remembered(w, l)
    BY <1>1, <1>2, <1>4 DEF rememberRefreshSnapshot
  <1> QED BY <1>5, <1>6, <1>7, <1>8, Listed

\* A lineage is that of the handoff the click saw.
LEMMA LineageIs ==
    ASSUME NEW c
    PROVE  /\ Lineage(c) # None => /\ c.at.handoff # None
                                   /\ Lineage(c).handoffCompletedAt = c.at.handoff.completedAt
           /\ c.at \in Closures => Lineage(c) \in Lineages \cup {None}
  <1>1. c.at \in Closures => Lineage(c) \in Lineages \cup {None}
    BY LineageType DEF Lineage, Closures
  <1> QED BY <1>1 DEF Lineage, buildWorkflowLineage, IsReady, assessRetrieveHandoff

\* An answer about the org changes what Connect shows; a first one asks for more.
LEMMA OrgAnswered ==
    ASSUME WorkInv, server' = server, NEW s \in Slots, calls[s] # None, OrgAnswer(s)
    PROVE  WorkInv'
  <1>1. PICK c : c = calls[s] /\ Sent(c)
    BY DEF WorkInv, CallsInv
  <1>2. /\ c.op \in {"connect", "switch", "bridge", "disconnect", "overview", "session", "status", "preflight"}
        /\ c.alias \in Aliases \cup {None} /\ browser' = browser /\ work' = work
    BY <1>1 DEF OrgAnswer, Sent
  <1>3. CallsInv'
    <2>1. PICK b : b = Call("overview", c.alias, {})
      OBVIOUS
    <2>2. Sent(b) /\ Told(b) /\ b.left # {} /\ b.op = "overview" /\ b.alias = c.alias
      <3>1. Sent(b) /\ Told(b) /\ b.left # {}
        BY <1>2, <2>1, CallIsSent DEF Refreshes, Pipelines
      <3> QED BY <2>1, <3>1 DEF Call
    <2>3. PICK d : d = [b EXCEPT !.first = c.result]
      OBVIOUS
    <2>4. PICK first : first = c.result
      OBVIOUS
    <2>5. d = [op |-> b.op, alias |-> b.alias, selections |-> b.selections, first |-> first,
               at |-> b.at, left |-> b.left, result |-> b.result, reply |-> b.reply,
               status |-> b.status, gone |-> b.gone]
      BY <2>2, <2>3, <2>4 DEF Sent, Fields
    <2>6. Sent(d) /\ Told(d)
      <3>1. /\ d.op = b.op /\ d.alias = b.alias /\ d.left = b.left /\ d.reply = b.reply
            /\ d.status = b.status /\ Fields(d) /\ d.op \notin Refreshes \cup {"diff"} \cup Pipelines
        BY <2>2, <2>5 DEF Fields, Refreshes, Pipelines
      <3> QED BY <1>2, <2>2, <3>1 DEF Sent, Told
    <2>7. Grown(server, server') /\ CallsInv
      BY Still DEF WorkInv
    <2>8. Sent(d)' /\ Told(d)'
      BY <2>6, <2>7, StaysTold
    <2>9. calls' = [calls EXCEPT ![s] = d] \/ calls' = [calls EXCEPT ![s] = None]
      BY <1>1, <2>1, <2>3 DEF OrgAnswer, Finished
    <2> QED BY <2>7, <2>8, <2>9, CallReplaced
  <1>4. WorkTypes'
    <2>1. PICK session \in Sessions \cup {None}, status \in Sessions \cup {None},
                orgAlias \in Aliases \cup {None}, u \in BOOLEAN :
              org' = [org EXCEPT !.session = session, !.status = status, !.orgAlias = orgAlias,
                                 !.runtimeUnavailable = u]
      <3>1. PICK u \in BOOLEAN : org' = [org EXCEPT
                 !.session = IF c.result # "down" /\ c.op \notin {"bridge", "status", "preflight"} THEN c.reply ELSE @,
                 !.status  = IF c.result # "down" /\ c.op \in {"overview", "status"} THEN c.status ELSE @,
                 !.orgAlias = IF c.result # "down" /\ c.op \in {"connect", "switch", "bridge", "preflight", "overview"}
                                       /\ ~(c.op = "overview" /\ c.first # None)
                              THEN c.alias ELSE @,
                 !.runtimeUnavailable = u]
        BY <1>1 DEF OrgAnswer, Unavailable
      <3>2. PICK session, status, orgAlias :
                /\ session = (IF c.result # "down" /\ c.op \notin {"bridge", "status", "preflight"}
                              THEN c.reply ELSE org.session)
                /\ status = (IF c.result # "down" /\ c.op \in {"overview", "status"} THEN c.status ELSE org.status)
                /\ orgAlias = IF c.result # "down" /\ c.op \in {"connect", "switch", "bridge", "preflight", "overview"}
                                       /\ ~(c.op = "overview" /\ c.first # None)
                              THEN c.alias ELSE org.orgAlias
        OBVIOUS
      <3>3. org' = [org EXCEPT !.session = session, !.status = status, !.orgAlias = orgAlias,
                               !.runtimeUnavailable = u]
        BY <3>1, <3>2
      <3>4. /\ orgAlias \in Aliases \cup {None} /\ session \in Sessions \cup {None}
            /\ status \in Sessions \cup {None}
        <4>1. {c.reply, c.status} \subseteq Sessions \cup {None}
          BY <1>1, <1>2 DEF Sent, OrgOps
        <4> QED BY <1>2, <3>2, <4>1 DEF WorkInv, WorkTypes, Pages
      <3> QED BY <3>3, <3>4
    <2>2. org' \in Pages
      BY <2>1 DEF WorkInv, WorkTypes, Pages
    <2> QED BY <1>2, <2>2 DEF WorkInv, WorkTypes
  <1> QED BY <1>2, <1>3, <1>4, Quiet DEF WorkInv

\* An answer about metadata: a retrieve leaves its own handoff and selections.
LEMMA BrowserAnswered ==
    ASSUME WorkInv, server' = server, NEW s \in Slots, calls[s] # None, calls[s].left = {},
           BrowserAnswer(s)
    PROVE  WorkInv'
  <1>1. PICK c : c = calls[s] /\ Sent(c) /\ Told(c) /\ c.left = {}
    BY DEF WorkInv, CallsInv
  <1>2. org' = org /\ work' = work /\ calls' = [calls EXCEPT ![s] = None]
    BY DEF BrowserAnswer, Finished
  <1>3. CallsInv'
    <2>1. Grown(server, server') /\ CallsInv
      BY Still DEF WorkInv
    <2> QED BY <1>2, <2>1, CallReplaced
  <1>4. CASE c.op = "retrieve"
    <2>1. PICK handoff \in Handoffs \cup {None}, selections \in Selections :
              /\ browser' = [browser EXCEPT !.handoff = handoff, !.selections = selections]
              /\ handoff # None => /\ handoff.metadataArgs = selections
                                   /\ Brought(handoff.completedAt, handoff.alias, selections)
      <3>1. PICK handoff, selections :
                /\ handoff = (IF c.result = "ok" THEN c.reply ELSE None)
                /\ selections = (IF c.result = "ok" THEN c.selections ELSE {})
        OBVIOUS
      <3>2. retrieved(c) = <<handoff, selections>>
        BY <3>1 DEF retrieved
      <3>3. retrieved(c)[1] = handoff /\ retrieved(c)[2] = selections
        BY <3>2
      <3>4. browser' = [browser EXCEPT !.handoff = handoff, !.selections = selections]
        BY <1>1, <1>4, <3>3 DEF BrowserAnswer
      <3>5. /\ handoff \in Handoffs \cup {None} /\ selections \in Selections
            /\ handoff # None => /\ handoff.metadataArgs = selections
                                 /\ Brought(handoff.completedAt, handoff.alias, selections)
        <4>1. {} \in Selections
          BY DEF Selections
        <4> QED BY <1>1, <1>4, <3>1, <4>1 DEF Sent, Told
      <3> QED BY <3>4, <3>5
    <2>2. browser' \in Browsers /\ browser'.handoff = handoff /\ browser'.selections = selections
      BY <2>1 DEF WorkInv, WorkTypes, Browsers
    <2>3. WorkTypes'
      BY <1>2, <2>2 DEF WorkInv, WorkTypes
    <2>4. HandoffIsOneRetrieve'
      BY <2>1, <2>2 DEF HandoffIsOneRetrieve, Brought
    <2> QED BY <1>2, <1>3, <2>3, <2>4, Quiet DEF WorkInv
  <1>5. CASE c.op # "retrieve"
    <2>1. PICK blocked \in SUBSET Families, members \in [Families -> SUBSET Members] :
              browser' = [browser EXCEPT !.blocked = blocked, !.members = members]
      <3>1. browser = [browser EXCEPT !.blocked = browser.blocked, !.members = browser.members]
            /\ browser.members \in [Families -> SUBSET Members] /\ browser.blocked \in SUBSET Families
        BY DEF WorkInv, WorkTypes, Browsers
      <3>2. CASE c.op = "catalog" /\ c.result = "ok"
        <4>1. browser' = [browser EXCEPT !.blocked = c.reply]
          BY <1>1, <3>2 DEF BrowserAnswer
        <4>2. browser' = [browser EXCEPT !.blocked = c.reply, !.members = browser.members]
          BY <4>1 DEF WorkInv, WorkTypes, Browsers
        <4>3. c.reply \in SUBSET Families
          BY <1>1, <3>2 DEF Told
        <4> QED BY <3>1, <4>2, <4>3
      <3>3. CASE c.op = "members" /\ c.result = "ok"
        <4>1. PICK members : members = [t \in Families |->
                                  IF <<t, Whole>> \in c.selections THEN c.reply ELSE browser.members[t]]
          OBVIOUS
        <4>2. browser' = [browser EXCEPT !.members = members]
          BY <1>1, <3>3, <4>1 DEF BrowserAnswer
        <4>3. browser' = [browser EXCEPT !.blocked = browser.blocked, !.members = members]
          BY <4>2 DEF WorkInv, WorkTypes, Browsers
        <4>4. members \in [Families -> SUBSET Members]
          BY <1>1, <3>1, <3>3, <4>1 DEF Told
        <4> QED BY <3>1, <4>3, <4>4
      <3>4. CASE c.result # "ok"
        <4>1. browser' = browser
          BY <1>1, <1>5, <3>4 DEF BrowserAnswer
        <4> QED BY <3>1, <4>1
      <3>5. c.op \in {"catalog", "members"}
        BY <1>1, <1>5 DEF BrowserAnswer
      <3> QED BY <3>2, <3>3, <3>4, <3>5
    <2>2. browser' \in Browsers /\ browser'.handoff = browser.handoff /\ browser'.selections = browser.selections
      BY <2>1 DEF WorkInv, WorkTypes, Browsers
    <2>3. WorkTypes'
      BY <1>2, <2>2 DEF WorkInv, WorkTypes
    <2>4. HandoffIsOneRetrieve'
      BY <2>2, Quiet
    <2> QED BY <1>2, <1>3, <2>3, <2>4, Quiet DEF WorkInv
  <1> QED BY <1>4, <1>5

\* The answer to a refresh, a diff or a pipeline is filed under what the click saw.
LEMMA RefreshAnswered ==
    ASSUME WorkInv, server' = server, NEW s \in Slots, calls[s] # None, calls[s].left = {},
           RefreshAnswer(s)
    PROVE  WorkInv'
  <1>1. PICK c : c = calls[s] /\ Sent(c) /\ Told(c) /\ c.left = {}
    BY DEF WorkInv, CallsInv
  <1>2. org' = org /\ browser' = browser /\ calls' = [calls EXCEPT ![s] = None]
    BY DEF RefreshAnswer, Finished
  <1>3. CallsInv'
    <2>1. Grown(server, server') /\ CallsInv
      BY Still DEF WorkInv
    <2> QED BY <1>2, <2>1, CallReplaced
  <1>4. work \in Works /\ IsInjective(work.refreshSnapshots)
    BY DEF WorkInv, WorkTypes
  <1>9. c.op \in Refreshes \cup {"diff"} \cup Pipelines
    BY <1>1 DEF RefreshAnswer, Refreshes, Pipelines
  <1>5. PICK lineage \in Lineages \cup {None} :
            /\ lineage = Lineage(c)
            /\ lineage # None => /\ c.at.handoff # None
                                 /\ lineage.handoffCompletedAt = c.at.handoff.completedAt
            /\ c.op \in Refreshes \cup {"diff"} => lineage \in Lineages
    BY <1>1, <1>9, LineageIs DEF Sent
  <1>6. CASE c.op \in Refreshes
    <2>1. CASE c.result = "ok"
      <3>1. PICK run \in RefreshRuns : run = RefreshRun(c.reply, lineage)
        <4>1. c.reply \in RefreshReplies /\ lineage \in Lineages
          BY <1>1, <1>5, <1>6, <2>1 DEF Told
        <4> QED BY <4>1 DEF RefreshRuns, RefreshReplies, RefreshRun
      <3>2. PICK w : w = [work EXCEPT !.lastRefreshRun = run, !.refreshNeedsRebaseline = FALSE]
        OBVIOUS
      <3>4. /\ w \in Works /\ w.lastRefreshRun = run /\ w.orgRunRetrieve = work.orgRunRetrieve
            /\ w.lastOrgRetrieveRun = work.lastOrgRetrieveRun /\ w.refreshSnapshots = work.refreshSnapshots
        BY <1>4, <3>2 DEF Works
      <3>5. work' = rememberRefreshSnapshot(w, c.reply.snapshotId)
        BY <1>1, <1>5, <1>6, <2>1, <3>1, <3>2 DEF RefreshAnswer, Refreshes
      <3>6. PICK v : v = work' /\ v = rememberRefreshSnapshot(w, c.reply.snapshotId)
        BY <3>5
      <3>7. /\ v \in Works /\ IsInjective(v.refreshSnapshots) /\ v.lastRefreshRun = run
            /\ v.lastOrgRetrieveRun = work.lastOrgRetrieveRun
        <4>1. c.reply.snapshotId \in Nat
          BY <1>1, <1>6, <2>1 DEF Told, RefreshReplies
        <4> QED BY <1>4, <3>4, <3>6, <4>1, Remembers
      <3>8. /\ run.skipped \/ run.snapshotId = run.refreshedAt
            /\ run.lineage # None => run.refreshedAt >= run.lineage.handoffCompletedAt
        BY <1>1, <1>5, <1>6, <2>1, <3>1 DEF Told, Refreshes, RefreshRun
      <3>9. RefreshRunInv'
        BY <3>6, <3>7, <3>8 DEF RefreshRunInv
      <3>10. WorkTypes'
        BY <1>2, <3>6, <3>7 DEF WorkInv, WorkTypes
      <3> QED BY <1>2, <1>3, <3>6, <3>7, <3>9, <3>10, Quiet DEF WorkInv
    <2>2. CASE c.result # "ok"
      <3>1. PICK drifted \in BOOLEAN :
                work' = [work EXCEPT !.lastRefreshRun = None, !.refreshNeedsRebaseline = drifted]
        BY <1>1, <1>6, <2>2 DEF RefreshAnswer, Refreshes
      <3>2. /\ work' \in Works /\ work'.lastRefreshRun = None
            /\ work'.refreshSnapshots = work.refreshSnapshots
            /\ work'.lastOrgRetrieveRun = work.lastOrgRetrieveRun
        BY <1>4, <3>1 DEF Works
      <3>3. WorkTypes'
        BY <1>2, <1>4, <3>2 DEF WorkInv, WorkTypes
      <3> QED BY <1>2, <1>3, <3>2, <3>3, Quiet DEF WorkInv
    <2> QED BY <2>1, <2>2
  <1>7. CASE c.op = "diff"
    <2>1. PICK run \in DiffRuns \cup {None} : work' = [work EXCEPT !.lastDiffRun = run]
      <3>1. PICK full \in DiffRuns : full = [refreshSnapshotId |-> c.at.snapshotId, lineage |-> lineage]
        BY <1>1, <1>5, <1>7 DEF Sent, DiffRuns
      <3>2. PICK run \in DiffRuns \cup {None} : run = IF c.result = "ok" THEN full ELSE None
        OBVIOUS
      <3>3. work' = [work EXCEPT !.lastDiffRun = run]
        BY <1>1, <1>5, <1>7, <3>1, <3>2 DEF RefreshAnswer
      <3> QED BY <3>3
    <2>2. /\ work' \in Works /\ work'.lastRefreshRun = work.lastRefreshRun
          /\ work'.refreshSnapshots = work.refreshSnapshots
          /\ work'.lastOrgRetrieveRun = work.lastOrgRetrieveRun
      BY <1>4, <2>1 DEF Works
    <2>3. WorkTypes'
      BY <1>2, <1>4, <2>2 DEF WorkInv, WorkTypes
    <2> QED BY <1>2, <1>3, <2>2, <2>3, Quiet DEF WorkInv
  <1>8. CASE c.op \in Pipelines
    <2>1. PICK filed : filed = IF c.at.orgRunRetrieve THEN lineage ELSE None
      OBVIOUS
    <2>2. PICK full : full = [alias |-> c.reply.alias, metadataArgs |-> c.reply.metadataArgs,
                              completedAt |-> c.reply.completedAt, runRetrieve |-> c.at.orgRunRetrieve,
                              lineage |-> filed]
      OBVIOUS
    <2>3. PICK run : run = IF c.result # "ok" THEN None ELSE full
      OBVIOUS
    <2>4. work' = [work EXCEPT !.lastOrgRetrieveRun = run]
      BY <1>1, <1>5, <1>8, <2>1, <2>2, <2>3 DEF RefreshAnswer, Pipelines
    <2>9. run \in PipelineRuns \cup {None}
      <3>1. c.at.orgRunRetrieve \in BOOLEAN /\ c.selections \in Selections
        BY <1>1, <1>8 DEF Sent, Closures
      <3>2. c.result = "ok" => /\ c.reply.metadataArgs = c.selections
                              /\ c.reply.alias \in Aliases /\ c.reply.completedAt \in Nat
        BY <1>1, <1>8 DEF Told
      <3>3. c.result = "ok" => full \in PipelineRuns
        BY <1>5, <2>1, <2>2, <3>1, <3>2 DEF PipelineRuns
      <3> QED BY <2>3, <3>3
    <2>5. /\ work' \in Works /\ work'.lastRefreshRun = work.lastRefreshRun
          /\ work'.refreshSnapshots = work.refreshSnapshots /\ work'.lastOrgRetrieveRun = run
      BY <1>4, <2>4, <2>9 DEF Works
    <2>6. WorkTypes'
      BY <1>2, <1>4, <2>5 DEF WorkInv, WorkTypes
    <2>7. ASSUME run # None, run.runRetrieve
          PROVE  /\ Brought(run.completedAt, run.alias, run.metadataArgs)
                 /\ run.lineage # None => run.completedAt > run.lineage.handoffCompletedAt
      <3>1. run = full /\ c.result = "ok" /\ c.at.orgRunRetrieve
        BY <2>2, <2>3, <2>7
      <3>2. /\ c.reply.metadataArgs = c.selections /\ Brought(c.reply.completedAt, c.reply.alias, c.selections)
            /\ c.reply.completedAt > c.at.handoff.completedAt
        BY <1>1, <1>8, <3>1 DEF Sent, Told, Pipelines
      <3> QED BY <1>5, <2>1, <2>2, <3>1, <3>2
    <2>8. PipelineRunInv'
      <3>1. \A n, alias, args : Brought(n, alias, args) => Brought(n, alias, args)'
        BY DEF Brought
      <3> QED BY <2>5, <2>7, <3>1 DEF PipelineRunInv
    <2> QED BY <1>2, <1>3, <2>5, <2>6, <2>8, Quiet DEF WorkInv
  <1> QED BY <1>6, <1>7, <1>8, <1>9

\* An answer frees its slot; one to a page that is gone does no more.
LEMMA Answered ==
    ASSUME WorkInv, NEW s \in Slots, Answer(s)
    PROVE  WorkInv'
  <1>1. calls[s] # None /\ calls[s].left = {} /\ server' = server
    BY DEF Answer
  <1>2. CASE OrgAnswer(s)
    BY <1>1, <1>2, OrgAnswered
  <1>3. CASE BrowserAnswer(s)
    BY <1>1, <1>3, BrowserAnswered
  <1>4. CASE RefreshAnswer(s)
    BY <1>1, <1>4, RefreshAnswered
  <1>5. CASE calls' = [calls EXCEPT ![s] = None] /\ UNCHANGED <<org, browser, work, loading>>
    <2>1. Grown(server, server') /\ CallsInv
      BY <1>1, Still DEF WorkInv
    <2>2. CallsInv'
      BY <1>5, <2>1, CallReplaced
    <2>3. WorkTypes'
      BY <1>1, <1>5 DEF WorkInv, WorkTypes
    <2> QED BY <1>1, <1>5, <2>2, <2>3, Quiet DEF WorkInv
  <1> QED BY <1>2, <1>3, <1>4, <1>5 DEF Answer

\* The catalog of the alias on show is asked for.
LEMMA CatalogAsked ==
    ASSUME WorkInv, CatalogForAlias
    PROVE  WorkInv'
  <1>1. server' = server /\ org' = org /\ work' = work
    BY DEF CatalogForAlias
  <1>2. PICK d : d = Call("catalog", activeAlias, {}) /\ Send(d)
    BY DEF CatalogForAlias
  <1>3. Sent(d) /\ Told(d)
    BY <1>2, CallIsSent DEF Refreshes, Pipelines
  <1>4. CallsInv'
    BY <1>1, <1>2, <1>3, Sends
  <1>5. PICK alias \in Aliases \cup {None} : browser' = [browser EXCEPT !.lastCatalogAlias = alias]
    <2>1. activeAlias \in Aliases \cup {None}
      BY DEF activeAlias, WorkInv, WorkTypes, Pages, Sessions
    <2> QED BY <2>1 DEF CatalogForAlias
  <1>6. browser' \in Browsers /\ browser'.handoff = browser.handoff /\ browser'.selections = browser.selections
    BY <1>5 DEF WorkInv, WorkTypes, Browsers
  <1>7. WorkTypes'
    BY <1>1, <1>6 DEF WorkInv, WorkTypes
  <1> QED BY <1>1, <1>4, <1>6, <1>7, Quiet DEF WorkInv

\* A click in Connect.
LEMMA OrgSteps ==
    ASSUME WorkInv, OrgStep
    PROVE  WorkInv'
  <1>1. server' = server /\ browser' = browser /\ work' = work
    BY DEF OrgStep
  <1>2. org \in Pages /\ org.orgAlias \in Aliases \cup {None}
    BY DEF WorkInv, WorkTypes, Pages
  <1>3. PICK alias \in Aliases \cup {None} : org' = [org EXCEPT !.orgAlias = alias]
    <2>1. org = [org EXCEPT !.orgAlias = org.orgAlias]
      BY <1>2 DEF Pages
    <2>2. CASE RowAction
      BY <1>2, <2>1, <2>2 DEF RowAction, AliasAction
    <2>3. CASE SelectedAction
      BY <1>2, <2>1, <2>3 DEF SelectedAction
    <2>4. CASE selectAlias
      BY <2>4 DEF selectAlias
    <2> QED BY <2>2, <2>3, <2>4 DEF OrgStep
  <1>4. WorkTypes'
    <2>1. org' \in Pages
      BY <1>2, <1>3 DEF Pages
    <2> QED BY <1>1, <2>1 DEF WorkInv, WorkTypes
  <1>5. CallsInv'
    <2>1. CASE RowAction
      <3>1. PICK op \in {"connect", "switch", "overview"}, a \in Aliases : Send(Call(op, a, {}))
        BY <2>1 DEF RowAction, AliasAction
      <3>2. PICK d : d = Call(op, a, {})
        OBVIOUS
      <3>3. Sent(d) /\ Told(d)
        BY <3>2, CallIsSent DEF Refreshes, Pipelines
      <3> QED BY <1>1, <3>1, <3>2, <3>3, Sends
    <2>2. CASE SelectedAction
      <3>1. PICK op \in {"bridge", "disconnect", "session", "status", "preflight"} :
                Send(Call(op, org.orgAlias, {}))
        BY <2>2 DEF SelectedAction
      <3>2. PICK d : d = Call(op, org.orgAlias, {})
        OBVIOUS
      <3>3. Sent(d) /\ Told(d)
        BY <1>2, <3>2, CallIsSent DEF Refreshes, Pipelines
      <3> QED BY <1>1, <3>1, <3>2, <3>3, Sends
    <2>3. CASE calls' = calls
      BY <1>1, <2>3, Quiet
    <2> QED BY <2>1, <2>2, <2>3 DEF OrgStep
  <1> QED BY <1>1, <1>4, <1>5, Quiet DEF WorkInv

\* A tick in the cart.
LEMMA CartSteps ==
    ASSUME WorkInv, Cart
    PROVE  WorkInv'
  <1>1. server' = server /\ org' = org /\ work' = work /\ calls' = calls
    BY DEF Cart
  <1>2. PICK cart \in Selections : browser' = [browser EXCEPT !.cart = cart]
    <2>1. browser.cart \in Selections /\ browser.members \in [Families -> SUBSET Members]
      BY DEF WorkInv, WorkTypes, Browsers
    <2>2. CASE \E t \in Families : setTypeSelected(t)
      BY <2>1, <2>2 DEF setTypeSelected, Selections
    <2>3. CASE \E t \in Families : \E ms \in SUBSET browser.members[t] : setMembersSelected(t, ms)
      <3>1. PICK t \in Families, ms \in SUBSET Members : setMembersSelected(t, ms)
        BY <2>1, <2>3
      <3>2. {t} \X ms \subseteq Families \X (Members \cup {Whole})
        OBVIOUS
      <3>3. PICK more : more = {t} \X ms
        OBVIOUS
      <3>4. /\ browser.cart \cup more \in Selections /\ browser.cart \ more \in Selections
        BY <2>1, <3>2, <3>3 DEF Selections
      <3>5. \/ browser' = [browser EXCEPT !.cart = browser.cart \cup more]
            \/ browser' = [browser EXCEPT !.cart = browser.cart \ more]
        BY <3>1, <3>3 DEF setMembersSelected
      <3> QED BY <3>4, <3>5
    <2>4. CASE \E s \in browser.cart : browser' = [browser EXCEPT !.cart = @ \ {s}]
      BY <2>1, <2>4 DEF Selections
    <2>5. CASE browser' = [browser EXCEPT !.cart = {}]
      BY <2>5 DEF Selections
    <2> QED BY <2>2, <2>3, <2>4, <2>5 DEF Cart
  <1>3. browser' \in Browsers /\ browser'.handoff = browser.handoff /\ browser'.selections = browser.selections
    BY <1>2 DEF WorkInv, WorkTypes, Browsers
  <1>4. WorkTypes'
    BY <1>1, <1>3 DEF WorkInv, WorkTypes
  <1> QED BY <1>1, <1>3, <1>4, Quiet DEF WorkInv

\* A click in the Org Browser that asks for metadata.
LEMMA BrowserSteps ==
    ASSUME WorkInv, BrowserStep
    PROVE  WorkInv'
  <1>1. server' = server /\ org' = org /\ work' = work
    BY DEF BrowserStep
  <1>2. browser.cart \in Selections /\ {} \in Selections
    BY DEF WorkInv, WorkTypes, Browsers, Selections
  <1>3. ASSUME NEW op \in {"catalog", "members", "retrieve"}, NEW selections,
               op = "retrieve" => selections = browser.cart,
               Send(Call(op, None, selections)), browser' = browser
        PROVE  WorkInv'
    <2>1. PICK d : d = Call(op, None, selections)
      OBVIOUS
    <2>2. Sent(d) /\ Told(d)
      BY <1>2, <1>3, <2>1, CallIsSent DEF Refreshes, Pipelines
    <2>3. CallsInv'
      BY <1>1, <1>3, <2>1, <2>2, Sends
    <2>4. WorkTypes'
      BY <1>1, <1>3 DEF WorkInv, WorkTypes
    <2> QED BY <1>1, <1>3, <2>3, <2>4, Quiet DEF WorkInv
  <1>4. CASE calls' = calls /\ browser' = [browser EXCEPT !.handoff = None, !.selections = {}]
    <2>1. browser' \in Browsers /\ browser'.handoff = None
      BY <1>2, <1>4 DEF WorkInv, WorkTypes, Browsers
    <2>2. WorkTypes'
      BY <1>1, <2>1 DEF WorkInv, WorkTypes
    <2>3. HandoffIsOneRetrieve'
      BY <2>1 DEF HandoffIsOneRetrieve
    <2> QED BY <1>1, <1>4, <2>2, <2>3, Quiet DEF WorkInv
  <1>5. CASE refreshTypes
    <2>1. Send(Call("catalog", None, {})) /\ browser' = browser
      BY <1>5 DEF refreshTypes
    <2> QED BY <1>3, <2>1
  <1>6. CASE retrieveSelected
    BY <1>3, <1>4, <1>6 DEF retrieveSelected, Refuse
  <1>7. CASE \E t \in Families : loadMembers(t)
    <2>1. PICK t \in Families : loadMembers(t)
      BY <1>7
    <2>2. Send(Call("members", None, {<<t, Whole>>})) /\ browser' = browser
      BY <2>1 DEF loadMembers
    <2> QED BY <1>3, <2>2
  <1> QED BY <1>5, <1>6, <1>7 DEF BrowserStep

\* A click in Refresh & Build, which may be refused on what the hook sees.
LEMMA RefreshSteps ==
    ASSUME WorkInv, RefreshStep
    PROVE  WorkInv'
  <1>1. server' = server /\ org' = org /\ browser' = browser
    BY DEF RefreshStep
  <1>2. /\ work \in Works /\ work.orgRunRetrieve \in BOOLEAN /\ org.orgAlias \in Aliases \cup {None}
        /\ browser.handoff \in Handoffs \cup {None}
        /\ browser.selections \in Selections /\ {} \in Selections
    BY DEF WorkInv, WorkTypes, Pages, Browsers, Works, Selections
  <1>9. PICK lineage \in Lineages \cup {None} :
            /\ lineage = buildWorkflowLineage(browser.handoff, browser.selections, org.orgAlias)
            /\ hasReadyHandoff(Hook) => lineage \in Lineages
    BY <1>2, LineageType DEF hasReadyHandoff, Hook, View
  <1>3. ASSUME NEW op \in Refreshes \cup {"diff"} \cup Pipelines, NEW alias \in Aliases \cup {None},
               NEW selections \in Selections,
               op \in Pipelines /\ work.orgRunRetrieve => selections # {} /\ browser.handoff # None,
               op \in Refreshes \cup {"diff"} => lineage \in Lineages,
               op = "diff" => work.lastRefreshRun # None,
               Send(Call(op, alias, selections)), work' = work
        PROVE  WorkInv'
    <2>1. PICK d : d = Call(op, alias, selections)
      OBVIOUS
    <2>2. Sent(d) /\ Told(d)
      BY <1>3, <1>9, <2>1, CallIsSent DEF Refreshes, Pipelines
    <2>3. CallsInv'
      BY <1>1, <1>3, <2>1, <2>2, Sends
    <2>4. WorkTypes'
      BY <1>1, <1>3 DEF WorkInv, WorkTypes
    <2> QED BY <1>1, <1>3, <2>3, <2>4, Quiet DEF WorkInv
  <1>4. ASSUME calls' = calls, work' \in Works, work'.refreshSnapshots = work.refreshSnapshots,
               work'.lastRefreshRun \in {work.lastRefreshRun, None},
               work'.lastOrgRetrieveRun \in {work.lastOrgRetrieveRun, None}
        PROVE  WorkInv'
    <2>1. WorkTypes'
      BY <1>1, <1>4 DEF WorkInv, WorkTypes
    <2> QED BY <1>1, <1>4, <2>1, Quiet DEF WorkInv
  <1>5. CASE runDiff
    <2>1. CASE assessRefreshRunLineage(Hook) = "current" /\ Send(Call("diff", None, {})) /\ work' = work
      <3>1. Hook.lastRefreshRun # None /\ Belongs(Hook.lastRefreshRun, Hook)
        BY <2>1 DEF assessRefreshRunLineage
      <3>2. work.lastRefreshRun # None /\ lineage # None
        BY <1>9, <3>1 DEF Belongs, Hook, View
      <3>3. "diff" \in Refreshes \cup {"diff"} \cup Pipelines /\ "diff" \notin Pipelines
        BY DEF Pipelines
      <3> QED BY <1>2, <1>3, <1>9, <2>1, <3>2, <3>3
    <2>2. CASE calls' = calls /\ work' = [work EXCEPT !.lastDiffRun = None]
      BY <1>2, <1>4, <2>2 DEF Works
    <2> QED BY <1>5, <2>1, <2>2 DEF runDiff, Refuse
  <1>6. CASE runOrgRetrieveNow
    <2>1. CASE work.orgRunRetrieve => hasReadyHandoff(Hook)
      <3>1. PICK op, selections :
                /\ op \in Pipelines /\ selections = (IF work.orgRunRetrieve THEN browser.selections ELSE {})
                /\ Send(Call(op, org.orgAlias, selections)) /\ work' = work
        BY <1>6, <2>1 DEF runOrgRetrieveNow, Pipelines
      <3>2. work.orgRunRetrieve => browser.selections # {} /\ browser.handoff # None
        BY <2>1 DEF hasReadyHandoff, Hook, View, IsReady, assessRetrieveHandoff
      <3>3. selections \in Selections /\ op \notin Refreshes \cup {"diff"}
        BY <1>2, <3>1 DEF Refreshes, Pipelines
      <3> QED BY <1>2, <1>3, <3>1, <3>2, <3>3
    <2>2. CASE ~(work.orgRunRetrieve => hasReadyHandoff(Hook))
      <3>1. calls' = calls /\ work' = [work EXCEPT !.lastOrgRetrieveRun = None]
        BY <1>6, <2>2 DEF runOrgRetrieveNow, Refuse
      <3> QED BY <1>2, <1>4, <3>1 DEF Works
    <2> QED BY <2>1, <2>2
  <1>7. CASE EditFields
    <2>1. PICK switch \in BOOLEAN, from \in Snapshots, to \in Snapshots :
              work' = [work EXCEPT !.orgRunRetrieve = switch, !.fromSnapshot = from, !.toSnapshot = to]
      <3>1. CASE work' = [work EXCEPT !.orgRunRetrieve = ~@]
        <4>1. PICK switch \in BOOLEAN : switch = ~work.orgRunRetrieve
          OBVIOUS
        <4>2. work' = [work EXCEPT !.orgRunRetrieve = switch, !.fromSnapshot = work.fromSnapshot,
                                   !.toSnapshot = work.toSnapshot]
          BY <1>2, <3>1, <4>1 DEF Works
        <4> QED BY <1>2, <4>2 DEF Works
      <3>2. CASE \E n \in Snapshots : work' = [work EXCEPT !.fromSnapshot = n]
        <4>1. PICK n \in Snapshots : work' = [work EXCEPT !.fromSnapshot = n]
          BY <3>2
        <4>2. work' = [work EXCEPT !.orgRunRetrieve = work.orgRunRetrieve, !.fromSnapshot = n,
                                   !.toSnapshot = work.toSnapshot]
          BY <1>2, <4>1 DEF Works
        <4> QED BY <1>2, <4>2 DEF Works
      <3>3. CASE \E n \in Snapshots : work' = [work EXCEPT !.toSnapshot = n]
        <4>1. PICK n \in Snapshots : work' = [work EXCEPT !.toSnapshot = n]
          BY <3>3
        <4>2. work' = [work EXCEPT !.orgRunRetrieve = work.orgRunRetrieve,
                                   !.fromSnapshot = work.fromSnapshot, !.toSnapshot = n]
          BY <1>2, <4>1 DEF Works
        <4> QED BY <1>2, <4>2 DEF Works
      <3>4. {None} \cup 0 .. Len(server.retrieves) \subseteq Snapshots
        BY DEF Snapshots
      <3> QED BY <1>7, <3>1, <3>2, <3>3, <3>4 DEF EditFields
    <2>2. /\ work' \in Works /\ work'.refreshSnapshots = work.refreshSnapshots /\ calls' = calls
          /\ work'.lastRefreshRun = work.lastRefreshRun
          /\ work'.lastOrgRetrieveRun = work.lastOrgRetrieveRun
      BY <1>2, <1>7, <2>1 DEF Works, EditFields
    <2> QED BY <1>4, <2>2
  <1>8. CASE \E b \in BOOLEAN : executeRefresh(b)
    <2>1. CASE hasReadyHandoff(Hook) /\ \E op \in Refreshes : Send(Call(op, None, {})) /\ work' = work
      <3>1. PICK op \in Refreshes : Send(Call(op, None, {})) /\ work' = work
        BY <2>1
      <3>2. op \notin Pipelines /\ op # "diff"
        BY DEF Refreshes, Pipelines
      <3> QED BY <1>2, <1>3, <1>9, <2>1, <3>1, <3>2
    <2>2. CASE calls' = calls
               /\ work' = [work EXCEPT !.lastRefreshRun = None, !.refreshNeedsRebaseline = FALSE]
      BY <1>2, <1>4, <2>2 DEF Works
    <2> QED BY <1>8, <2>1, <2>2 DEF executeRefresh, Refuse, Refreshes
  <1> QED BY <1>5, <1>6, <1>7, <1>8 DEF RefreshStep

\* A reload keeps the runs and the handoff; who waits is told nothing.
LEMMA Reloaded ==
    ASSUME WorkInv, Reload
    PROVE  WorkInv'
  <1>1. PICK a \in Aliases, s \in Free :
            /\ server' = server /\ org' = NewPage(a)
            /\ browser' = NewBrowser(browser.handoff, browser.selections)
            /\ work' = [work EXCEPT !.refreshNeedsRebaseline = FALSE, !.orgRunRetrieve = TRUE]
            /\ calls' = [t \in Slots |->
                    CASE t = s -> Call("catalog", None, {})
                      [] t # s /\ calls[t] # None -> [calls[t] EXCEPT !.gone = TRUE]
                      [] OTHER -> None]
    BY DEF Reload
  <1>2. work \in Works /\ Grown(server, server')
    BY <1>1, Still DEF WorkInv, WorkTypes
  <1>3. /\ work' \in Works /\ work'.refreshSnapshots = work.refreshSnapshots
        /\ work'.lastRefreshRun = work.lastRefreshRun
        /\ work'.lastOrgRetrieveRun = work.lastOrgRetrieveRun
    BY <1>1, <1>2 DEF Works
  <1>4. WorkTypes'
    <2>1. org' \in Pages
      BY <1>1 DEF NewPage, Pages
    <2>2. browser.handoff \in Handoffs \cup {None} /\ browser.selections \in Selections
          /\ {} \in Selections
      BY DEF WorkInv, WorkTypes, Browsers, Selections
    <2>3. PICK members \in [Families -> SUBSET Members] : members = [t \in Families |-> {}]
      OBVIOUS
    <2>4. browser' = [blocked |-> {}, cart |-> {}, members |-> members, lastCatalogAlias |-> None,
                      handoff |-> browser.handoff, selections |-> browser.selections]
      BY <1>1, <2>3 DEF NewBrowser
    <2>5. browser' \in Browsers
      BY <2>2, <2>3, <2>4 DEF Browsers
    <2> QED BY <1>1, <1>3, <2>1, <2>5 DEF WorkInv, WorkTypes
  <1>5. CallsInv'
    <2>1. PICK b : b = Call("catalog", None, {})
      OBVIOUS
    <2>2. Sent(b)' /\ Told(b)'
      <3>1. Sent(b) /\ Told(b)
        BY <2>1, CallIsSent DEF Refreshes, Pipelines
      <3> QED BY <1>2, <3>1, StaysTold
    <2>3. ASSUME NEW t \in Slots, calls'[t] # None PROVE (Sent(calls[t]) /\ Told(calls[t]))'
      <3>1. PICK d : d = calls'[t]
        OBVIOUS
      <3>2. CASE t = s
        <4>1. d = b
          BY <1>1, <2>1, <3>1, <3>2
        <4> QED BY <2>2, <3>1, <4>1 DEF Sent, Told, Fields, Brought
      <3>3. CASE t # s
        <4>1. PICK c : c = calls[t]
          OBVIOUS
        <4>2. c # None /\ d = [c EXCEPT !.gone = TRUE]
          BY <1>1, <2>3, <3>1, <3>3, <4>1
        <4>3. Sent(c) /\ Told(c)
          BY <4>1, <4>2 DEF WorkInv, CallsInv
        <4>4. d = [op |-> c.op, alias |-> c.alias, selections |-> c.selections, first |-> c.first,
                   at |-> c.at, left |-> c.left, result |-> c.result, reply |-> c.reply,
                   status |-> c.status, gone |-> TRUE]
          BY <4>2, <4>3 DEF Sent, Fields
        <4>5. Sent(d) /\ Told(d)
          <5>1. /\ Fields(d) /\ d.op = c.op /\ d.alias = c.alias /\ d.selections = c.selections
                /\ d.at = c.at /\ d.left = c.left /\ d.result = c.result /\ d.reply = c.reply
                /\ d.status = c.status
            BY <4>4 DEF Fields
          <5>2. Lineage(d) = Lineage(c)
            BY <5>1 DEF Lineage
          <5> QED BY <4>3, <5>1, <5>2 DEF Sent, Told
        <4>6. Sent(d)' /\ Told(d)'
          BY <1>2, <4>5, StaysTold
        <4> QED BY <3>1, <4>6 DEF Sent, Told, Fields, Brought
      <3> QED BY <3>2, <3>3
    <2>4. calls' = [t \in Slots |-> calls'[t]]
      BY <1>1
    <2> QED BY <2>3, <2>4 DEF CallsInv
  <1>6. HandoffIsOneRetrieve'
    <2>1. browser'.handoff = browser.handoff /\ browser'.selections = browser.selections
      BY <1>1 DEF NewBrowser
    <2> QED BY <1>1, <2>1, Quiet
  <1> QED BY <1>1, <1>3, <1>4, <1>5, <1>6, Quiet DEF WorkInv

LEMMA WorkSteps ==
    ASSUME WorkInv, WorkStep
    PROVE  WorkInv'
  BY WorkServed, Answered, CatalogAsked, OrgSteps, CartSteps, BrowserSteps, RefreshSteps DEF WorkStep

\* Neither half of the page reads what only the other one keeps.
LEMMA WorkKept ==
    ASSUME WorkInv, UNCHANGED <<server, org, browser, work, calls>>
    PROVE  WorkInv'
  <1>1. WorkTypes'
    BY DEF WorkInv, WorkTypes
  <1> QED BY <1>1, Quiet DEF WorkInv

LEMMA HistoryKept ==
    ASSUME HistoryInv, UNCHANGED asked
    PROVE  HistoryInv'
  BY DEF asked, HistoryInv, HistoryTypes, FailureTold, Looked, H!dependencies, H!selectedRecentProof,
         Histories

\* After a reload the effect of the Proofs tab has not run yet.
LEMMA HistoryReloaded ==
    ASSUME HistoryInv, ReloadPage
    PROVE  HistoryInv'
  <1>1. /\ log' = log /\ ask' = None /\ ran' = FirstRan /\ requests' = requests /\ budget' = budget
        /\ history' = [Fresh EXCEPT !.tab = history.tab]
    BY DEF ReloadPage
  <1>2. PICK e \in Seq(Nat) : e = <<>>
    BY EmptySeq
  <1>3. history' = [tab |-> history.tab, recents |-> e, selectedId |-> None, shown |-> None,
                    replay |-> None, token |-> None]
    BY <1>1, <1>2 DEF Fresh
  <1>4. HistoryTypes'
    <2>1. history.tab \in Tabs
      BY DEF HistoryInv, HistoryTypes, Histories
    <2>2. history' \in Histories
      BY <1>3, <2>1 DEF Histories, Seen
    <2> QED BY <1>1, <2>2 DEF HistoryInv, HistoryTypes, Seen
  <1>5. FailureTold'
    BY <1>1 DEF HistoryInv, FailureTold
  <1>6. Looked'
    <2>1. PICK tab, p, q : tab = history'.tab /\ p = H!selectedRecentProof' /\ q = history'.shown
      OBVIOUS
    <2>2. H!dependencies'.lookup = <<tab, p, q>>
      BY <2>1 DEF H!dependencies
    <2>3. ran'.lookup = <<"ask", None, None>>
      BY <1>1 DEF FirstRan
    <2>4. tab = "proofs" => H!dependencies'.lookup # ran'.lookup
      BY <2>2, <2>3
    <2> QED BY <2>1, <2>4 DEF Looked
  <1> QED BY <1>4, <1>5, <1>6 DEF HistoryInv

LEMMA NextKeeps ==
    ASSUME WorkInv, HistoryInv, [Next]_webVars
    PROVE  WorkInv' /\ HistoryInv'
  <1>1. CASE H!HistoryStep /\ UNCHANGED <<server, org, browser, work, calls, bounds>>
    BY <1>1, WorkKept, HistoryStepKeeps
  <1>2. CASE WorkStep /\ UNCHANGED asked
    BY <1>2, WorkSteps, HistoryKept
  <1>3. CASE ReloadPage
    BY <1>3, Reloaded, HistoryReloaded DEF ReloadPage
  <1>4. CASE UNCHANGED webVars
    BY <1>4, WorkKept, HistoryKept DEF webVars, vars
  <1> QED BY <1>1, <1>2, <1>3, <1>4 DEF Next

\* A first visit, or a page that comes back to one retrieve and one refresh.
LEMMA Begins ==
    ASSUME Init
    PROVE  WorkInv /\ HistoryInv
  <1>1. PICK a \in Aliases, b \in Budgets, cart \in {{}, Families \X Members} :
          LET handoff == [completedAt |-> 1, alias |-> a, metadataArgs |-> Families \X Members]
              page == NewBrowser(IF b.earlier THEN handoff ELSE None,
                                 IF b.earlier THEN handoff.metadataArgs ELSE {})
          IN  /\ server = [session |-> [alias |-> a, connected |-> TRUE],
                           retrieves |-> IF b.earlier THEN <<[alias |-> a, metadataArgs |-> handoff.metadataArgs]>>
                                         ELSE <<>>,
                           snapshot |-> IF b.earlier THEN 1 ELSE 0]
              /\ org = NewPage(a)
              /\ browser = [page EXCEPT !.cart = cart, !.members = [t \in Families |-> Members]]
              /\ work = IF b.earlier THEN EarlierWork(handoff) ELSE NewWork
              /\ bounds = [connect |-> b.connect, metadata |-> b.metadata,
                           failures |-> b.failures, reloads |-> b.reloads]
              /\ budget = [clicks |-> b.clicks, failures |-> b.lost, failed |-> FALSE]
    BY DEF Init
  <1>11. PICK args, handoff, v :
            /\ args = Families \X Members
            /\ handoff = [completedAt |-> 1, alias |-> a, metadataArgs |-> args]
            /\ v = [alias |-> a, metadataArgs |-> args]
    OBVIOUS
  <1>12. /\ server = [session |-> [alias |-> a, connected |-> TRUE],
                      retrieves |-> IF b.earlier THEN <<v>> ELSE <<>>,
                      snapshot |-> IF b.earlier THEN 1 ELSE 0]
         /\ browser = [NewBrowser(IF b.earlier THEN handoff ELSE None, IF b.earlier THEN args ELSE {})
                         EXCEPT !.cart = cart, !.members = [t \in Families |-> Members]]
         /\ work = IF b.earlier THEN EarlierWork(handoff) ELSE NewWork
    BY <1>1, <1>11
  <1>2. HistoryInv
    <2>1. log \in Seq(Nat) /\ <<>> \in Seq(Nat)
      <3>1. PICK x \in Nat, y \in Nat : x = 1 /\ y = 2
        OBVIOUS
      <3>2. log = <<x, y>>
        BY <3>1 DEF Init
      <3> QED BY <3>2
    <2>2. HistoryTypes
      BY <1>1, <2>1, WebAssumption DEF Init, HistoryTypes, Histories, Fresh, Seen, Tabs
    <2>3. FailureTold
      BY DEF Init, FailureTold
    <2>4. Looked
      BY DEF Init, Looked, Fresh
    <2> QED BY <2>2, <2>3, <2>4 DEF HistoryInv
  <1>3. args \in Selections /\ cart \in Selections /\ {} \in Selections
    BY <1>1, <1>11, <1>12 DEF Selections
  <1>4. handoff \in Handoffs /\ v \in Retrieves
    BY <1>1, <1>11, <1>12, <1>3 DEF Handoffs, Retrieves
  <1>5. WorkTypes
    <2>1. server \in Servers
      BY <1>1, <1>11, <1>12, <1>4, EmptySeq DEF Servers, Sessions
    <2>2. org \in Pages
      BY <1>1, <1>11, <1>12 DEF NewPage, Pages
    <2>3. browser \in Browsers
      <3>1. PICK members \in [Families -> SUBSET Members], h \in Handoffs \cup {None}, sel \in Selections :
                /\ members = [t \in Families |-> Members] /\ h = (IF b.earlier THEN handoff ELSE None)
                /\ sel = IF b.earlier THEN args ELSE {}
        BY <1>3, <1>4
      <3>2. browser = [blocked |-> {}, cart |-> cart, members |-> members, lastCatalogAlias |-> None,
                       handoff |-> h, selections |-> sel]
        BY <1>1, <1>11, <1>12, <3>1 DEF NewBrowser
      <3> QED BY <1>3, <3>2 DEF Browsers
    <2>4. work \in Works /\ IsInjective(work.refreshSnapshots)
      <3>1. PICK none \in Seq(Nat) : none = <<>> /\ IsInjective(none)
        BY NoSnapshots
      <3>2. NewWork = [lastRefreshRun |-> None, lastDiffRun |-> None, lastOrgRetrieveRun |-> None,
                       refreshSnapshots |-> none, fromSnapshot |-> None, toSnapshot |-> None,
                       refreshNeedsRebaseline |-> FALSE, orgRunRetrieve |-> TRUE]
        BY <3>1 DEF NewWork
      <3>3. NewWork \in Works
        BY <3>2 DEF Works, Snapshots
      <3>4. CASE b.earlier
        <4>1. PICK one \in Seq(Nat) : one = <<1>> /\ IsInjective(one)
          BY One
        <4>2. PICK run \in RefreshRuns :
                  run = RefreshRun([snapshotId |-> 1, skipped |-> FALSE, refreshedAt |-> 1],
                                   buildWorkflowLineage(handoff, args, a))
          <5>1. args # {}
            <6>1. b \in Budgets /\ b.earlier
              BY <1>1, <3>4
            <6>2. PICK f \in Families, m \in Members : TRUE
              BY <6>1, WebAssumption
            <6>3. <<f, m>> \in Families \X Members
              BY <6>2
            <6> QED BY <1>11, <6>3
          <5>2. IsReady(handoff, args, a)
            <6>1. handoff # None
              BY <1>4, WebAssumption
            <6>2. handoff.alias = a /\ handoff.metadataArgs = args
              BY <1>11
            <6>3. ~(a \notin {None, handoff.alias} \/ handoff.metadataArgs = {})
              BY <5>1, <6>2
            <6> QED BY <5>1, <6>1, <6>3 DEF IsReady, assessRetrieveHandoff
          <5>3. buildWorkflowLineage(handoff, args, a) \in Lineages
            BY <1>3, <1>4, <5>2, LineageType
          <5> QED BY <5>3 DEF RefreshRuns, RefreshRun
        <4>3. work = [NewWork EXCEPT !.refreshSnapshots = one, !.toSnapshot = 1, !.lastRefreshRun = run]
          BY <1>11, <1>12, <3>4, <4>1, <4>2 DEF EarlierWork
        <4> QED BY <3>3, <4>1, <4>3 DEF Works, Snapshots
      <3>5. CASE ~b.earlier
        BY <1>12, <3>1, <3>2, <3>3, <3>5
      <3> QED BY <3>4, <3>5
    <2> QED BY <2>1, <2>2, <2>3, <2>4 DEF WorkTypes
  <1>6. CallsInv
    BY DEF Init, CallsInv
  <1>7. RefreshRunInv
    <2>1. CASE b.earlier
      <3>1. PICK l : l = buildWorkflowLineage(handoff, args, a)
        OBVIOUS
      <3>2. l # None => l.handoffCompletedAt = 1
        BY <1>1, <1>11, <1>12, <3>1 DEF buildWorkflowLineage
      <3>3. work.lastRefreshRun = [snapshotId |-> 1, skipped |-> FALSE, refreshedAt |-> 1, lineage |-> l]
        BY <1>1, <1>11, <1>12, <2>1, <3>1 DEF EarlierWork, NewWork, RefreshRun
      <3> QED BY <3>2, <3>3 DEF RefreshRunInv
    <2>2. CASE ~b.earlier
      BY <1>1, <1>11, <1>12, <2>2 DEF RefreshRunInv, NewWork
    <2> QED BY <2>1, <2>2
  <1>8. PipelineRunInv
    BY <1>1, <1>11, <1>12 DEF PipelineRunInv, EarlierWork, NewWork
  <1>9. HandoffIsOneRetrieve
    <2>1. browser.handoff = (IF b.earlier THEN handoff ELSE None)
          /\ browser.selections = IF b.earlier THEN args ELSE {}
      BY <1>1, <1>11, <1>12 DEF NewBrowser
    <2>2. b.earlier => server.retrieves = <<v>>
      <3>1. PICK l, none : l = <<v>> /\ none = <<>>
        OBVIOUS
      <3>2. server = [session |-> [alias |-> a, connected |-> TRUE],
                      retrieves |-> IF b.earlier THEN l ELSE none,
                      snapshot |-> IF b.earlier THEN 1 ELSE 0]
        BY <1>12, <3>1
      <3> QED BY <3>1, <3>2
    <2>3. DOMAIN <<v>> = {1} /\ <<v>>[1] = v
      OBVIOUS
    <2>4. CASE b.earlier
      <3>1. /\ browser.handoff = handoff /\ browser.selections = args
            /\ 1 \in DOMAIN server.retrieves /\ server.retrieves[1] = v
        BY <2>1, <2>2, <2>3, <2>4
      <3>2. handoff.completedAt = 1 /\ handoff.alias = a /\ handoff.metadataArgs = args
        BY <1>11
      <3> QED BY <1>11, <3>1, <3>2 DEF HandoffIsOneRetrieve
    <2>5. CASE ~b.earlier
      BY <2>1, <2>5 DEF HandoffIsOneRetrieve
    <2> QED BY <2>4, <2>5
  <1> QED BY <1>2, <1>5, <1>6, <1>7, <1>8, <1>9 DEF WorkInv

\* A recorded run that belongs to what is shown was filed under its handoff.
LEMMA FiledUnderHandoff ==
    ASSUME NEW run, NEW v, Belongs(run, v)
    PROVE  run.lineage # None /\ run.lineage.handoffCompletedAt = v.handoff.completedAt
  <1>1. PICK current : /\ current = buildWorkflowLineage(v.handoff, v.selections, v.expectedAlias)
                       /\ current # None /\ compareStoredLineage(run.lineage, current)
    BY DEF Belongs
  <1>2. current = [alias |-> v.handoff.alias, metadataArgs |-> v.handoff.metadataArgs,
                   selectionCount |-> selectionCount(v.selections),
                   handoffCompletedAt |-> v.handoff.completedAt]
    BY <1>1 DEF buildWorkflowLineage
  <1>3. "handoffCompletedAt" \in DOMAIN current /\ current.handoffCompletedAt = v.handoff.completedAt
    BY <1>2
  <1>4. run.lineage # None /\ \A f \in DOMAIN current : run.lineage[f] = current[f]
    BY <1>1 DEF compareStoredLineage
  <1> QED BY <1>3, <1>4

LEMMA CompleteFollows ==
    ASSUME WorkInv
    PROVE  CompleteIsBuilt
  <1>1. PICK v : v = Page
    OBVIOUS
  <1>2. /\ v.handoff = browser.handoff /\ v.selections = browser.selections
        /\ v.lastRefreshRun = work.lastRefreshRun /\ v.lastOrgRetrieveRun = work.lastOrgRetrieveRun
    BY <1>1 DEF Page, View
  <1>3. hasReadyHandoff(v) => browser.handoff # None
    BY <1>2 DEF hasReadyHandoff, IsReady, assessRetrieveHandoff
  <1>4. ASSUME buildRefreshWorkflowStages(v).refresh = "complete"
        PROVE  LET run == work.lastRefreshRun
               IN  /\ run.refreshedAt >= browser.handoff.completedAt
                   /\ run.snapshotId >= browser.handoff.completedAt \/ run.skipped
    <2>1. /\ work.lastRefreshRun # None /\ assessRefreshRunLineage(v) = "current"
      BY <1>2, <1>4 DEF buildRefreshWorkflowStages, Captured
    <2>2. Belongs(work.lastRefreshRun, v)
      BY <1>2, <2>1 DEF assessRefreshRunLineage
    <2>3. /\ work.lastRefreshRun.lineage # None
          /\ work.lastRefreshRun.lineage.handoffCompletedAt = browser.handoff.completedAt
      BY <1>2, <2>2, FiledUnderHandoff
    <2> QED BY <2>1, <2>3 DEF WorkInv, RefreshRunInv
  <1>5. ASSUME buildRefreshWorkflowStages(v).orgRetrieve = "complete"
        PROVE  LET r == server.retrieves[work.lastOrgRetrieveRun.completedAt]
               IN  /\ r.alias = browser.handoff.alias /\ r.metadataArgs = browser.selections
                   /\ work.lastOrgRetrieveRun.completedAt > browser.handoff.completedAt
    <2>1. PICK run : run = work.lastOrgRetrieveRun
      OBVIOUS
    <2>2. run # None /\ assessOrgRetrieveRunLineage(v) = "current" /\ browser.handoff # None
      BY <1>2, <1>3, <1>5, <2>1 DEF buildRefreshWorkflowStages, Captured
    <2>3. /\ run.runRetrieve /\ Belongs(run, v) /\ run.alias = browser.handoff.alias
          /\ run.metadataArgs = browser.handoff.metadataArgs
      BY <1>2, <2>1, <2>2 DEF assessOrgRetrieveRunLineage
    <2>4. run.lineage # None /\ run.lineage.handoffCompletedAt = browser.handoff.completedAt
      BY <1>2, <2>3, FiledUnderHandoff
    <2>5. Brought(run.completedAt, run.alias, run.metadataArgs) /\ run.completedAt > browser.handoff.completedAt
      BY <2>1, <2>2, <2>3, <2>4 DEF WorkInv, PipelineRunInv
    <2>6. browser.selections = browser.handoff.metadataArgs
      BY <2>2 DEF WorkInv, HandoffIsOneRetrieve
    <2> QED BY <2>1, <2>3, <2>5, <2>6 DEF Brought
  <1> QED BY <1>1, <1>4, <1>5 DEF CompleteIsBuilt

LEMMA ShownFollows ==
    ASSUME HistoryInv
    PROVE  ShownIsSelected
  <1>1. ASSUME H!NoRequest, H!dependencies = ran, history.tab = "proofs", H!selectedRecentProof # None
        PROVE  \/ history.shown = H!selectedRecentProof
               \/ history.shown = None /\ budget.failed
    BY <1>1 DEF HistoryInv, Looked, H!NoRequest
  <1> QED BY <1>1 DEF ShownIsSelected, H!ShownIsSelected

\* The loading flag is set by who asks for something and cleared by whoever is
\* answered: no step leaves anything else in it.
Flagged == loading' \in {TRUE, FALSE, loading}

LEMMA HistoryFlagged == H!HistoryStep => Flagged
  <1>1. ASSUME NEW q, H!Post(q) PROVE Flagged
    BY <1>1 DEF H!Post, Flagged
  <1>2. H!Silent => Flagged
    BY DEF H!Silent, Flagged
  <1>3. ASSUME NEW r \in Requests, H!Serve(r) \/ H!Answer(r) PROVE Flagged
    BY <1>3 DEF H!Serve, H!Answer, Flagged
  <1>4. H!Effects => Flagged
    BY <1>1, <1>2 DEF H!Effects
  <1>5. ASSUME H!Operate PROVE Flagged
    <2>1. H!runAsk \/ H!openProof \/ H!openProofHistoryFromAsk \/ H!setUiTab => Flagged
      BY <1>1, <1>2 DEF H!runAsk, H!openProof, H!openProofHistoryFromAsk, H!setUiTab
    <2>2. H!Row \/ H!SelectionButton \/ H!TypeToken \/ H!TokenButton => Flagged
      BY <1>1, <1>2 DEF H!Row, H!SelectionButton, H!TypeToken, H!TokenButton, Flagged
    <2> QED BY <1>5, <2>1, <2>2 DEF H!Operate
  <1> QED BY <1>3, <1>4, <1>5 DEF H!HistoryStep

LEMMA WorkFlagged == WorkStep \/ Reload => Flagged
  <1>1. ASSUME NEW c, Send(c) PROVE Flagged
    BY <1>1 DEF Send, Flagged
  <1>2. Refuse => Flagged
    BY DEF Refuse, Flagged
  <1>3. ASSUME NEW s \in Slots, Serve(s) PROVE Flagged
    BY <1>3 DEF Serve, Flagged
  <1>4. ASSUME NEW s \in Slots, Answer(s) PROVE Flagged
    BY <1>4 DEF Answer, OrgAnswer, BrowserAnswer, RefreshAnswer, Finished, Flagged
  <1>5. CatalogForAlias => Flagged
    BY <1>1 DEF CatalogForAlias
  <1>6. OrgStep => Flagged
    <2>1. UNCHANGED loading => Flagged
      BY DEF Flagged
    <2> QED BY <1>1, <2>1 DEF OrgStep, RowAction, AliasAction, SelectedAction
  <1>7. Cart \/ Reload => Flagged
    BY DEF Cart, Reload, Flagged
  <1>8. BrowserStep => Flagged
    BY <1>1, <1>2 DEF BrowserStep, refreshTypes, retrieveSelected, loadMembers
  <1>9. RefreshStep => Flagged
    <2>1. EditFields => Flagged
      BY DEF EditFields, Flagged
    <2> QED BY <1>1, <1>2, <2>1 DEF RefreshStep, runDiff, runOrgRetrieveNow, executeRefresh
  <1> QED BY <1>3, <1>4, <1>5, <1>6, <1>7, <1>8, <1>9 DEF WorkStep

LEMMA FlagHolds == Spec => [](loading \in BOOLEAN)
  <1>1. Init => loading \in BOOLEAN
    BY DEF Init
  <1>2. loading \in BOOLEAN /\ [Next]_webVars => (loading \in BOOLEAN)'
    <2>1. UNCHANGED webVars => Flagged
      BY DEF webVars, vars, Flagged
    <2>2. [Next]_webVars => Flagged
      BY <2>1, HistoryFlagged, WorkFlagged DEF Next, ReloadPage
    <2> QED BY <2>2 DEF Flagged
  <1> QED BY <1>1, <1>2, PTL DEF Spec

LEMMA TypesFollow ==
    ASSUME WorkInv, HistoryInv, loading \in BOOLEAN
    PROVE  TypeOK
  <1>1. server \in Servers /\ org \in Pages /\ browser \in Browsers /\ work \in Works
        /\ IsInjective(work.refreshSnapshots)
    BY DEF WorkInv, WorkTypes
  <1>2. server.session \in Sessions /\ server.retrieves \in Seq(Retrieves)
    BY <1>1 DEF Servers
  <1>3. /\ {org.session, org.status} \subseteq Sessions \cup {None}
        /\ org.orgAlias \in Aliases \cup {None} /\ org.runtimeUnavailable \in BOOLEAN
    BY <1>1 DEF Pages
  <1>4. /\ browser.handoff \in Handoffs \cup {None} /\ browser.members \in [Families -> SUBSET Members]
        /\ {browser.selections, browser.cart} \subseteq Selections /\ browser.blocked \subseteq Families
        /\ browser.lastCatalogAlias \in Aliases \cup {None}
    BY <1>1 DEF Browsers
  <1>5. /\ work.lastRefreshRun \in {None} \cup RefreshRuns /\ work.lastDiffRun \in {None} \cup DiffRuns
        /\ work.lastOrgRetrieveRun \in {None} \cup PipelineRuns /\ work.refreshSnapshots \in Seq(Nat)
        /\ {work.fromSnapshot, work.toSnapshot} \subseteq Snapshots
        /\ {work.refreshNeedsRebaseline, work.orgRunRetrieve} \subseteq BOOLEAN
    BY <1>1 DEF Works
  <1>6. /\ log \in Seq(Nat) /\ requests \in [Requests -> Asked \cup {None}]
        /\ {ask, history.selectedId, history.shown, history.replay, history.token} \subseteq Seen
        /\ history.recents \in Seq(Nat) /\ history.tab \in {"ask", "proofs"}
    BY DEF HistoryInv, HistoryTypes, Histories, Tabs
  <1>7. server.snapshot \in Nat
    BY <1>1 DEF Servers
  <1> QED BY <1>1, <1>2, <1>3, <1>4, <1>5, <1>6, <1>7 DEF TypeOK, RefreshRuns, DiffRuns, PipelineRuns

LEMMA InvariantsHold == Spec => [](WorkInv /\ HistoryInv)
  <1>1. Init => WorkInv /\ HistoryInv
    BY Begins
  <1>2. (WorkInv /\ HistoryInv) /\ [Next]_webVars => (WorkInv /\ HistoryInv)'
    BY NextKeeps
  <1> QED BY <1>1, <1>2, PTL DEF Spec

------------------------------------------------------------------------------
(* The theorems.                                                           *)

\* Whatever is clicked, answered or reloaded, what the page files keeps its
\* shape: a refresh or a diff is only ever filed under the lineage of a ready
\* handoff, and a snapshot that is built again is not offered twice to the diff
\* however many are remembered, the eleventh included
\* (use-refresh-workspace.ts, 247-269 and 279-489; workflow-lineage.ts, 73-113).
THEOREM ClientTypes == Spec => []TypeOK
  <1>1. WorkInv /\ HistoryInv /\ loading \in BOOLEAN => TypeOK
    BY TypesFollow
  <1> QED BY <1>1, InvariantsHold, FlagHolds, PTL

\* In whatever order clicks, answers, failures and reloads come, the handoff
\* kept by the page is one retrieve the API made, from the org it names and
\* with the selections kept beside it: a retrieve's answer is filed with what
\* was asked, not with the cart of the moment (use-browser-workspace.ts,
\* 646-693).
THEOREM HandoffTold == Spec => []HandoffIsOneRetrieve
  <1>1. WorkInv /\ HistoryInv => HandoffIsOneRetrieve
    BY DEF WorkInv
  <1> QED BY <1>1, InvariantsHold, PTL

\* A stage Refresh & Build shows complete is grounded: its refresh was answered
\* after the files of the handoff on show arrived, and its snapshot was built of
\* them unless the answer says skipped; its pipeline fetched the same selections
\* from the same org after them, although a run is filed under what was on show
\* when it was clicked (refresh-workflow-state.ts, 155-262; workflow-lineage.ts,
\* 73-249; ingestion.service.ts, 132-186).
THEOREM CompleteStages == Spec => []CompleteIsBuilt
  <1>1. WorkInv /\ HistoryInv => CompleteIsBuilt
    BY CompleteFollows
  <1> QED BY <1>1, InvariantsHold, PTL

\* A page at rest on the Proofs tab shows the selected proof, or none after a
\* failure, in whatever order the list, the lookups, the replays and the
\* exports were answered (page.tsx, 138-160; use-proofs-workspace.ts, 282-351).
THEOREM ShownSelected == Spec => []ShownIsSelected
  <1>1. WorkInv /\ HistoryInv => ShownIsSelected
    BY ShownFollows
  <1> QED BY <1>1, InvariantsHold, PTL
==============================================================================
