----------------------------- MODULE AliasRegister -----------------------------
(***************************************************************************)
(* What the session state promises: one register holding the active alias *)
(* and whether a session is attached to it. A session is attached only to *)
(* an alias the Salesforce CLI has shown to be authenticated, and the     *)
(* register never holds an alias that is neither such a one nor the       *)
(* configured default.                                                     *)
(***************************************************************************)
CONSTANTS Aliases, Configured

VARIABLES status, alias, verified

vars == <<status, alias, verified>>

Init == status = "disconnected" /\ alias = Configured /\ verified = {}

\* The CLI shows an org.
Verify(a) == verified' = verified \cup {a} /\ UNCHANGED <<status, alias>>

\* A session is attached, by connect, switch or retrieve.
Attach(a) ==
    /\ a \in verified
    /\ status' = "connected" /\ alias' = a /\ UNCHANGED verified

\* A session ends. Its alias stays, or is one held before.
Detach(a) ==
    /\ a \in verified \cup {Configured}
    /\ status' = "disconnected" /\ alias' = a /\ UNCHANGED verified

Next == \E a \in Aliases : Verify(a) \/ Attach(a) \/ Detach(a)

Spec == Init /\ [][Next]_vars
==============================================================================
