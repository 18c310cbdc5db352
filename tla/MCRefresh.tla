------------------------------ MODULE MCRefresh ------------------------------
(***************************************************************************)
(* Small instances of Refresh for TLC.                                     *)
(***************************************************************************)
EXTENDS Refresh, TLC

CONSTANTS Fixtures, Org, c1, c2

Account == [type |-> "Object", name |-> "Account"]
Lead    == [type |-> "Object", name |-> "Lead"]
Field   == [type |-> "Field", name |-> "Lead.Email"]
Trigger == [type |-> "ApexTrigger", name |-> "Sync"]
Edge(s, r, d) == [src |-> s, rel |-> r, dst |-> d]

Small   == [nodes |-> {Account, Trigger}, edges |-> {Edge(Trigger, "TRIGGERS_ON", Account)}]
Changed == [nodes |-> {Lead, Trigger}, edges |-> {Edge(Trigger, "TRIGGERS_ON", Lead)}]
Grown   == [Small EXCEPT !.nodes = @ \cup {Lead}]
Large   == [nodes |-> Grown.nodes \cup {Field},
            edges |-> Small.edges \cup {Edge(Lead, "HAS_FIELD", Field)}]
Illegal == [Small EXCEPT !.edges = {Edge(Account, "TRIGGERS_ON", Trigger)}]

Tree(layout, payload, wellFormed) ==
    [layout |-> layout, payload |-> payload, wellFormed |-> wellFormed]

Flat(payload) == Tree("flat", payload, TRUE)
Absent == Tree("absent", EmptyPayload, TRUE)

FlatTrees == {Flat(Small), Flat(Grown), Flat(Large), Flat(Illegal), Absent}
NestedTrees == {Flat(Small), Tree("nested", Small, TRUE), Tree("nested", Changed, TRUE)}
LiveTrees == {Flat(Small), Flat(Changed), Tree("flat", Small, FALSE)}

TwoClasses == Fixtures :> "fixtures" @@ Org :> "retrieved_org"
OneClass == Fixtures :> "fixtures"

\* The callers are interchangeable: sound for the safety runs.
CallerSymmetry == Permutations(Callers)

\* One object more or less is drift within budget, two nodes are not.
TightBudgets == [d \in Domains |-> 1]
==============================================================================
