--------------------------- MODULE MCSemanticDrift ---------------------------
(***************************************************************************)
(* Checks SemanticDrift and GraphQueries against reference definitions,    *)
(* over every pair of payloads that a profile, a permission set, an        *)
(* object, a field, a page and their relations make, as successive         *)
(* payloads of a refresh.                                                  *)
(***************************************************************************)
EXTENDS GraphQueries

VARIABLES previous, current
vars == <<previous, current>>

Lead    == [type |-> "Object", name |-> "Lead"]
Email   == [type |-> "Field", name |-> "Lead.Email"]
Admin   == [type |-> "Profile", name |-> "Admin"]
Viewer  == [type |-> "PermissionSet", name |-> "Viewer"]
Page    == [type |-> "ApexPage", name |-> "Home"]

Nodes == {Lead, Email, Admin, Viewer, Page}
Edges == {[src |-> Admin, rel |-> "GRANTS_OBJECT", dst |-> Lead],
          [src |-> Admin, rel |-> "GRANTS_FIELD", dst |-> Email],
          [src |-> Viewer, rel |-> "GRANTS_FIELD", dst |-> Email],
          [src |-> Page, rel |-> "WRITES", dst |-> Lead]}
AllPayloads == [nodes : SUBSET Nodes, edges : SUBSET Edges]

\* Principals may change by one, relations by one, pages freely but for the total.
SmallBudgets ==
    [object |-> 0, field |-> 0, relation |-> 1, policy |-> 1, automation |-> 0,
     ui |-> 0, totalNode |-> 1, totalEdge |-> 1]

Toggle(S, x) == IF x \in S THEN S \ {x} ELSE S \cup {x}

\* The previous payload stays; the current one drifts away from it step by step.
Init == previous \in AllPayloads /\ current = previous
NodeDrifts == \E n \in Nodes : current' = [current EXCEPT !.nodes = Toggle(@, n)]
EdgeDrifts == \E e \in Edges : current' = [current EXCEPT !.edges = Toggle(@, e)]
Next == (NodeDrifts \/ EdgeDrifts) /\ UNCHANGED previous
Spec == Init /\ [][Next]_vars

Snap(fingerprint, p) == buildSemanticSnapshot(<<fingerprint>>, p, "src")
Diff(p, q) == computeSemanticDiff(Snap(1, p), Snap(2, q))
Judged(p, q) == withinBudget(Snap(1, p), Snap(2, q))

\* hasSemanticChanges is exact: it reports a change for precisely those payloads
\* whose ids differ, also when every count is the same.
ChangesAreSeen == hasSemanticChanges(Diff(previous, current)) <=> previous # current

Abs(n) == IF n < 0 THEN -n ELSE n
Net(S, T) == Cardinality(T \ S) - Cardinality(S \ T)
NetOfType(t) == Net({n \in previous.nodes : n.type = t}, {n \in current.nodes : n.type = t})
NetOfRel(r) == Net({e \in previous.edges : e.rel = r}, {e \in current.edges : e.rel = r})
NodeTypes == {n.type : n \in Nodes}
Rels == {e.rel : e \in Edges}
NodeDrift(types) == SumFunctionOnSet([t \in NodeTypes |-> Abs(NetOfType(t))], types \ AllowedNodeTypes)
RelationDrift == SumFunctionOnSet([r \in Rels |-> Abs(NetOfRel(r))], Rels \ AllowedRelations)

\* The drift verdict of evaluate is the one a reader of the configuration expects:
\* per domain the net change of each type or relation that is not allow-listed,
\* and in total the net change of everything, must not be above its threshold.
VerdictIsReference ==
    Judged(previous, current) <=>
        /\ NodeDrift({"Object"}) <= Budgets["object"]
        /\ NodeDrift({"Field"}) <= Budgets["field"]
        /\ NodeDrift({"Profile", "PermissionSet"}) <= Budgets["policy"]
        /\ NodeDrift({"ApexPage"}) <= Budgets["ui"]
        /\ RelationDrift <= Budgets["relation"]
        /\ Abs(Net(previous.nodes, current.nodes)) <= Budgets["totalNode"]
        /\ Abs(Net(previous.edges, current.edges)) <= Budgets["totalEdge"]

\* A change that the budget lets through can be taken back: the way there and the
\* way back get the same verdict, so a retrieve can always be undone by another.
RollbackAllowed == Judged(previous, current) <=> Judged(current, previous)

\* mergePayloads keeps validity: parsers whose own payloads pass the ontology gate
\* cannot fail it together, so a refused refresh always has one parser to blame.
MergeKeepsValidity ==
    (violations(previous) = {} /\ violations(current) = {})
        => violations(mergePayloads({previous, current})) = {}

------------------------------------------------------------------------------
(* The permission files that give a payload its principals and grants, the *)
(* graph that is parsed from them, and who asks.                           *)

Entry(section, name, flag) == [section |-> section, name |-> name, flags |-> {"readable", flag}]
FileOf(p, n) ==
    [type |-> n.type, name |-> n.name,
     entries |->
        {Entry("objectPermissions", "Lead",
               IF Edge(n, "GRANTS_OBJECT", Lead) \in p.edges THEN "viewAllRecords" ELSE "allowRead"),
         Entry("fieldPermissions", "Lead.Email",
               IF Edge(n, "GRANTS_FIELD", Email) \in p.edges THEN "editable" ELSE "hidden")}]
Graph(p) ==
    LET parsed == parsePermissions({FileOf(p, n) : n \in p.nodes \cap {Admin, Viewer}})
    IN  [parsed EXCEPT !.nodes = @ \cup p.nodes]

Mapped == [exists |-> TRUE, readable |-> TRUE,
           principals |-> [ann |-> {"Admin"}, bob |-> {"Viewer"}, cal |-> {"Admin", "Viewer"}]]
Torn == [Mapped EXCEPT !.readable = FALSE]
Users == {"ann", "bob", "cal", "dan"}

\* What the files of a payload let a principal do.
MayEditObject(p, n) == n \in p.nodes /\ Edge(n, "GRANTS_OBJECT", Lead) \in p.edges
MayEditField(p, n) == MayEditObject(p, n) /\ Edge(n, "GRANTS_FIELD", Email) \in p.edges

\* Every "can edit" of GET /perms comes from a permission file: the field is
\* editable to one of the user's principals that edits its object too, in the graph
\* of the second query, and each path names such a principal, also when a refresh
\* replaced the graph between the two queries. Without a refresh the answer is
\* exact. Either store gives it, and no map gives nothing.
GrantIsTraceable ==
    \A map \in {Mapped, Torn}, user \in Users, store \in {"sqlite", "postgres"} :
        LET names == principalsChecked(map, user)
            answer == fieldPerms(store, Graph(previous), Graph(current), names, "Lead", "Lead.Email")
            editors(p) == {n \in {Admin, Viewer} : n.name \in names /\ MayEditField(p, n)}
        IN  /\ answer.granted =>
                /\ mappingStatus(map, user) = "resolved"
                /\ {x.principal : x \in answer.paths} = {n.name : n \in editors(current)}
                /\ editors(current) # {}
                /\ \E n \in {Admin, Viewer} : n.name \in names /\ MayEditObject(previous, n)
            /\ previous = current => (answer.granted <=> editors(current) # {})
==============================================================================
