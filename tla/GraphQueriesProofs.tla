-------------------------- MODULE GraphQueriesProofs --------------------------
(***************************************************************************)
(* The two graph stores answer alike, whatever the graph, and a grant that *)
(* GET /perms reports can be found in the graph: for every graph, name and *)
(* list of principals.                                                     *)
(***************************************************************************)
EXTENDS GraphQueries, TLAPS

\* A graph: any nodes, and any edges between things that have a type and a name,
\* dangling ones included (PostgreSQL's tables declare no foreign keys).
IsGraph(g, Types, Names, Rels) ==
    /\ g.nodes \subseteq [type : Types, name : Names]
    /\ g.edges \subseteq [src : [type : Types, name : Names], rel : Rels,
                          dst : [type : Types, name : Names]]

\* An edge is what its three columns say.
LEMMA EdgeIsItsColumns ==
    ASSUME NEW Types, NEW Names, NEW Rels, NEW g, IsGraph(g, Types, Names, Rels), NEW e \in g.edges
    PROVE  e = Edge(e.src, e.rel, e.dst)
  <1>1. e \in [src : [type : Types, name : Names], rel : Rels, dst : [type : Types, name : Names]]
    BY DEF IsGraph
  <1> QED BY <1>1 DEF Edge

\* Looking up a node and testing for an edge finds what the join of the tables does.
LEMMA GrantPathsAgree ==
    ASSUME NEW Types, NEW Names, NEW Rels, NEW g, IsGraph(g, Types, Names, Rels),
           NEW names, NEW rel, NEW type, NEW name
    PROVE  sqliteGrantPaths(g, names, rel, type, name) = pgGrantPaths(g, names, rel, type, name)
  <1>1. ASSUME NEW x \in sqliteGrantPaths(g, names, rel, type, name)
        PROVE  x \in pgGrantPaths(g, names, rel, type, name)
    <2>1. PICK p \in findPrincipals(g, names), o \in findNode(g, type, name) :
            hasGrant(g, p, o, rel) /\ x = ObjectPath(p.name, rel, name)
      BY <1>1 DEF sqliteGrantPaths
    <2> DEFINE e == Edge(p, rel, o)
    <2>2. e.src = p /\ e.rel = rel /\ e.dst = o
      BY DEF Edge
    <2>3. e \in Joined(g) /\ o.type = type /\ o.name = name
      BY <2>1, <2>2 DEF hasGrant, Joined, findPrincipals, findNode
    <2>4. p.type \in Principals /\ p.name \in names
      BY <2>1 DEF findPrincipals
    <2> HIDE DEF e
    <2>5. x = ObjectPath(e.src.name, rel, e.dst.name)
      BY <2>1, <2>2, <2>3
    <2> QED BY <2>2, <2>3, <2>4, <2>5 DEF pgGrantPaths
  <1>2. ASSUME NEW x \in pgGrantPaths(g, names, rel, type, name)
        PROVE  x \in sqliteGrantPaths(g, names, rel, type, name)
    <2>1. PICK e \in Joined(g) :
            /\ e.rel = rel /\ e.dst.type = type /\ e.dst.name = name
            /\ e.src.type \in Principals /\ e.src.name \in names
            /\ x = ObjectPath(e.src.name, rel, e.dst.name)
      BY <1>2 DEF pgGrantPaths
    <2>2. e = Edge(e.src, rel, e.dst) /\ e \in g.edges
      BY <2>1, EdgeIsItsColumns DEF Joined
    <2>3. e.src \in findPrincipals(g, names) /\ e.dst \in findNode(g, type, name)
      BY <2>1 DEF Joined, findPrincipals, findNode
    <2>4. hasGrant(g, e.src, e.dst, rel) /\ x = ObjectPath(e.src.name, rel, name)
      BY <2>1, <2>2 DEF hasGrant
    <2> QED BY <2>3, <2>4 DEF sqliteGrantPaths
  <1> QED BY <1>1, <1>2

\* The same for the two grants of a field.
LEMMA FieldPathsAgree ==
    ASSUME NEW Types, NEW Names, NEW Rels, NEW g, IsGraph(g, Types, Names, Rels),
           NEW names, NEW object, NEW field
    PROVE  sqliteFieldPaths(g, names, object, field) = pgFieldPaths(g, names, object, field)
  <1>1. ASSUME NEW x \in sqliteFieldPaths(g, names, object, field)
        PROVE  x \in pgFieldPaths(g, names, object, field)
    <2>1. PICK p \in findPrincipals(g, names),
               o \in findNode(g, "Object", object), f \in findNode(g, "Field", field) :
            /\ hasGrant(g, p, o, "GRANTS_OBJECT") /\ hasGrant(g, p, f, "GRANTS_FIELD")
            /\ x = FieldPath(p.name, object, field)
      BY <1>1 DEF sqliteFieldPaths
    <2>2. /\ \E e \in g.edges : e.src = p /\ e.dst = o /\ e.rel = "GRANTS_OBJECT"
          /\ \E e \in g.edges : e.src = p /\ e.dst = f /\ e.rel = "GRANTS_FIELD"
      BY <2>1 DEF hasGrant, Edge
    <2>3. <<p, o, f>> \in g.nodes \X g.nodes \X g.nodes
      BY <2>1 DEF findPrincipals, findNode
    <2>4. /\ p.type \in Principals /\ p.name \in names
          /\ o.type = "Object" /\ o.name = object /\ f.type = "Field" /\ f.name = field
      BY <2>1 DEF findPrincipals, findNode
    <2>5. x = FieldPath(p.name, o.name, f.name)
      BY <2>1, <2>4
    <2> QED BY <2>2, <2>3, <2>4, <2>5 DEF pgFieldPaths
  <1>2. ASSUME NEW x \in pgFieldPaths(g, names, object, field)
        PROVE  x \in sqliteFieldPaths(g, names, object, field)
    <2>1. PICK r \in g.nodes \X g.nodes \X g.nodes :
            /\ r[1].type \in Principals /\ r[1].name \in names
            /\ r[2].type = "Object" /\ r[2].name = object
            /\ r[3].type = "Field" /\ r[3].name = field
            /\ \E e \in g.edges : e.src = r[1] /\ e.dst = r[2] /\ e.rel = "GRANTS_OBJECT"
            /\ \E e \in g.edges : e.src = r[1] /\ e.dst = r[3] /\ e.rel = "GRANTS_FIELD"
            /\ x = FieldPath(r[1].name, r[2].name, r[3].name)
      BY <1>2 DEF pgFieldPaths
    <2>2. /\ r[1] \in findPrincipals(g, names)
          /\ r[2] \in findNode(g, "Object", object) /\ r[3] \in findNode(g, "Field", field)
      BY <2>1 DEF findPrincipals, findNode
    <2>3. hasGrant(g, r[1], r[2], "GRANTS_OBJECT") /\ hasGrant(g, r[1], r[3], "GRANTS_FIELD")
      BY <2>1, EdgeIsItsColumns DEF hasGrant
    <2>4. x = FieldPath(r[1].name, object, field)
      BY <2>1
    <2> QED BY <2>2, <2>3, <2>4 DEF sqliteFieldPaths
  <1> QED BY <1>1, <1>2

\* A hit needs both ends stored, in either store.
LEMMA HitsAgree ==
    ASSUME NEW g, NEW rels, NEW type, NEW name
    PROVE  sqliteHits(g, rels, type, name) = pgHits(g, rels, type, name)
  BY DEF sqliteHits, pgHits, Joined, findNode

\* Backend parity (STORAGE_RUNTIME_DECISION.md): whatever the graph holds, every
\* query has the same answer from SqliteGraphStore and from PostgresGraphStore.
THEOREM StoresAgreeOnQueries ==
    ASSUME NEW Types, NEW Names, NEW Rels, NEW g, IsGraph(g, Types, Names, Rels),
           NEW names, NEW object, NEW field, NEW permission
    PROVE  /\ findObjectPermPaths("sqlite", g, names, object)
                = findObjectPermPaths("postgres", g, names, object)
           /\ findFieldPermPaths("sqlite", g, names, object, field)
                = findFieldPermPaths("postgres", g, names, object, field)
           /\ findSystemPermissionPaths("sqlite", g, names, permission)
                = findSystemPermissionPaths("postgres", g, names, permission)
           /\ findAutomationsForObject("sqlite", g, object)
                = findAutomationsForObject("postgres", g, object)
           /\ findImpactForField("sqlite", g, object, field)
                = findImpactForField("postgres", g, object, field)
  <1>1. \A rel, type, name :
            grantPaths("sqlite", g, names, rel, type, name)
                = grantPaths("postgres", g, names, rel, type, name)
    BY GrantPathsAgree DEF grantPaths
  <1>2. \A rels, type, name :
            hits("sqlite", g, rels, type, name) = hits("postgres", g, rels, type, name)
    BY HitsAgree DEF hits
  <1>3. findFieldPermPaths("sqlite", g, names, object, field)
            = findFieldPermPaths("postgres", g, names, object, field)
    BY FieldPathsAgree DEF findFieldPermPaths
  <1> QED
    BY <1>1, <1>2, <1>3
    DEF findObjectPermPaths, findSystemPermissionPaths, findAutomationsForObject, findImpactForField

\* A "can edit" about a field names one principal of the user that, in the graph of
\* the second query, edits both the object and the field, and the object is granted
\* in the graph of the first: no mixture of two graphs or of two principals makes
\* a grant that the later graph does not hold.
THEOREM GrantsAreHeld ==
    ASSUME NEW Types, NEW Names, NEW Rels, NEW first, IsGraph(first, Types, Names, Rels),
           NEW second, IsGraph(second, Types, Names, Rels),
           NEW names, NEW object, NEW field, NEW store \in {"sqlite", "postgres"},
           fieldPerms(store, first, second, names, object, field).granted
    PROVE  /\ findObjectPermPaths(store, first, names, object) # {}
           /\ \E p \in second.nodes :
                /\ p.type \in Principals /\ p.name \in names
                /\ Edge(p, "GRANTS_OBJECT", Node("Object", object)) \in second.edges
                /\ Edge(p, "GRANTS_FIELD", Node("Field", field)) \in second.edges
  <1> DEFINE paths == findFieldPermPaths(store, second, names, object, field)
  <1>1. findObjectPermPaths(store, first, names, object) # {} /\ paths # {}
    BY DEF fieldPerms, Verdict
  <1>2. paths = findFieldPermPaths("sqlite", second, names, object, field)
    BY StoresAgreeOnQueries
  <1>3. sqliteFieldPaths(second, names, object, field) # {}
    BY <1>1, <1>2 DEF findFieldPermPaths
  <1>4. PICK p \in findPrincipals(second, names),
             o \in findNode(second, "Object", object), f \in findNode(second, "Field", field) :
          hasGrant(second, p, o, "GRANTS_OBJECT") /\ hasGrant(second, p, f, "GRANTS_FIELD")
    BY <1>3 DEF sqliteFieldPaths
  <1>5. o = Node("Object", object) /\ f = Node("Field", field)
    BY <1>4 DEF findNode, IsGraph, Node
  <1> QED BY <1>1, <1>4, <1>5 DEF hasGrant, findPrincipals
==============================================================================
