----------------------------- MODULE GraphQueries -----------------------------
(***************************************************************************)
(* Who may edit what: from the permission files of an org, through the     *)
(* permissions parser, into the graph, and out again by the queries that   *)
(* both graph stores answer and queries.service.ts puts together.          *)
(*                                                                         *)
(* A graph is a payload of SemanticDrift. The stores are two programs for  *)
(* one interface: SqliteGraphStore looks nodes up and tests edges one by   *)
(* one, PostgresGraphStore joins. A list of paths or hits is the set of    *)
(* its elements: they are sorted and cut to a limit only for display.      *)
(***************************************************************************)
EXTENDS SemanticDrift, Sequences

Node(type, name) == [type |-> type, name |-> name]
Edge(src, rel, dst) == [src |-> src, rel |-> rel, dst |-> dst]

------------------------------------------------------------------------------
(* The permissions parser. A file is [type, name, entries]: the principal  *)
(* it is of, and per entry its section, what it names and the flags it has *)
(* set to true.                                                            *)

\* canEditObject: seeing all records counts as editing.
canEditObject == {"allowEdit", "modifyAllRecords", "viewAllRecords"}

Sections ==
    [objectPermissions |->
        [type |-> "Object", rel |-> "GRANTS_OBJECT", grants |-> canEditObject],
     fieldPermissions |->
        [type |-> "Field", rel |-> "GRANTS_FIELD", grants |-> {"editable"}],
     userPermissions |->
        [type |-> "SystemPermission", rel |-> "GRANTS_SYSTEM_PERMISSION", grants |-> {"enabled"}],
     customPermissions |->
        [type |-> "CustomPermission", rel |-> "GRANTS_CUSTOM_PERMISSION", grants |-> {"enabled"}],
     applicationVisibilities |->
        [type |-> "ConnectedApp", rel |-> "USES_CONNECTED_APP", grants |-> {"visible"}]]

\* One file: its principal, and a node and an edge for each entry that grants.
parseEntity(file) ==
    LET principal == Node(file.type, file.name)
        granting == {x \in file.entries : x.flags \cap Sections[x.section].grants # {}}
        target(x) == Node(Sections[x.section].type, x.name)
    IN  [nodes |-> {principal} \cup {target(x) : x \in granting},
         edges |-> {Edge(principal, Sections[x.section].rel, target(x)) : x \in granting}]

\* All of them, keyed by id.
parsePermissions(files) ==
    [nodes |-> UNION {parseEntity(f).nodes : f \in files},
     edges |-> UNION {parseEntity(f).edges : f \in files}]

------------------------------------------------------------------------------
(* What both stores answer.                                                *)

Hop(from, rel, to) == [from |-> from, rel |-> rel, to |-> to]
ObjectPath(p, rel, to) == [principal |-> p, object |-> to, path |-> <<Hop(p, rel, to)>>]
FieldPath(p, object, field) ==
    [principal |-> p, object |-> object,
     path |-> <<Hop(p, "GRANTS_OBJECT", object), Hop(p, "GRANTS_FIELD", field)>>]
Hit(e) == [type |-> e.src.type, name |-> e.src.name, rel |-> e.rel, target |-> e.dst.name]

ImpactRels == {"REFERENCES", "QUERIES", "WRITES"}
AutomationRels == ImpactRels \cup {"TRIGGERS_ON"}

------------------------------------------------------------------------------
(* SqliteGraphStore.                                                       *)

\* The node of that type and name, in a set that is empty when there is none.
findNode(graph, type, name) == {n \in graph.nodes : n.type = type /\ n.name = name}

findPrincipals(graph, names) == {n \in graph.nodes : n.type \in Principals /\ n.name \in names}

hasGrant(graph, src, dst, rel) == Edge(src, rel, dst) \in graph.edges

\* Objects and system permissions: one hop from a principal.
sqliteGrantPaths(graph, names, rel, type, name) ==
    {ObjectPath(p.name, rel, name) :
        p \in {p \in findPrincipals(graph, names) :
                  \E o \in findNode(graph, type, name) : hasGrant(graph, p, o, rel)}}

\* A field needs both grants of one principal.
sqliteFieldPaths(graph, names, object, field) ==
    {FieldPath(p.name, object, field) :
        p \in {p \in findPrincipals(graph, names) :
                  \E o \in findNode(graph, "Object", object), f \in findNode(graph, "Field", field) :
                      /\ hasGrant(graph, p, o, "GRANTS_OBJECT")
                      /\ hasGrant(graph, p, f, "GRANTS_FIELD")}}

\* The automation that a relation leads from, to one node.
sqliteHits(graph, rels, type, name) ==
    {Hit(e) : e \in {e \in graph.edges :
        /\ e.rel \in rels /\ e.dst \in findNode(graph, type, name)
        /\ e.src \in graph.nodes /\ e.src.type \in AUTOMATION_NODE_TYPES}}

------------------------------------------------------------------------------
(* PostgresGraphStore.                                                     *)

\* FROM nodes p JOIN edges e ON e.src_id = p.id JOIN nodes o ON o.id = e.dst_id
Joined(graph) == {e \in graph.edges : e.src \in graph.nodes /\ e.dst \in graph.nodes}

pgGrantPaths(graph, names, rel, type, name) ==
    {ObjectPath(e.src.name, rel, e.dst.name) :
        e \in {e \in Joined(graph) :
                  /\ e.rel = rel /\ e.dst.type = type /\ e.dst.name = name
                  /\ e.src.type \in Principals /\ e.src.name \in names}}

\* Mutated: the second EXISTS does not say whose edge it is.
pgFieldPaths_AnySource(graph, names, object, field) ==
    {FieldPath(r[1].name, r[2].name, r[3].name) :
        r \in {r \in graph.nodes \X graph.nodes \X graph.nodes :
                  /\ r[1].type \in Principals /\ r[1].name \in names
                  /\ r[2].type = "Object" /\ r[2].name = object
                  /\ r[3].type = "Field" /\ r[3].name = field
                  /\ \E e \in graph.edges :
                        e.src = r[1] /\ e.dst = r[2] /\ e.rel = "GRANTS_OBJECT"
                  /\ \E e \in graph.edges : e.dst = r[3] /\ e.rel = "GRANTS_FIELD"}}

\* The join of principals, objects and fields, and two EXISTS over the edges.
pgFieldPaths(graph, names, object, field) ==
    {FieldPath(r[1].name, r[2].name, r[3].name) :
        r \in {r \in graph.nodes \X graph.nodes \X graph.nodes :
                  /\ r[1].type \in Principals /\ r[1].name \in names
                  /\ r[2].type = "Object" /\ r[2].name = object
                  /\ r[3].type = "Field" /\ r[3].name = field
                  /\ \E e \in graph.edges :
                        e.src = r[1] /\ e.dst = r[2] /\ e.rel = "GRANTS_OBJECT"
                  /\ \E e \in graph.edges :
                        e.src = r[1] /\ e.dst = r[3] /\ e.rel = "GRANTS_FIELD"}}

pgHits(graph, rels, type, name) ==
    {Hit(e) : e \in {e \in Joined(graph) :
        /\ e.rel \in rels /\ e.src.type \in AUTOMATION_NODE_TYPES
        /\ e.dst.type = type /\ e.dst.name = name}}

------------------------------------------------------------------------------
(* The interface, by the kind of the store. Nobody's grants are none.      *)

grantPaths(store, graph, names, rel, type, name) ==
    IF names = {} THEN {}
    ELSE IF store = "sqlite" THEN sqliteGrantPaths(graph, names, rel, type, name)
    ELSE pgGrantPaths(graph, names, rel, type, name)

findObjectPermPaths(store, graph, names, object) ==
    grantPaths(store, graph, names, "GRANTS_OBJECT", "Object", object)

findSystemPermissionPaths(store, graph, names, permission) ==
    grantPaths(store, graph, names, "GRANTS_SYSTEM_PERMISSION", "SystemPermission", permission)

findFieldPermPaths(store, graph, names, object, field) ==
    IF names = {} THEN {}
    ELSE IF store = "sqlite" THEN sqliteFieldPaths(graph, names, object, field)
    ELSE pgFieldPaths(graph, names, object, field)

hits(store, graph, rels, type, name) ==
    IF store = "sqlite" THEN sqliteHits(graph, rels, type, name)
    ELSE pgHits(graph, rels, type, name)

findAutomationsForObject(store, graph, object) ==
    hits(store, graph, AutomationRels, "Object", object)

\* What touches the field, and what touches the object its name begins with.
findImpactForField(store, graph, object, field) ==
    hits(store, graph, ImpactRels, "Field", field)
        \cup hits(store, graph, ImpactRels, "Object", object)

------------------------------------------------------------------------------
(* queries.service.ts.                                                     *)

\* The principals a user is mapped to. A map file that cannot be read counts as
\* an empty one, and mapping it does not have as none.
principalsChecked(mapFile, user) ==
    IF mapFile.readable /\ user \in DOMAIN mapFile.principals
    THEN mapFile.principals[user] ELSE {}

mappingStatus(mapFile, user) ==
    IF ~mapFile.exists THEN "map_missing"
    ELSE IF principalsChecked(mapFile, user) # {} THEN "resolved" ELSE "unmapped_user"

Verdict(object, field, paths) ==
    [objectGranted |-> object, fieldGranted |-> field, granted |-> object /\ field,
     paths |-> IF object /\ field THEN paths ELSE {}]

\* perms without a field.
objectPerms(store, graph, names, object) ==
    LET paths == findObjectPermPaths(store, graph, names, object)
    IN  Verdict(paths # {}, TRUE, paths)

\* perms with a field: a query for the object, awaited, then one for the field.
\* The graph may have been rebuilt in between: `first` and `second` are what the
\* two queries saw.
fieldPerms(store, first, second, names, object, field) ==
    LET objectGranted == findObjectPermPaths(store, first, names, object) # {}
        paths == findFieldPermPaths(store, second, names, object, field)
    IN  Verdict(objectGranted, objectGranted /\ paths # {}, paths)

systemPermission(store, graph, names, permission) ==
    LET paths == findSystemPermissionPaths(store, graph, names, permission)
    IN  [granted |-> paths # {}, paths |-> paths]
==============================================================================
