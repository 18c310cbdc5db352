------------------------------ MODULE MCAskReplay -----------------------------
(***************************************************************************)
(* Small instances of AskReplay for TLC.                                   *)
(***************************************************************************)
EXTENDS AskReplay, TLC

CONSTANTS h1, h2

\* A field, a flow and a trigger that write it, a tab and a permission set.
Family == "field" :> "CustomField" @@ "flow" :> "Flow" @@ "trigger" :> "ApexTrigger"
          @@ "tab" :> "CustomTab" @@ "grant" :> "PermissionSet"
Directory == "CustomField" :> "objects" @@ "Flow" :> "flows" @@ "ApexTrigger" :> "triggers"
             @@ "CustomTab" :> None @@ "PermissionSet" :> "permissionsets"
Itself == [f \in Files |-> {f}]
Edge == "field" :> {} @@ "flow" :> {"WRITES"} @@ "trigger" :> {"TRIGGERS_ON"}
        @@ "tab" :> {} @@ "grant" :> {"GRANTS"}
Sure == "field" :> 3 @@ "flow" :> 2 @@ "trigger" :> 2 @@ "tab" :> 2 @@ "grant" :> 3
Name == "field" :> 1 @@ "flow" :> 2 @@ "trigger" :> 3 @@ "tab" :> 4 @@ "grant" :> 5

Plain == "field" :> "match" @@ "flow" :> "match" @@ "trigger" :> "near"
         @@ "tab" :> "absent" @@ "grant" :> "match"
\* The flow no longer writes the field, the grant is gone, a tab was added.
Later == "field" :> "match" @@ "flow" :> "other" @@ "trigger" :> "near"
         @@ "tab" :> "other" @@ "grant" :> "absent"
FirstOrgs == {Plain}
Orgs == {Plain, Later}

Question(words, target) ==
    [words |-> words, change |-> FALSE, focus |-> {}, lookup |-> "none", flow |-> "none",
     latest |-> FALSE, target |-> target, named |-> None]
Latest(q) == [q EXCEPT !.latest = TRUE]
Request(q, scope) ==
    [q |-> q, scope |-> scope, consistency |-> TRUE, assist |-> FALSE, low |-> FALSE]
Picked(type, members) == [type |-> type, members |-> members]

Impact == Question({"impact"}, "field")
FieldScope == {Picked("CustomField", {"field"})}
FlowOf(q) == [q EXCEPT !.flow = "named", !.named = "flow"]
Uses(q, f) == [q EXCEPT !.lookup = "component", !.named = f]

\* Graph-wide questions.
GraphWide ==
    {[Request(Impact, None) EXCEPT !.assist = TRUE],
     Request([Question({}, "field") EXCEPT !.change = TRUE, !.focus = {"approval", "risk"}], None),
     [Request(Question({"perms", "impact"}, "field"), None) EXCEPT !.consistency = FALSE],
     Request(Question({"automation"}, "field"), None)}
\* Questions restricted to the latest retrieve.
Restricted ==
    {Request(Latest(Impact), FieldScope),
     Request(Latest(Question({"perms"}, "field")), FieldScope),
     Request(Latest(FlowOf(Question({}, None))), {Picked("PermissionSet", {"grant"})}),
     Request(Latest(Uses(Question({}, None), "flow")), {Picked("Flow", {}), Picked("CustomTab", {"tab"})})}
AllAsked == GraphWide \cup Restricted

\* A lookup of a retrieved tab.
TabAsked == {Request(Latest(Uses(Question({}, None), "tab")), {Picked("CustomTab", {"tab"})}),
             Request(Latest(Impact), FieldScope)}

\* A log in which the last process refused an automation question.
EarlierLogs == {<<[intent |-> "automation", trustLevel |-> "refused"]>>}

Alike == Permutations(Handlers)
==============================================================================
