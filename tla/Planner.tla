------------------------------- MODULE Planner --------------------------------
(***************************************************************************)
(* PlannerService: the plan a question is given. Pure and synchronous.     *)
(*                                                                         *)
(* The text of a question is abstracted to what the planner's patterns     *)
(* find in it: the intent words, the words of a change review, the lookup  *)
(* phrase, the flow phrase, `latest retrieve', and what it names. What is  *)
(* named is a metadata file of the tree.                                   *)
(***************************************************************************)
EXTENDS Naturals, FiniteSets

CONSTANTS
    Files,              \* metadata files (components) of the parse tree
    TypeOf,             \* the metadata family of each
    None

Foci == {"approval", "breakage", "risk"}
Questions ==
    [words : SUBSET {"perms", "automation", "impact"},
     change : BOOLEAN, focus : SUBSET Foci,
     lookup : {"none", "component", "recordId"},
     flow : {"none", "unnamed", "called", "named"},
     latest : BOOLEAN,
     target : Files \cup {None, "this"},    \* the object or field it is about
     named : Files \cup {None}]             \* the flow or component it names

\* extractField and extractObject: `this' and the like name nothing.
grounded(q) == q.target \in Files
aboutField(q) == grounded(q) /\ TypeOf[q.target] = "CustomField"

\* The focus of a change review, or "none".
compileReviewWorkflow(q) ==
    IF grounded(q) /\ q.change /\ q.focus # {}
    THEN CASE "approval" \in q.focus -> "approval"
           [] "approval" \notin q.focus /\ "breakage" \in q.focus -> "breakage"
           [] OTHER -> "risk"
    ELSE "none"

\* A usage lookup silences the intent words; `flow' is one of them.
activeWords(q) ==
    IF q.lookup # "none" THEN {}
    ELSE q.words \cup (IF q.flow # "none" THEN {"automation"} ELSE {})

intent(q) ==
    LET active == activeWords(q)
    IN  CASE compileReviewWorkflow(q) # "none" -> "review"
          [] compileReviewWorkflow(q) = "none" /\ Cardinality(active) > 1 -> "mixed"
          [] compileReviewWorkflow(q) = "none" /\ Cardinality(active) = 1 ->
                CHOOSE w \in active : TRUE
          [] OTHER -> "unknown"

NoFrame == [intent |-> "none", admissible |-> TRUE]
Frame(kind, admissible) == [intent |-> kind, admissible |-> admissible]

\* What a usage lookup asks for; a record id is recognised and refused.
extractEvidenceLookupTarget(q) ==
    IF q.lookup = "none" THEN None
    ELSE [selected |-> q.named, recordIdUnsupported |-> q.lookup = "recordId"]

\* Approval and permission frames are blocked for `latest retrieve' questions,
\* automation and impact frames only for want of a target.
approvalFrame(q) ==
    IF compileReviewWorkflow(q) = "approval" THEN Frame("approval_decision", ~q.latest)
                                             ELSE NoFrame

\* Mutated: a permission frame that looks at its target alone.
permissionFrame_AnyScope(q) == Frame("permission_path_explanation", grounded(q))

permissionFrame(q) == Frame("permission_path_explanation", ~q.latest /\ grounded(q))

impactFrame(q) == Frame("impact_analysis", aboutField(q))

automationFrame(q) ==
    IF q.target # None THEN Frame("automation_path_explanation", grounded(q)) ELSE NoFrame

buildEvidenceLookupSemanticFrame(q) ==
    LET target == extractEvidenceLookupTarget(q)
    IN  IF target = None THEN NoFrame
        ELSE Frame("evidence_lookup", ~target.recordIdUnsupported)

buildSemanticFrame(q) ==
    CASE intent(q) = "review" -> approvalFrame(q)
      [] intent(q) = "perms" -> permissionFrame(q)
      [] intent(q) = "impact" -> impactFrame(q)
      [] intent(q) = "automation" -> automationFrame(q)
      [] intent(q) = "unknown" -> buildEvidenceLookupSemanticFrame(q)
      [] OTHER -> NoFrame

plan(q) == [intent |-> intent(q), review |-> compileReviewWorkflow(q),
            frame |-> buildSemanticFrame(q)]
==============================================================================
