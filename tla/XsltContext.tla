---------------------------- MODULE XsltContext ----------------------------
(***************************************************************************)
(* What a running stylesheet keeps beside the call stack and must put back *)
(* (crates/xslt/src/eval.rs, EvalState): the current() node, the current   *)
(* template rule, the current group, the tunnel parameters, the frames of  *)
(* the local variables, the depth of template calls and the elements open  *)
(* in the result.  Every instruction with a body saves some of these, sets *)
(* others, and puts back the saved ones when the body ends; not every one  *)
(* does so when an error leaves the body, which xsl:try catches.           *)
(*                                                                         *)
(* A stylesheet is any sequence of the instructions that its modules'      *)
(* templates allow.  Of its variables one name, v, is followed.            *)
(***************************************************************************)
EXTENDS XsltRules

CONSTANTS templates, \* of the compiled stylesheet
          Nodes,     \* of the source document
          Values,    \* of v and of a tunnel parameter
          MaxStack,  \* activations at a time (a template counts twice), and of them
          MaxBodies, \* that are no template's
          MaxErrors, \* caught in a run
          MAX_TEMPLATE_CALL_DEPTH

VARIABLES context,   \* the fields of EvalState
          frames,    \* VariableScope: what each frame binds to v
          stack,     \* the instructions and templates under way
          raised,    \* an error is on its way out
          errors,    \* caught so far
          lost       \* fields that an error may have left wrong (history)

vars == <<context, frames, stack, raised, errors, lost>>

None   == ""
Global == "global"

ASSUME XsltAssumption ==
  /\ IsTemplates(templates)
  /\ None \notin Nodes \cup Values
  /\ {MaxStack, MaxBodies, MaxErrors, MAX_TEMPLATE_CALL_DEPTH} \subseteq Nat

Templates == {"apply", "next", "imports", "call"}
Counted   == Templates \ {"imports"}

(* What an instruction sets for its body.                                   *)
Assigned(kind) ==
  CASE kind = "foreach"  -> {"current", "rule"}
    [] kind = "group"    -> {"current", "group"}
    [] kind \in {"iterate", "document", "segment"} -> {"current"}
    [] kind = "items"    -> {"rule"}
    [] kind \in {"element", "tree", "try"} -> {"open"}
    [] OTHER -> {}     \* typed, attributes

Simple == {"foreach", "group", "iterate", "document", "segment", "items",
           "element", "tree", "try", "typed", "attributes"}

(* What it puts back when the body ends.                                    *)
SavedNoRule(kind) == IF kind = "foreach" THEN {"current"} ELSE Assigned(kind)   \* leaves the rule null
Saved(kind) ==
  CASE kind \in {"apply", "next"} -> {"rule", "tunnel", "depth"}
    [] kind = "imports" -> {"rule", "tunnel"}
    [] kind = "call"    -> {"tunnel", "depth"}
    [] kind \in {"params", "body"} -> {"current"}
    [] kind = "items"   -> {"current", "rule"}
    [] kind = "tree"    -> {"current", "rule", "depth", "open"}
    [] OTHER -> Assigned(kind)

(* The bodies with a frame of their own.                                    *)
Framed == {"params", "body", "element", "foreach", "items", "group", "iterate",
           "completion", "typed", "catch"}

(* Those that an error leaves by `?', or with the frame closed only.        *)
Unguarded  == {"params", "foreach", "group", "completion", "document", "typed"}
FrameOnly  == {"element", "iterate"}

SavedOnErrorButDepth(kind) == IF kind \in Unguarded \cup FrameOnly THEN {} ELSE Saved(kind) \ {"depth"}
SavedOnError(kind) == IF kind \in Unguarded \cup FrameOnly THEN {} ELSE Saved(kind)

-----------------------------------------------------------------------------
Top      == stack[Len(stack)]
Below    == IF Len(stack) > 1 THEN stack[Len(stack) - 1] ELSE Top
Running  == ~raised /\ stack # <<>>
Seeing   == Running /\ Top.kind \notin Templates \cup {"params"}
InBody   == Seeing /\ Top.kind # "attributes"

(* saved, frames: at its start; mine: what its body is to see (history), of *)
(* v too, and whether a declaration in the same template gave it that.      *)
Activation(kind, saved, mine) ==
  [kind |-> kind, saved |-> saved, frames |-> frames, lost |-> lost, mine |-> mine]

(* The stack with the innermost activation made another.                    *)
Becomes(kind, mine) == [stack EXCEPT ![Len(stack)] = [Top EXCEPT !.kind = kind, !.mine = mine]]

Restored(fields)  == [f \in DOMAIN context |-> IF f \in fields THEN Top.saved[f] ELSE context[f]]
LostAfter(fields) == (lost \ fields) \cup (Top.lost \cap (fields \cup {"var"}))

(* The innermost frame that binds v.                                        *)
Lookup == LET bound == {i \in DOMAIN frames : frames[i] # None} IN frames[Max(bound)]

FramesAfter(kind, closed) ==
  IF kind = "attributes" THEN Top.frames
  ELSE IF kind \in Framed /\ closed THEN Front(frames) ELSE frames

(* A body without a frame declares in that of the instruction around it.    *)
Around(kind) ==
  LET outer == Front(stack)
      kept  == kind \in Framed \cup {"attributes"} \/ Last(frames) = Last(Top.frames)
  IN IF outer = <<>> \/ kept THEN outer ELSE [outer EXCEPT ![Len(outer)].mine.own = FALSE]

Init ==
  /\ context = [current |-> CHOOSE n \in Nodes : TRUE, rule |-> NoRule, group |-> None,
                tunnel |-> None, depth |-> 0, open |-> 0]
  /\ frames = <<Global>> /\ lost = {} /\ raised = FALSE /\ errors = 0
  /\ stack = <<[kind |-> "apply", saved |-> context, frames |-> frames, lost |-> {},
                mine |-> [current |-> context.current, rule |-> NoRule, group |-> None,
                          tunnel |-> None, var |-> Global, own |-> FALSE]]>>

(* An error that nothing catches ends the run, and is left out.             *)
Fail ==
  /\ errors < MaxErrors /\ \E i \in DOMAIN stack : stack[i].kind = "try"
  /\ raised' = TRUE

Raise == Seeing /\ Fail /\ UNCHANGED <<context, frames, stack, errors, lost>>

-----------------------------------------------------------------------------
(* Instructions.                                                            *)
Bind(value) ==
  /\ InBody
  /\ frames' = [frames EXCEPT ![Len(frames)] = value]
  /\ stack' = Becomes(Top.kind, [Top.mine EXCEPT !.var = value, !.own = TRUE])
  /\ UNCHANGED <<context, raised, errors, lost>>

Setting(record, kind, n) ==
  [f \in DOMAIN record |->
     IF f \notin Assigned(kind) THEN record[f]
     ELSE CASE f = "rule" -> NoRule
            [] f = "open" -> IF kind = "element" THEN record.open + 1 ELSE 0
            [] OTHER -> n]

(* Of the nodes of a loop the first.  Attribute sets see a copy of the      *)
(* global frame, into which a value constructed in them may have declared   *)
(* v; in them are other sets and the constructors of values.                *)
Enter(kind, n) ==
  /\ InBody \/ (Seeing /\ kind \in {"attributes", "tree"})
  /\ Len(stack) < MaxStack
  /\ Cardinality({i \in DOMAIN stack : stack[i].kind \notin Templates \cup {"params", "body"}}) < MaxBodies
  /\ context' = Setting(context, kind, n)
  /\ frames' = IF kind = "attributes" THEN <<Head(frames)>>
               ELSE IF kind \in Framed THEN Append(frames, None) ELSE frames
  /\ lost' = lost \ (Assigned(kind) \cup IF kind = "attributes" THEN {"var"} ELSE {})
  /\ stack' = Append(stack, Activation(kind, context,
                IF kind = "attributes"
                THEN [Top.mine EXCEPT !.var = Global, !.own = (Head(frames) = Global)]
                ELSE Setting(Top.mine, kind, n)))
  /\ UNCHANGED <<raised, errors>>

(* The next node or item: iterate alone opens another frame for it.         *)
NextItem(n) ==
  /\ Running /\ Top.kind \in {"foreach", "items", "group", "iterate", "typed"}
  /\ LET set   == Assigned(Top.kind) \ {"rule"}
         fresh == Top.kind = "iterate"
         For(record) == [f \in DOMAIN record |-> IF f \in set THEN n ELSE record[f]]
     IN /\ context' = For(context)
        /\ lost' = lost \ set
        /\ frames' = IF fresh THEN Append(Front(frames), None) ELSE frames
        /\ stack' = Becomes(Top.kind,
                       [For(Top.mine) EXCEPT !.var = Below.mine.var,
                                             !.own = Below.mine.own /\ (fresh \/ Last(frames) = None)])
  /\ UNCHANGED <<raised, errors>>

(* xsl:on-completion.                                                       *)
Complete ==
  /\ Running /\ Top.kind = "iterate"
  /\ context' = Restored(Saved("iterate"))
  /\ lost' = LostAfter(Saved("iterate"))
  /\ frames' = Append(Front(frames), None)
  /\ stack' = Becomes("completion", Below.mine)
  /\ UNCHANGED <<raised, errors>>

-----------------------------------------------------------------------------
(* Templates.  A tunnel parameter among the instruction's with-params goes  *)
(* to the pool at once; a with-param after it may fail.                     *)
WithParams(p) == IF p = None THEN context ELSE [context EXCEPT !.tunnel = p]
Tunnelled(p)  == IF p = None THEN Top.mine ELSE [Top.mine EXCEPT !.tunnel = p]
StillLost(p)  == IF p = None THEN lost ELSE lost \ {"tunnel"}

WithParamsFail(p) ==
  /\ InBody
  /\ context' = WithParams(p) /\ lost' = lost \cup {"tunnel"} /\ Fail
  /\ UNCHANGED <<frames, stack, errors>>

ApplyTemplates(p) ==
  /\ InBody /\ Len(stack) < MaxStack - 1
  /\ context' = WithParams(p) /\ lost' = StillLost(p)
  /\ stack' = Append(stack, Activation("apply", context, Tunnelled(p)))
  /\ UNCHANGED <<frames, raised, errors>>

(* The template's own scope, in which its parameters come first; caller is  *)
(* the activation of the instruction, below it.                             *)
run_template_body(caller, set, mine, still) ==
  /\ frames' = Append(frames, None)
  /\ lost' = still \ {"current", "var"}
  /\ context' = [set EXCEPT !.current = mine.current]
  /\ stack' = Append(caller, Activation("params", set, mine))

InTemplate(node, rule, mine) ==
  [mine EXCEPT !.current = node, !.rule = rule, !.var = Global, !.own = FALSE]

TooDeep(depth) == depth > MAX_TEMPLATE_CALL_DEPTH

(* One of the nodes the templates are applied to, those that built-in rules *)
(* come to included.                                                        *)
apply_one_to_node(n) ==
  /\ Running /\ Top.kind = "apply" /\ Len(stack) < MaxStack
  /\ LET r == select_template(templates, n)
         depth == Top.saved.depth + 1
     IN /\ r # NoRule
        /\ IF TooDeep(depth) THEN Fail /\ UNCHANGED <<context, frames, stack, lost>>
           ELSE /\ run_template_body(stack, [context EXCEPT !.rule = <<n, r>>, !.depth = depth],
                                     InTemplate(n, <<n, r>>, Top.mine), lost \ {"rule"})
                /\ UNCHANGED raised
  /\ UNCHANGED errors

(* next-match and apply-imports, of the current rule; where no other rule   *)
(* is found the built-in ones apply templates.                              *)
AnotherRule(kind, p) ==
  /\ InBody /\ Len(stack) < MaxStack - 1
  /\ IF context.rule = NoRule THEN Fail /\ UNCHANGED <<context, frames, stack, lost>> ELSE
     LET node  == context.rule[1]
         r     == IF kind = "next" THEN select_template_next(templates, node, context.rule[2])
                  ELSE ApplyImports(templates, node, context.rule[2])
         depth == context.depth + (IF kind = "next" THEN 1 ELSE 0)
         caller == Append(stack, Activation(kind, context, Tunnelled(p)))
     IN IF r = NoRule
        THEN /\ stack' = Append(stack, Activation("apply", context, Tunnelled(p)))
             /\ context' = WithParams(p) /\ lost' = StillLost(p) /\ UNCHANGED <<frames, raised>>
        ELSE IF TooDeep(depth) THEN Fail /\ UNCHANGED <<context, frames, stack, lost>>
        ELSE /\ run_template_body(caller, [WithParams(p) EXCEPT !.rule = <<node, r>>, !.depth = depth],
                                  InTemplate(node, <<node, r>>, Tunnelled(p)), StillLost(p) \ {"rule"})
             /\ UNCHANGED raised
  /\ UNCHANGED errors

(* The rule stays current in the called template, and the node too.         *)
Call(name, p) ==
  /\ InBody /\ Len(stack) < MaxStack - 1
  /\ CallTemplate(templates, name) # 0
  /\ IF TooDeep(context.depth + 1) THEN Fail /\ UNCHANGED <<context, frames, stack, lost>>
     ELSE /\ run_template_body(Append(stack, Activation("call", context, Tunnelled(p))),
                               [WithParams(p) EXCEPT !.depth = @ + 1],
                               InTemplate(Top.mine.current, Top.mine.rule, Tunnelled(p)), StillLost(p))
          /\ UNCHANGED raised
  /\ UNCHANGED errors

(* The parameters are bound, v among them or not, and the body begins; or   *)
(* one is missing or not of its type.                                       *)
Begin(value) ==
  /\ Running /\ Top.kind = "params"
  /\ frames' = [frames EXCEPT ![Len(frames)] = value]
  /\ stack' = Becomes("body", [Top.mine EXCEPT !.own = (value # None),
                                               !.var = IF value = None THEN @ ELSE value])
  /\ UNCHANGED <<context, raised, errors, lost>>

ParamsFail ==
  Running /\ Top.kind = "params" /\ Fail /\ UNCHANGED <<context, frames, stack, errors, lost>>

-----------------------------------------------------------------------------
(* The end of a body.                                                       *)
Leave ==
  /\ Running /\ Top.kind # "params"
  /\ context' = Restored(Saved(Top.kind))
  /\ lost' = LostAfter(Saved(Top.kind))
  /\ frames' = FramesAfter(Top.kind, TRUE)
  /\ stack' = Around(Top.kind)
  /\ UNCHANGED <<raised, errors>>

(* What an error that leaves an instruction may leave wrong.                *)
Careless(kind) ==
  CASE kind = "params"  -> {"current", "var"}
    [] kind = "foreach" -> {"current", "rule", "var"}
    [] kind = "group"   -> {"current", "group", "var"}
    [] kind \in {"iterate", "document"} -> {"current"}
    [] kind \in {"completion", "typed"} -> {"var"}
    [] OTHER -> {}

Unwind ==
  /\ raised /\ stack # <<>>
  /\ context' = Restored(SavedOnError(Top.kind))
  /\ lost' = LostAfter(SavedOnError(Top.kind)) \cup Careless(Top.kind)
  /\ frames' = FramesAfter(Top.kind, Top.kind \notin Unguarded)
  /\ stack' = Around(Top.kind)
  /\ UNCHANGED <<raised, errors>>

(* A matching xsl:catch: its body has a frame, with the error's variables.  *)
Catch ==
  /\ raised /\ stack # <<>> /\ Top.kind = "try"
  /\ context' = Restored(SavedOnError("try"))
  /\ frames' = Append(frames, None)
  /\ LET around == Around("try")
     IN stack' = Append(around, Activation("catch", Restored(SavedOnError("try")), Last(around).mine))
  /\ raised' = FALSE /\ errors' = errors + 1
  /\ UNCHANGED lost

Next ==
  \/ \E v \in Values : Bind(v)
  \/ \E kind \in Simple :
       \E n \in IF "current" \in Assigned(kind) THEN Nodes ELSE {context.current} : Enter(kind, n)
  \/ \E n \in Nodes : NextItem(n) \/ apply_one_to_node(n)
  \/ Complete
  \/ \E p \in Values \cup {None} : ApplyTemplates(p) \/ WithParamsFail(p)
  \/ \E p \in Values \cup {None}, kind \in {"next", "imports"} : AnotherRule(kind, p)
  \/ \E p \in Values \cup {None}, t \in DOMAIN templates :
       templates[t].decl.name # "" /\ Call(templates[t].decl.name, p)
  \/ \E v \in Values \cup {None} : Begin(v)
  \/ ParamsFail \/ Leave \/ Raise \/ Unwind \/ Catch

Spec == Init /\ [][Next]_vars

-----------------------------------------------------------------------------
IsTemplate(i) == stack[i].kind \in {"params", "body"}

(* The template calls counted and the elements open are those under way,    *)
(* through every error and what catches it.                                 *)
CountsExact ==
  LET inTree == {i \in DOMAIN stack : stack[i].kind \in {"tree", "try"}}
      from   == IF inTree = {} THEN 0 ELSE Max(inTree)
  IN /\ context.depth = Cardinality({i \in DOMAIN stack \ {1} :
                                       IsTemplate(i) /\ stack[i - 1].kind \in Counted})
     /\ context.open = Cardinality({i \in DOMAIN stack : i > from /\ stack[i].kind = "element"})

(* Between two instructions of a body current(), the rule, the group, the   *)
(* tunnel parameter and the variables it declares are the body's own, after *)
(* whatever the bodies within it set; an error caught disturbs no more than *)
(* what the instructions it left do not guard, and no longer than to the    *)
(* end of the template, where what that saved comes back (run_template_body,*)
(* apply_one_to_node).                                                      *)
ContextRestored ==
  Seeing => /\ \A f \in {"current", "rule", "group", "tunnel"} \ lost : context[f] = Top.mine[f]
            /\ "var" \notin lost /\ Top.mine.own => Lookup = Top.mine.var
            /\ CountsExact

(* xsl:apply-imports is not counted, and need not be: from a template that  *)
(* is, and whatever that calls or loops over in between, it can come down   *)
(* no more levels of import than are below the rule it started from, so     *)
(* that the limit bounds every recursion (ApplyImports, apply_imports_ctx). *)
RecursionBounded ==
  \A i, j \in DOMAIN stack :
    /\ i + 1 < j /\ stack[i].kind \in Counted /\ IsTemplate(i + 1) /\ stack[i + 1].mine.rule # NoRule
    /\ \A k \in (i + 1)..j : stack[k].kind \notin Counted
    => Cardinality({k \in i..j : stack[k].kind = "imports"})
         <= Cardinality({q \in {templates[t].precedence : t \in DOMAIN templates} :
                          q < templates[stack[i + 1].mine.rule[2][1]].precedence})

(* "variables are visible from their point of binding through the rest of   *)
(* their containing element; for-each / call-template / template-apply each *)
(* open a fresh scope" (eval.rs:1738).  A lookup goes through the frames of *)
(* the callers; the iterations of a loop share theirs.                      *)
LexicalScope == InBody /\ errors = 0 => Lookup = Top.mine.var

(* What a body sees after xsl:try is what it saw before, whatever the error *)
(* left: "Save+restore so nested call-template / apply-templates can update *)
(* without losing the outer current" (eval.rs:3054).                        *)
TryRestores == InBody => \A f \in {"current", "rule", "group", "tunnel"} : context[f] = Top.mine[f]
=============================================================================
