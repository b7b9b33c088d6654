---------------------------------- MODULE Abac ----------------------------------
(***************************************************************************)
(* One conditional grant, judged by the rules of AbacRules on the          *)
(* attributes of a subject and of the item of a request, while             *)
(* administrators rewrite the resource type, the item and the condition.   *)
(***************************************************************************)
EXTENDS AbacRules

CONSTANTS
    TypeInputs,         \* attribute declarations a PUT may carry
    ItemInputs,         \* items a PUT may carry
    CondInputs          \* conditions a PUT may carry

ASSUME AbacInputAssumption ==
    /\ TypeInputs \subseteq Declarations
    /\ ItemInputs \subseteq Items
    /\ CondInputs \subseteq Conditions

-----------------------------------------------------------------------------
(* The rows a decision reads, rewritten at any time *)

VARIABLES
    decls,      \* the attributes that the resource type declares
    item,       \* the item that requests name, if it exists
    cond        \* the condition of the grant

abacVars == <<decls, item, cond>>

AbacTypeOK == /\ decls \in Declarations
              /\ item \in Items \cup {NoItem}
              /\ cond \in Conditions

AbacInit == /\ decls \in TypeInputs
            /\ item = NoItem
            /\ cond \in CondInputs

PutResourceType == decls' \in TypeInputs /\ UNCHANGED <<item, cond>>
\* Faulty variant: the row is written without its attrs column.
PutItemBare == (\E i \in ItemInputs : item' = [owner |-> i.owner]) /\ UNCHANGED <<decls, cond>>

PutItem == item' \in ItemInputs /\ UNCHANGED <<decls, cond>>
DeleteItem == item # NoItem /\ item' = NoItem /\ UNCHANGED <<decls, cond>>
PutCondition == cond' \in CondInputs /\ UNCHANGED <<decls, item>>

AbacNext == PutResourceType \/ PutItem \/ DeleteItem \/ PutCondition
AbacSpec == AbacInit /\ [][AbacNext]_abacVars

-----------------------------------------------------------------------------
(* Properties *)

L == Left(cond, decls, item)
R == Right(cond, decls, item)

\* Operands that both languages parse alike.
ParsesAlike(v) ==
    \/ v.kind = "num"
    \/ v.kind = "text" /\ GoNumber[v.text] # NaN /\ JsNumber[v.text] = GoNumber[v.text]
Ordinary == IF cond.op \in {"eq", "neq", "in"} THEN PrintsAlike(L) /\ PrintsAlike(R)
                                               ELSE ParsesAlike(L) /\ ParsesAlike(R)

\* On values that print and parse alike in Go and JavaScript a condition comes
\* out as in the prototype; so whatever divergence there is lies in missing
\* attributes, in texts and flags that are ordered as numbers, and in numbers
\* that Go prints with an exponent.
AgreesOnOrdinaryValues ==
    Ordinary => (EvalCondition(cond, decls, item) = PrototypeEval(cond, decls, item))

\* eq compares texts and the ordered operators compare numbers, but they never
\* contradict each other, except on a flag beside the text "true".
EqualIsNotOrdered ==
    L.kind # "flag" /\ R.kind # "flag" /\ ApplyOp("eq", L, R)
        => ~ApplyOp("lt", L, R) /\ ~ApplyOp("gt", L, R)

\* An override of an attribute that the type no longer declares, or has not
\* declared yet, decides nothing: with a bare item the answer is the same.
UndeclaredDecidesNothing ==
    item # NoItem =>
        LET bare == [item EXCEPT !.attrs =
                        [k \in AttrKeys |-> IF decls[k] = Undeclared THEN Missing
                                            ELSE item.attrs[k]]]
        IN  EvalCondition(cond, decls, item) = EvalCondition(cond, decls, bare)
=============================================================================
