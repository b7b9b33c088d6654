------------------------------- MODULE AbacRules -------------------------------
(***************************************************************************)
(* The rules of engine.Decide's ABAC overlay: values, their conversion and  *)
(* comparison, the attribute bag, and the evaluation of one condition.      *)
(* Next to each operator of the engine stands the one of the prototype     *)
(* that its comment says it ports.                                          *)
(*                                                                         *)
(* A value is what JSON can carry into an attribute: nothing, a number, a  *)
(* flag or a text.  How Go and JavaScript print and parse them is given by *)
(* tables, since that is all that a comparison can tell apart.  Numbers    *)
(* are integers, and the texts "NaN" and "Inf" do not occur.                *)
(***************************************************************************)
EXTENDS Integers

CONSTANTS
    Numbers, Texts,     \* that attributes and literals may hold
    Blank,              \* the empty text
    GoText, JsText,     \* strconv.FormatFloat(n, 'g', -1, 64), String(n)
    GoNumber, JsNumber, \* strconv.ParseFloat, parseFloat; NaN if refused
    Elements,           \* the trimmed parts of a comma-separated text
    NaN,
    SubjectKeys, AttrKeys, Owner,   \* names after "subject." and "resource."
    Undeclared, NoItem,
    Subject             \* the attributes of the subject who asks

Value(kind, num, text) == [kind |-> kind, num |-> num, text |-> text]
Missing == Value("missing", 0, Blank)
Num(n) == Value("num", n, Blank)
Flag(b) == Value("flag", IF b THEN 1 ELSE 0, Blank)
Text(t) == Value("text", 0, t)
Values == {Missing} \cup {Num(n) : n \in Numbers} \cup {Flag(b) : b \in BOOLEAN}
          \cup {Text(t) : t \in Texts}

Ops == {"eq", "neq", "gt", "gte", "lt", "lte", "in"}
Names == ({"subject"} \X SubjectKeys) \cup ({"resource"} \X AttrKeys)
Declarations == [AttrKeys -> Values \cup {Undeclared}]
Items == [owner : Texts, attrs : [AttrKeys -> Values]]
Conditions == [left : Names, op : Ops, rightType : {"attr", "literal"},
               right : Names, literal : Texts]

ASSUME ConversionAssumption ==
    /\ Numbers \subseteq Int
    /\ {Blank, "true", "false", "undefined"} \subseteq Texts
    /\ GoText \in [Numbers -> Texts] /\ JsText \in [Numbers -> Texts]
    /\ NaN \notin Int
    /\ GoNumber \in [Texts -> Int \cup {NaN}]
    /\ JsNumber \in [Texts -> Int \cup {NaN}]
    /\ Elements \in [Texts -> SUBSET Texts]
    /\ \A n \in Numbers : GoNumber[GoText[n]] = n
    /\ GoNumber[Blank] = NaN
ASSUME BagAssumption ==
    /\ Owner \in AttrKeys
    /\ Subject \in [SubjectKeys -> Values]
    /\ NoItem \notin Items
    /\ Undeclared \notin Values

-----------------------------------------------------------------------------
(* Conversion and comparison *)

ToStr(v) == CASE v.kind = "num" -> GoText[v.num]
              [] v.kind = "flag" -> (IF v.num = 1 THEN "true" ELSE "false")
              [] OTHER -> v.text

\* Faulty variant: a text is parsed as a plain integer, so an exponent is refused.
ToFloatAtoi(v) ==
    IF v.kind = "text" /\ ~\E n \in Numbers : JsText[n] = v.text THEN 0
    ELSE IF v.kind = "text" THEN GoNumber[v.text] ELSE v.num

\* A text that does not parse counts as 0, and so does a missing value.
ToFloat(v) ==
    IF v.kind = "text" /\ GoNumber[v.text] # NaN THEN GoNumber[v.text] ELSE v.num

JsString(v) == CASE v.kind = "num" -> JsText[v.num]
                 [] v.kind = "flag" -> (IF v.num = 1 THEN "true" ELSE "false")
                 [] v.kind = "missing" -> "undefined"
                 [] OTHER -> v.text

\* parseFloat reads the text of its argument.
JsFloat(v) == IF v.kind = "num" THEN v.num ELSE JsNumber[JsString(v)]

Ordered(op, l, r) == \/ op = "gt" /\ l > r
                     \/ op = "gte" /\ l >= r
                     \/ op = "lt" /\ l < r
                     \/ op = "lte" /\ l <= r

\* Faulty variant: the operands of an ordered comparison are swapped.
ApplyOpSwapped(op, l, r) ==
    \/ op = "eq" /\ ToStr(l) = ToStr(r)
    \/ op = "neq" /\ ToStr(l) # ToStr(r)
    \/ op = "in" /\ ToStr(l) \in Elements[ToStr(r)]
    \/ Ordered(op, ToFloat(r), ToFloat(l))

ApplyOp(op, l, r) ==
    \/ op = "eq" /\ ToStr(l) = ToStr(r)
    \/ op = "neq" /\ ToStr(l) # ToStr(r)
    \/ op = "in" /\ ToStr(l) \in Elements[ToStr(r)]
    \/ Ordered(op, ToFloat(l), ToFloat(r))

\* Values that both languages print alike.
PrintsAlike(v) == v.kind # "missing" /\ (v.kind = "num" => GoText[v.num] = JsText[v.num])

PrototypeOp(op, l, r) ==
    \/ op = "eq" /\ JsString(l) = JsString(r)
    \/ op = "neq" /\ JsString(l) # JsString(r)
    \/ op = "in" /\ JsString(l) \in Elements[JsString(r)]
    \/ JsFloat(l) # NaN /\ JsFloat(r) # NaN /\ Ordered(op, JsFloat(l), JsFloat(r))

-----------------------------------------------------------------------------
(* The attribute bag *)

\* Faulty variant: a blank override counts.
ResolveItemAttrBlankToo(override, default) ==
    IF override # Missing THEN override ELSE default

\* An override counts unless it is missing or blank.
ResolveItemAttr(override, default) ==
    IF override # Missing /\ ToStr(override) # Blank THEN override ELSE default

OwnerOf(item) == IF item = NoItem THEN Blank ELSE item.owner
OverrideOf(item, k) == IF item = NoItem THEN Missing ELSE item.attrs[k]

\* Faulty variant: the item's overrides are copied whether declared or not.
AttrUndeclaredToo(decls, item, k) ==
    IF decls[k] # Undeclared THEN ResolveItemAttr(OverrideOf(item, k), decls[k])
    ELSE IF k = Owner THEN Text(OwnerOf(item))
    ELSE OverrideOf(item, k)

\* resource.<k>: a declared attribute hides the owner of the same name.
Attr(decls, item, k) ==
    IF decls[k] # Undeclared THEN ResolveItemAttr(OverrideOf(item, k), decls[k])
    ELSE IF k = Owner THEN Text(OwnerOf(item))
    ELSE Missing

Lookup(decls, item, name) ==
    IF name[1] = "subject" THEN Subject[name[2]] ELSE Attr(decls, item, name[2])

Left(c, decls, item) == Lookup(decls, item, c.left)
Right(c, decls, item) ==
    IF c.rightType = "literal" THEN Text(c.literal) ELSE Lookup(decls, item, c.right)

EvalCondition(c, decls, item) ==
    ApplyOp(c.op, Left(c, decls, item), Right(c, decls, item))
PrototypeEval(c, decls, item) ==
    PrototypeOp(c.op, Left(c, decls, item), Right(c, decls, item))
=============================================================================
