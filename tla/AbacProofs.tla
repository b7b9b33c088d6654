------------------------------ MODULE AbacProofs ------------------------------
(***************************************************************************)
(* The ABAC overlay for every table of conversions: the rows keep their     *)
(* shape, equality and order never contradict each other, an undeclared     *)
(* override decides nothing, and engine and prototype differ only on values *)
(* that the two languages print or parse differently.                       *)
(***************************************************************************)
EXTENDS Abac, TLAPS

\* The rows of the overlay keep the shape that their handlers accept.
THEOREM AbacTypeCorrect == AbacSpec => []AbacTypeOK
  <1>1. AbacInit => AbacTypeOK
    BY AbacInputAssumption DEF AbacInit, AbacTypeOK
  <1>2. AbacTypeOK /\ [AbacNext]_abacVars => AbacTypeOK'
    <2> SUFFICES ASSUME AbacTypeOK, [AbacNext]_abacVars PROVE AbacTypeOK'
      OBVIOUS
    <2>1. CASE PutResourceType
      BY <2>1, AbacInputAssumption DEF PutResourceType, AbacTypeOK
    <2>2. CASE PutItem
      BY <2>2, AbacInputAssumption DEF PutItem, AbacTypeOK
    <2>3. CASE DeleteItem
      BY <2>3 DEF DeleteItem, AbacTypeOK
    <2>4. CASE PutCondition
      BY <2>4, AbacInputAssumption DEF PutCondition, AbacTypeOK
    <2>5. CASE UNCHANGED abacVars
      BY <2>5 DEF abacVars, AbacTypeOK
    <2> QED BY <2>1, <2>2, <2>3, <2>4, <2>5 DEF AbacNext
  <1> QED BY <1>1, <1>2, PTL DEF AbacSpec

-----------------------------------------------------------------------------
(* Values *)

\* A value is missing, a number, a flag or a text.
LEMMA ValueKinds ==
    ASSUME NEW v \in Values
    PROVE  \/ v.kind = "missing" /\ v.num = 0 /\ v.text = Blank
           \/ v.kind = "num" /\ v.num \in Numbers /\ v.text = Blank
           \/ v.kind = "flag" /\ v.num \in {0, 1} /\ v.text = Blank
           \/ v.kind = "text" /\ v.num = 0 /\ v.text \in Texts
  <1>1. CASE v = Missing
    BY <1>1 DEF Missing, Value
  <1>2. CASE v \in {Num(n) : n \in Numbers}
    BY <1>2 DEF Num, Value
  <1>3. CASE v \in {Flag(b) : b \in BOOLEAN}
    <2>1. PICK b \in BOOLEAN : v = Flag(b)
      BY <1>3
    <2>2. CASE b
      BY <2>1, <2>2 DEF Flag, Value
    <2>3. CASE ~b
      BY <2>1, <2>3 DEF Flag, Value
    <2> QED BY <2>2, <2>3
  <1>4. CASE v \in {Text(t) : t \in Texts}
    BY <1>4 DEF Text, Value
  <1> QED BY <1>1, <1>2, <1>3, <1>4 DEF Values

\* Whatever the bag holds, an ordered comparison compares integers.
LEMMA ToFloatType ==
    ASSUME NEW v \in Values
    PROVE  ToFloat(v) \in Int
  <1>1. v.num \in Int
    <2>1. Numbers \subseteq Int
      BY ConversionAssumption
    <2>2. v.num \in Numbers \cup {0, 1}
      BY ValueKinds
    <2>3. Numbers \cup {0, 1} \subseteq Int
      BY <2>1
    <2> QED BY <2>2, <2>3
  <1>2. v.kind = "text" => v.text \in Texts
    BY ValueKinds
  <1> QED BY <1>1, <1>2, ConversionAssumption DEF ToFloat

\* What the attribute bag holds for a name is a value.
LEMMA LookupType ==
    ASSUME NEW d \in Declarations, NEW i \in Items \cup {NoItem}, NEW n \in Names
    PROVE  Lookup(d, i, n) \in Values
  <1>1. CASE n[1] = "subject"
    <2>1. n[2] \in SubjectKeys
      BY <1>1 DEF Names
    <2> QED BY <1>1, <2>1, BagAssumption DEF Lookup
  <1>2. CASE n[1] # "subject"
    <2>1. n[2] \in AttrKeys
      BY <1>2 DEF Names
    <2>2. Missing \in Values /\ OverrideOf(i, n[2]) \in Values
      BY <2>1 DEF OverrideOf, Items, Values
    <2>3. Text(OwnerOf(i)) \in Values
      BY ConversionAssumption DEF OwnerOf, Items, Values
    <2>4. d[n[2]] \in Values \cup {Undeclared}
      BY <2>1 DEF Declarations
    <2> QED BY <1>2, <2>2, <2>3, <2>4 DEF Lookup, Attr, ResolveItemAttr
  <1> QED BY <1>1, <1>2

\* The operands of a condition are values.
LEMMA OperandType ==
    ASSUME AbacTypeOK
    PROVE  L \in Values /\ R \in Values
  <1>1. /\ cond.left \in Names /\ cond.right \in Names
        /\ cond.literal \in Texts /\ cond.op \in Ops
    BY DEF AbacTypeOK, Conditions
  <1>2. Lookup(decls, item, cond.left) \in Values
    BY <1>1, LookupType DEF AbacTypeOK
  <1>3. Lookup(decls, item, cond.right) \in Values
    BY <1>1, LookupType DEF AbacTypeOK
  <1>4. Text(cond.literal) \in Values
    BY <1>1 DEF Values
  <1> QED BY <1>2, <1>3, <1>4 DEF L, R, Left, Right

-----------------------------------------------------------------------------
(* Equality and order *)

\* Values that print alike are parsed to one number.
LEMMA PrintedAlikeComparedAlike ==
    ASSUME NEW v \in Values, NEW w \in Values,
           v.kind # "flag", w.kind # "flag", ToStr(v) = ToStr(w)
    PROVE  ToFloat(v) = ToFloat(w)
  <1> DEFINE Parse(t) == IF GoNumber[t] = NaN THEN 0 ELSE GoNumber[t]
  <1>1. ASSUME NEW x \in Values, x.kind # "flag"
        PROVE  ToFloat(x) = Parse(ToStr(x))
    <2>1. CASE x.kind = "missing"
      BY <2>1, ValueKinds, ConversionAssumption DEF ToFloat, ToStr
    <2>2. CASE x.kind = "num"
      <3>1. x.num \in Numbers /\ x.num \in Int
        BY <2>2, ValueKinds, ConversionAssumption
      <3>2. GoNumber[GoText[x.num]] = x.num /\ x.num # NaN
        BY <3>1, ConversionAssumption
      <3> QED BY <2>2, <3>2 DEF ToFloat, ToStr
    <2>3. CASE x.kind = "text"
      BY <2>3, ValueKinds DEF ToFloat, ToStr
    <2> QED BY <1>1, <2>1, <2>2, <2>3, ValueKinds
  <1> QED BY <1>1

\* eq never holds together with lt or gt, except where a flag takes part.
LEMMA EqualNotOrderedNow == AbacTypeOK => EqualIsNotOrdered
  <1> SUFFICES ASSUME AbacTypeOK, L.kind # "flag", R.kind # "flag",
                      ApplyOp("eq", L, R)
               PROVE  ~ApplyOp("lt", L, R) /\ ~ApplyOp("gt", L, R)
    BY DEF EqualIsNotOrdered
  <1>1. ToStr(L) = ToStr(R)
    BY DEF ApplyOp, Ordered
  <1>2. ToFloat(L) = ToFloat(R) /\ ToFloat(L) \in Int
    BY <1>1, OperandType, PrintedAlikeComparedAlike, ToFloatType
  <1> QED BY <1>2 DEF ApplyOp, Ordered

\* Of eq and an ordered comparison a condition can never have both: what the
\* engine prints alike it also parses to one number, whatever the texts are.
THEOREM EqualNeverOrdered == AbacSpec => []EqualIsNotOrdered
  BY AbacTypeCorrect, EqualNotOrderedNow, PTL

-----------------------------------------------------------------------------
(* The declared attributes *)

\* A name is looked up alike in two items that agree on the declared attributes.
LEMMA LookupDeclared ==
    ASSUME NEW d \in Declarations, NEW i \in Items, NEW n \in Names
    PROVE  LET bare == [i EXCEPT !.attrs =
                           [k \in AttrKeys |-> IF d[k] = Undeclared THEN Missing
                                               ELSE i.attrs[k]]]
           IN  Lookup(d, i, n) = Lookup(d, bare, n)
  <1> DEFINE kept == [k \in AttrKeys |-> IF d[k] = Undeclared THEN Missing
                                         ELSE i.attrs[k]]
             bare == [i EXCEPT !.attrs = kept]
  <1>1. CASE n[1] = "subject"
    BY <1>1 DEF Lookup
  <1>2. CASE n[1] # "subject"
    <2>1. n[2] \in AttrKeys
      BY <1>2 DEF Names
    <2>2. bare.owner = i.owner /\ bare.attrs = kept
      BY DEF Items
    <2>3. i # NoItem /\ bare \in Items
      <3>1. kept \in [AttrKeys -> Values]
        BY DEF Items, Values
      <3> QED BY <3>1, BagAssumption DEF Items
    <2>4. bare # NoItem
      BY <2>3, BagAssumption
    <2>5. OwnerOf(bare) = OwnerOf(i)
      BY <2>2, <2>3, <2>4 DEF OwnerOf
    <2>6. d[n[2]] # Undeclared => OverrideOf(bare, n[2]) = OverrideOf(i, n[2])
      BY <2>1, <2>2, <2>3, <2>4 DEF OverrideOf
    <2>7. Attr(d, i, n[2]) = Attr(d, bare, n[2])
      BY <2>5, <2>6 DEF Attr
    <2> QED BY <1>2, <2>7 DEF Lookup
  <1> QED BY <1>1, <1>2

\* Only what the type declares can decide.
LEMMA UndeclaredNow == AbacTypeOK => UndeclaredDecidesNothing
  <1> SUFFICES ASSUME AbacTypeOK, item # NoItem PROVE UndeclaredDecidesNothing
    BY DEF UndeclaredDecidesNothing
  <1> DEFINE bare == [item EXCEPT !.attrs =
                         [k \in AttrKeys |-> IF decls[k] = Undeclared THEN Missing
                                             ELSE item.attrs[k]]]
  <1>1. /\ item \in Items /\ decls \in Declarations
        /\ cond.left \in Names /\ cond.right \in Names
    BY DEF AbacTypeOK, Conditions
  <1>2. Lookup(decls, item, cond.left) = Lookup(decls, bare, cond.left)
    BY <1>1, LookupDeclared
  <1>3. Lookup(decls, item, cond.right) = Lookup(decls, bare, cond.right)
    BY <1>1, LookupDeclared
  <1>4. EvalCondition(cond, decls, item) = EvalCondition(cond, decls, bare)
    BY <1>2, <1>3 DEF EvalCondition, Left, Right
  <1> QED BY <1>4 DEF UndeclaredDecidesNothing

\* Whatever an item carries beyond its type's declarations, no condition can
\* tell, however types and items are rewritten.
THEOREM UndeclaredNeverDecides == AbacSpec => []UndeclaredDecidesNothing
  BY AbacTypeCorrect, UndeclaredNow, PTL

-----------------------------------------------------------------------------
(* The engine and its prototype *)

\* Values that both languages print alike have one text in both.
LEMMA SameText ==
    ASSUME NEW v \in Values, PrintsAlike(v)
    PROVE  ToStr(v) = JsString(v)
  BY ValueKinds DEF PrintsAlike, ToStr, JsString

\* Values that both languages parse alike are one number in both.
LEMMA SameNumber ==
    ASSUME NEW v \in Values, ParsesAlike(v)
    PROVE  JsFloat(v) = ToFloat(v) /\ JsFloat(v) # NaN
  <1>1. CASE v.kind = "num"
    BY <1>1, ValueKinds, ConversionAssumption DEF JsFloat, ToFloat
  <1>2. CASE v.kind # "num"
    BY <1>2, ValueKinds DEF ParsesAlike, JsFloat, JsString, ToFloat
  <1> QED BY <1>1, <1>2

\* On such operands the engine and the prototype evaluate a condition alike.
LEMMA AgreesNow == AbacTypeOK => AgreesOnOrdinaryValues
  <1> SUFFICES ASSUME AbacTypeOK, Ordinary
               PROVE  ApplyOp(cond.op, L, R) = PrototypeOp(cond.op, L, R)
    BY DEF AgreesOnOrdinaryValues, EvalCondition, PrototypeEval, L, R
  <1>1. L \in Values /\ R \in Values
    BY OperandType
  <1>2. CASE cond.op \in {"eq", "neq", "in"}
    <2>1. ToStr(L) = JsString(L) /\ ToStr(R) = JsString(R)
      BY <1>1, <1>2, SameText DEF Ordinary
    <2> QED BY <1>2, <2>1 DEF ApplyOp, PrototypeOp, Ordered
  <1>3. CASE cond.op \notin {"eq", "neq", "in"}
    <2>1. /\ JsFloat(L) = ToFloat(L) /\ JsFloat(L) # NaN
          /\ JsFloat(R) = ToFloat(R) /\ JsFloat(R) # NaN
      BY <1>1, <1>3, SameNumber DEF Ordinary
    <2> QED BY <1>3, <2>1 DEF ApplyOp, PrototypeOp
  <1> QED BY <1>2, <1>3

\* The port is exact except on missing attributes, on ordered texts and flags
\* that do not parse, and on numbers that Go prints with an exponent.
THEOREM OrdinaryValuesAgree == AbacSpec => []AgreesOnOrdinaryValues
  BY AbacTypeCorrect, AgreesNow, PTL
=============================================================================
