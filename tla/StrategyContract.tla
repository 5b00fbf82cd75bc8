--------------------------- MODULE StrategyContract ---------------------------
(***************************************************************************)
(* What every strategy shares (services/quant/strategies/base.py and       *)
(* registry.py): the declared parameters, how a value given for one is     *)
(* coerced and bounded, and how decisions become target positions.         *)
(*                                                                         *)
(* A value arrives from JSON, so it has a kind the declaration may not     *)
(* expect.  A number declared float is kept in tenths.                     *)
(***************************************************************************)
EXTENDS Indicators

LONG == 1
FLAT == 0
SHORT == -1
Directions == {LONG, FLAT, SHORT}

-----------------------------------------------------------------------------
(* Values as they are given. *)

Int_(n) == [kind |-> "int", num |-> n]
Tenths(n) == [kind |-> "float", num |-> n]
Bool(b) == [kind |-> "bool", num |-> IF b THEN 1 ELSE 0]
Text(t) == [kind |-> "str", text |-> t]
Digits(n) == [kind |-> "digits", num |-> n]   \* a string holding a number
Blank == [kind |-> "blank"]                   \* a string of spaces
Null == [kind |-> "null"]
NotANumber == [kind |-> "nan"]

-----------------------------------------------------------------------------
(* ParameterSpec.  A coercion is the set of what the value becomes: at     *)
(* most one value, none when it is refused.                                *)

\* int() of a whole float or of digits; a bool is refused on purpose.
AsInt(v) ==
  CASE v.kind \in {"int", "digits"} -> {v.num}
    [] v.kind = "float" -> IF v.num % 10 = 0 THEN {v.num \div 10} ELSE {}
    [] OTHER -> {}

AsFloat(v) ==
  CASE v.kind \in {"int", "digits", "bool"} -> {10 * v.num}
    [] v.kind = "float" -> {v.num}
    [] v.kind = "nan" -> {NaN}
    [] OTHER -> {}

\* bool() refuses nothing: any text is true, a blank one included.
AsBool(v) ==
  {IF v.kind \in {"int", "float", "bool"} THEN v.num # 0 ELSE v.kind # "null"}

AsText(v) ==
  CASE v.kind = "str" -> {v.text}
    [] v.kind = "digits" -> {v.num}
    [] OTHER -> {}

Coerce(type, v) ==
  CASE type = "int" -> AsInt(v)
    [] type = "float" -> AsFloat(v)
    [] type = "bool" -> AsBool(v)
    [] type = "str" -> AsText(v)

\* Faulty variant: the upper bound is not checked.
WithinMinimum(spec, x) == spec.type \notin {"int", "float"} \/ x = NaN \/ spec.minimum <= x

\* NaN is below no minimum and above no maximum.
Within(spec, x) ==
  spec.type \notin {"int", "float"} \/ x = NaN \/ x \in spec.minimum..spec.maximum

\* Choices are looked up before the value is coerced.
Validate(spec, v) ==
  IF spec.choices # {} /\ v \notin spec.choices THEN {}
  ELSE {x \in Coerce(spec.type, v) : Within(spec, x)}

Number(type, default, minimum, maximum) ==
  [type |-> type, default |-> default, minimum |-> minimum, maximum |-> maximum, choices |-> {}]

Flag(default) == [type |-> "bool", default |-> Bool(default), choices |-> {}]

Choice(default, choices) == [type |-> "str", default |-> default, choices |-> choices]

\* Strategy.__init__: defaults for what was not given, nothing unknown, and
\* every value validated.  A set of at most one assignment.
Resolve(specs, given) ==
  LET raw == [p \in DOMAIN specs |-> IF p \in DOMAIN given THEN given[p] ELSE specs[p].default]
      valid == [p \in DOMAIN specs |-> Validate(specs[p], raw[p])]
  IN IF DOMAIN given \subseteq DOMAIN specs /\ {} \notin {valid[p] : p \in DOMAIN specs}
     THEN {[p \in DOMAIN specs |-> CHOOSE x \in valid[p] : TRUE]}
     ELSE {}

-----------------------------------------------------------------------------
(* Targets. *)

\* A bar on which nothing is decided.
Undecided == NaN

\* Faulty variant: gaps are filled from the decision that follows.
HoldNext(target, n) ==
  [i \in 1..n |->
     LET decided == {j \in i..n : target[j] # Undecided}
     IN IF decided = {} THEN FLAT ELSE target[Min(decided)]]

\* ffill().fillna(FLAT): the last decision is held, and there is none to hold
\* before the first.
Hold(target, n) ==
  [i \in 1..n |->
     LET decided == {j \in 1..i : target[j] # Undecided}
     IN IF decided = {} THEN FLAT ELSE target[Max(decided)]]
=============================================================================
