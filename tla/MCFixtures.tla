----------------------------- MODULE MCFixtures -----------------------------
(***************************************************************************)
(* Rows of the fixtures every port is held to, test/spec/*.tsv, replayed   *)
(* through the rules: the source as tokens (every value is "v") and the    *)
(* S-expression its row expects.  The table is the union of the ones the   *)
(* rows are run under (rs/tests/parity_test.rs), its powers divided by     *)
(* 100000.  Every row is parsed as it is and under an evaluator.          *)
(***************************************************************************)
EXTENDS ExprLists, TLC

Lowest == -1000

Unary(power)      == [left |-> 0, right |-> power]
Binary(power)     == [left |-> power, right |-> power + 1]
Bracketed(o, c)   == [open |-> o, close |-> c]

FxPrefix == [t \in {"-", "+"} |-> Unary(40)] @@ ("@" :> Unary(50))
FxInfix  == [t \in {"-", "+"} |-> Binary(20)] @@ [t \in {"*", "/"} |-> Binary(30)]
              @@ ("~" :> Binary(70))
FxSuffix == "!" :> [left |-> 60, right |-> 0]
FxTernary == ("foo" :> [first |-> "?", second |-> ":"])
              @@ ("bar" :> [first |-> "QQ", second |-> "CC"])
FxParen  == ("call" :> Bracketed("(", ")")) @@ ("index" :> Bracketed("[", "]"))
              @@ ("angle" :> Bracketed("<", ">"))

Rows == <<
  \* binary.tsv
  <<<<"v", "+", "v", "+", "v", "*", "v">>,
    <<"[", "+", "[", "+", "v", "v", "]", "[", "*", "v", "v", "]", "]">>>>,
  <<<<"v", "*", "v", "+", "v", "*", "v", "+", "v">>,
    <<"[", "+", "[", "+", "[", "*", "v", "v", "]", "[", "*", "v", "v", "]", "]", "v", "]">>>>,
  <<<<"v", "+", "v", "*", "v", "+", "v", "+", "v">>,
    <<"[", "+", "[", "+", "[", "+", "v", "[", "*", "v", "v", "]", "]", "v", "]", "v", "]">>>>,
  \* paren-basic.tsv
  <<<<"(", "(", "v", "+", "v", ")", ")", "+", "v">>,
    <<"[", "+", "[", "(", "[", "(", "[", "+", "v", "v", "]", "]", "]", "v", "]">>>>,
  <<<<"(", "v", ")", "+", "(", "v", ")", "+", "v">>,
    <<"[", "+", "[", "+", "[", "(", "v", "]", "[", "(", "v", "]", "]", "v", "]">>>>,
  \* paren-deep-nest.tsv
  <<<<"(", "(", "v", "/", "v", ")", "-", "v", ")", "*", "(", "(", "v", ")", ")">>,
    <<"[", "*", "[", "(", "[", "-", "[", "(", "[", "/", "v", "v", "]", "]", "v", "]", "]", "[", "(", "[", "(", "v", "]", "]", "]">>>>,
  \* paren-basic.tsv
  <<<<"(", ")">>, <<"[", "(", "]">>>>,
  \* prefix-infix-mixed.tsv
  <<<<"v", "-", "(", "-", "v", "*", "v", ")">>,
    <<"[", "-", "v", "[", "(", "[", "*", "[", "-", "v", "]", "v", "]", "]", "]">>>>,
  <<<<"-", "v", "+", "v", "*", "-", "v">>,
    <<"[", "+", "[", "-", "v", "]", "[", "*", "v", "[", "-", "v", "]", "]", "]">>>>,
  <<<<"-", "v", "*", "-", "-", "v">>,
    <<"[", "*", "[", "-", "v", "]", "[", "-", "[", "-", "v", "]", "]", "]">>>>,
  \* unary-prefix-basic.tsv
  <<<<"-", "-", "v", "+", "v">>, <<"[", "+", "[", "-", "[", "-", "v", "]", "]", "v", "]">>>>,
  \* prefix-infix-mixed.tsv
  <<<<"v", "*", "-", "(", "v", "+", "v", ")">>,
    <<"[", "*", "v", "[", "-", "[", "(", "[", "+", "v", "v", "]", "]", "]", "]">>>>,
  \* unary-prefix-edge.tsv
  <<<<"@", "v", "~", "@", "v", "+", "v">>,
    <<"[", "+", "[", "@", "[", "~", "v", "[", "@", "v", "]", "]", "]", "v", "]">>>>,
  <<<<"v", "~", "@", "v", "~", "v">>,
    <<"[", "~", "[", "~", "v", "[", "@", "v", "]", "]", "v", "]">>>>,
  \* unary-suffix-arith.tsv
  <<<<"v", "!", "-", "v", "!", "*", "v", "!">>,
    <<"[", "-", "[", "!", "v", "]", "[", "*", "[", "!", "v", "]", "[", "!", "v", "]", "]", "]">>>>,
  <<<<"v", "*", "v", "!", "*", "v">>,
    <<"[", "*", "[", "*", "v", "[", "!", "v", "]", "]", "v", "]">>>>,
  <<<<"(", "(", "v", "+", "v", ")", ")", "!">>,
    <<"[", "!", "[", "(", "[", "(", "[", "+", "v", "v", "]", "]", "]", "]">>>>,
  \* unary-suffix-basic.tsv
  <<<<"v", "!", "!", "+", "v", "!", "!">>,
    <<"[", "+", "[", "!", "[", "!", "v", "]", "]", "[", "!", "[", "!", "v", "]", "]", "]">>>>,
  \* unary-suffix-arith.tsv
  <<<<"(", "v", "!", "-", "v", "!", ")">>,
    <<"[", "(", "[", "-", "[", "!", "v", "]", "[", "!", "v", "]", "]", "]">>>>,
  \* dangling-operator.tsv
  <<<<"v", "+">>, <<"[", "+", "v", "]">>>>,
  <<<<"-">>, <<"[", "-", "]">>>>,
  <<<<"v", "+", "v", "+">>, <<"[", "+", "[", "+", "v", "v", "]", "]">>>>,
  \* ternary-paren-preval.tsv
  <<<<"v", "?", "v", ":", "v">>, <<"[", "?", "v", "v", "v", "]">>>>,
  \* ternary-basic.tsv
  <<<<"v", "?", "v", "?", "v", "?", "v", ":", "v", ":", "v", ":", "v">>,
    <<"[", "?", "v", "[", "?", "v", "[", "?", "v", "v", "v", "]", "v", "]", "v", "]">>>>,
  <<<<"v", "?", "v", "?", "v", ":", "v", ":", "v", "?", "v", ":", "v", "?", "v", ":", "v">>,
    <<"[", "?", "v", "[", "?", "v", "v", "v", "]", "[", "?", "v", "v", "[", "?", "v", "v", "v", "]", "]", "]">>>>,
  <<<<"v", "+", "v", "?", "v", ":", "v", "?", "v", ":", "v">>,
    <<"[", "?", "[", "+", "v", "v", "]", "v", "[", "?", "v", "v", "v", "]", "]">>>>,
  <<<<"v", "+", "v", "?", "v", "+", "v", ":", "v", "+", "v", "?", "v", ":", "v">>,
    <<"[", "?", "[", "+", "v", "v", "]", "[", "+", "v", "v", "]", "[", "?", "[", "+", "v", "v", "]", "v", "v", "]", "]">>>>,
  <<<<"v", "?", "-", "v", "!", "?", "v", "?", "v", ":", "v", ":", "v", ":", "v">>,
    <<"[", "?", "v", "[", "?", "[", "-", "[", "!", "v", "]", "]", "[", "?", "v", "v", "v", "]", "v", "]", "v", "]">>,
    <<"[", "?", "v", "[", "?", "[", "!", "[", "-", "v", "]", "]", "[", "?", "v", "v", "v", "]", "v", "]", "v", "]">>>>,
  <<<<"v", "?", "v", "?", "v", ":", "v", ":", "-", "v", "!", "?", "v", ":", "v">>,
    <<"[", "?", "v", "[", "?", "v", "v", "v", "]", "[", "?", "[", "-", "[", "!", "v", "]", "]", "v", "v", "]", "]">>,
    <<"[", "?", "v", "[", "?", "v", "v", "v", "]", "[", "?", "[", "!", "[", "-", "v", "]", "]", "v", "v", "]", "]">>>>,
  \* ternary-paren-preval.tsv
  <<<<"(", "v", "?", "v", ":", "v", ")">>, <<"[", "(", "[", "?", "v", "v", "v", "]", "]">>>>,
  \* paren-preval-basic.tsv
  <<<<"v", "<", "v", ">", "+", "v">>, <<"[", "+", "[", "<", "v", "v", "]", "v", "]">>>>,
  <<<<"v", "+", "<", "v", ">">>, <<"[", "+", "v", "[", "<", "v", "]", "]">>>>,
  \* paren-preval-chain.tsv
  <<<<"v", "(", "v", ")", "[", "v", "]", "(", "v", ")">>,
    <<"[", "(", "[", "[", "[", "(", "v", "v", "]", "v", "]", "v", "]">>>>,
  <<<<"(", "v", "+", "v", ")", "(", "v", ")">>,
    <<"[", "(", "[", "(", "[", "+", "v", "v", "]", "]", "v", "]">>>>,
  \* paren-preval-overload.tsv
  <<<<"-", "v", "[", "v", "]", "+", "v">>,
    <<"[", "+", "[", "-", "[", "[", "v", "v", "]", "]", "v", "]">>>>,
  <<<<"v", "[", "v", "[", "v", "[", "v", "]", "]", "]">>,
    <<"[", "[", "v", "[", "[", "v", "[", "[", "v", "v", "]", "]", "]">>>>,
  \* ternary-many-2.tsv
  <<<<"v", "QQ", "v", "CC", "v">>, <<"[", "QQ", "v", "v", "v", "]">>>>,
  \* implicit-list-top-basic.tsv
  <<<<"v", ",", "v">>, <<"[", "v", "v", "]">>>>,
  <<<<"v", "v">>, <<"[", "v", "v", "]">>>>,
  <<<<"v", "+", "v", "v">>, <<"[", "[", "+", "v", "v", "]", "v", "]">>>>,
  <<<<"v", "+", "v", "+", "v", ",", "v", ",", "v">>,
    <<"[", "[", "+", "[", "+", "v", "v", "]", "v", "]", "v", "v", "]">>>>,
  <<<<"v", "v", "+", "v", "+", "v", "v", "v">>,
    <<"[", "v", "[", "+", "[", "+", "v", "v", "]", "v", "]", "v", "v", "]">>>>,
  <<<<"v", "+", "v", "*", "v", ",", "v">>,
    <<"[", "[", "+", "v", "[", "*", "v", "v", "]", "]", "v", "]">>>>,
  <<<<"v", "+", "v", "*", "v", "v">>,
    <<"[", "[", "+", "v", "[", "*", "v", "v", "]", "]", "v", "]">>>>,
  <<<<"v", "+", "v", "*", "v", ",", "v", "*", "v", "+", "v">>,
    <<"[", "[", "+", "v", "[", "*", "v", "v", "]", "]", "[", "+", "[", "*", "v", "v", "]", "v", "]", "]">>>>,
  <<<<"v", ",", "v", "+", "v", "*", "v", ",", "v">>,
    <<"[", "v", "[", "+", "v", "[", "*", "v", "v", "]", "]", "v", "]">>>>,
  \* implicit-list-top-paren.tsv
  <<<<"(", "v", "v", "v", "v", ")">>, <<"[", "(", "[", "v", "v", "v", "v", "]", "]">>>>,
  <<<<"(", "v", ",", "v", "+", "v", "+", "v", ",", "v", ",", "v", ")">>,
    <<"[", "(", "[", "v", "[", "+", "[", "+", "v", "v", "]", "v", "]", "v", "v", "]", "]">>>>,
  <<<<"(", "v", "+", "v", "v", "+", "v", "v", "+", "v", ")">>,
    <<"[", "(", "[", "[", "+", "v", "v", "]", "[", "+", "v", "v", "]", "[", "+", "v", "v", "]", "]", "]">>>>,
  \* paren-implicit-list.tsv
  <<<<"(", "v", "+", "v", ",", "v", "+", "v", ",", "v", ")">>,
    <<"[", "(", "[", "[", "+", "v", "v", "]", "[", "+", "v", "v", "]", "v", "]", "]">>>>,
  <<<<"(", "-", "-", "v", ",", "v", ",", "v", ")">>,
    <<"[", "(", "[", "[", "-", "[", "-", "v", "]", "]", "v", "v", "]", "]">>>>,
  <<<<"(", "-", "-", "v", "v", ")">>,
    <<"[", "(", "[", "[", "-", "[", "-", "v", "]", "]", "v", "]", "]">>>>,
  <<<<"(", "v", ",", "-", "-", "v", ")">>,
    <<"[", "(", "[", "v", "[", "-", "[", "-", "v", "]", "]", "]", "]">>>>,
  <<<<"(", "-", "-", "v", "+", "v", ",", "v", ")">>,
    <<"[", "(", "[", "[", "+", "[", "-", "[", "-", "v", "]", "]", "v", "]", "v", "]", "]">>>>,
  <<<<"(", "(", "-", "-", "v", ")", ",", "v", ")">>,
    <<"[", "(", "[", "[", "(", "[", "-", "[", "-", "v", "]", "]", "]", "v", "]", "]">>>>,
  \* ternary-implicit-list.tsv
  <<<<"v", "v", "?", "v", ":", "v">>, <<"[", "v", "[", "?", "v", "v", "v", "]", "]">>>>,
  <<<<"v", "?", "v", ":", "v", "v">>, <<"[", "[", "?", "v", "v", "v", "]", "v", "]">>>>,
  <<<<"v", "?", "v", ":", "v", ",", "v">>, <<"[", "[", "?", "v", "v", "v", "]", "v", "]">>>>,
  <<<<"v", ",", "v", "?", "v", ":", "v", ",", "v">>,
    <<"[", "v", "[", "?", "v", "v", "v", "]", "v", "]">>>>,
  <<<<"(", "v", "v", "?", "v", ":", "v", ")">>,
    <<"[", "(", "[", "v", "[", "?", "v", "v", "v", "]", "]", "]">>>>,
  <<<<"(", "v", "?", "v", ":", "v", "v", ")">>,
    <<"[", "(", "[", "[", "?", "v", "v", "v", "]", "v", "]", "]">>>>,
  <<<<"(", "v", "v", "?", "v", ":", "v", "v", ")">>,
    <<"[", "(", "[", "v", "[", "?", "v", "v", "v", "]", "v", "]", "]">>>>,
  <<<<"(", "v", "?", "v", ":", "v", ",", "v", ")">>,
    <<"[", "(", "[", "[", "?", "v", "v", "v", "]", "v", "]", "]">>>>,
  <<<<"(", "v", ",", "v", "?", "v", ":", "v", ",", "v", ")">>,
    <<"[", "(", "[", "v", "[", "?", "v", "v", "v", "]", "v", "]", "]">>>>,
  \* ternary-paren-preval.tsv
  <<<<"v", "(", "v", "v", "?", "v", ":", "v", "v", ")">>,
    <<"[", "(", "v", "[", "v", "[", "?", "v", "v", "v", "]", "v", "]", "]">>>>,
  <<<<"v", "(", "v", "?", "v", ":", "v", ",", "v", ")">>,
    <<"[", "(", "v", "[", "[", "?", "v", "v", "v", "]", "v", "]", "]">>>>,
  \* unary-suffix-prefix.tsv
  <<<<"-", "v", "!", ",", "v">>,
    <<"[", "[", "-", "[", "!", "v", "]", "]", "v", "]">>,
    <<"[", "[", "!", "[", "-", "v", "]", "]", "v", "]">>>>,
  <<<<"(", "-", "v", "!", ",", "v", ")">>,
    <<"[", "(", "[", "[", "-", "[", "!", "v", "]", "]", "v", "]", "]">>,
    <<"[", "(", "[", "[", "!", "[", "-", "v", "]", "]", "v", "]", "]">>>>,
  <<<<"(", "v", ",", "-", "v", "!", ")">>,
    <<"[", "(", "[", "v", "[", "-", "[", "!", "v", "]", "]", "]", "]">>,
    <<"[", "(", "[", "v", "[", "!", "[", "-", "v", "]", "]", "]", "]">>>> >>

(***************************************************************************)
(* The S-expression of a value, flattened: a node is its operator's source *)
(* token and its terms between brackets.                                   *)
(***************************************************************************)
HeadToken(op) ==
  CASE op.kind = "paren"   -> Paren[op.name].open
    [] op.kind = "ternary" -> Ternary[op.name].first
    [] OTHER               -> op.name

RECURSIVE Simplified(_)
Simplified(v) ==
  LET each(values) == FlattenSeq([i \in DOMAIN values |-> Simplified(values[i])])
      tree(op, terms) == <<"[", HeadToken(op)>> \o each(terms) \o <<"]">>
  IN  CASE v = Undefined    -> <<>>
        [] v.k = "leaf"     -> <<input[v.id]>>
        [] IsOp(arena, v)   -> tree(OpOf(arena, v), Terms(arena, v))
        [] IsList(v)        -> <<"[">> \o each(Members(v)) \o <<"]">>
        [] v.k = "value"    -> tree(reductions[v.id].op, reductions[v.id].terms)
        [] OTHER            -> <<"null">>

Source == SelectSeq(input, LAMBDA t : t # ZZ)

\* A suffix after a prefix is applied to what the evaluator has already made
\* of the prefix (evaluate-math.tsv, `-1!,2`): such a row has a third entry.
Expected(row) == row[IF evaluator = "none" THEN 2 ELSE Len(row)]

FixtureSpec ==
  ListInit({Append(Rows[i][1], ZZ) : i \in DOMAIN Rows}) /\ [][ListNext]_lvars

(***************************************************************************)
(* The rules give every row the tree its fixture expects, or the values    *)
(* that tree is evaluated to, and a parse of one ends no other way than    *)
(* done.                                                                   *)
(***************************************************************************)
FixturesMatch ==
  /\ status \in {"run", "done"}
  /\ status = "done" =>
       \E i \in DOMAIN Rows : Rows[i][1] = Source /\ Expected(Rows[i]) = Simplified(result)
=============================================================================
