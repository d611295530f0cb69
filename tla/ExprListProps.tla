--------------------------- MODULE ExprListProps ---------------------------
(***************************************************************************)
(* What the implicit lists and the evaluator of ExprLists must guarantee   *)
(* about the value a parse hands back.                                     *)
(***************************************************************************)
EXTENDS ExprLists, ExprProps

(***************************************************************************)
(* A value handed back is built of operators, each a node or a call of the *)
(* evaluator, and of lists.                                                *)
(***************************************************************************)
IsOperator(v) == IsOp(arena, v) \/ v.k = "value"
Operator(v)   == IF IsOp(arena, v)
                 THEN [k \in {"op", "token", "terms"} |-> arena.nodes[v.id][k]]
                 ELSE reductions[v.id]
Parts(v)      == IF IsOperator(v) THEN Operator(v).terms
                 ELSE IF IsList(v) THEN Members(v) ELSE <<>>

RECURSIVE Within(_)
Within(v) == {v} \cup UNION {Within(Parts(v)[i]) : i \in DOMAIN Parts(v)}

\* The tokens of a value in source order: an opener and a separator have no
\* place of their own.
RECURSIVE Words(_)
Words(v) ==
  LET each(vs) == FlattenSeq([i \in DOMAIN vs |-> Words(vs[i])])
      parts    == Parts(v)
  IN  IF v.k = "leaf" THEN <<v.id>>
      ELSE IF ~IsOperator(v) THEN each(parts)
      ELSE LET op == Operator(v).op.kind
           IN  CASE op = "prefix" -> <<Operator(v).token>> \o each(parts)
                 [] op \in {"suffix", "paren"} -> each(parts) \o <<Operator(v).token>>
                 [] op \in {"infix", "ternary"} ->
                      each(SubSeq(parts, 1, 1)) \o <<Operator(v).token>>
                        \o each(SubSeq(parts, 2, Len(parts)))

WordSet(v) == {Words(v)[i] : i \in DOMAIN Words(v)}

Spoken == SelectSeq(Written, LAMBDA p : input[p] \notin Separators)

Succeeds == status = "done"

(***************************************************************************)
(* A parse hands back every token once and in the order of the source: a   *)
(* list does not lose its first member to the rule that writes its node    *)
(* back over it, nor the members after the first, with or without an       *)
(* evaluator between them.                                                 *)
(***************************************************************************)
ListSourceComplete == Succeeds => Words(result) = Spoken

(***************************************************************************)
(* Each separator stands between two members of one list: the first ends   *)
(* with the token before it, the second begins with the token after.       *)
(***************************************************************************)
Neighbours(l) ==
  {<<Members(l)[i], Members(l)[i + 1]>> : i \in 1..(Len(Members(l)) - 1)}

SeparatorsSeparate ==
  Succeeds =>
    LET pairs == UNION {Neighbours(l) : l \in {l \in Within(result) : IsList(l)}}
    IN  \A p \in {p \in DOMAIN input : input[p] \in Separators} :
          \E pair \in pairs :
            /\ WordSet(pair[1]) # {} /\ WordSet(pair[2]) # {}
            /\ Max(WordSet(pair[1])) = p - 1
            /\ \A q \in (p + 1)..(Min(WordSet(pair[2])) - 1) : input[q] \in ParenOpen

(***************************************************************************)
(* A rule that collects a list holds, until it closes, a list that only    *)
(* grows: no write through a shared node cell, and no reduction of its     *)
(* members, puts an earlier list or a lone member back.                    *)
(***************************************************************************)
CollectorsKeep ==
  [][\A i \in DOMAIN stack \cap DOMAIN stack' :
       LET r == stack[i]
       IN  stack'[i] = r /\ rules[r].name \in {"paren", "list", "elem"} /\ IsList(rules[r].node)
             => /\ IsList(rules'[r].node)
                /\ Len(lists'[rules'[r].node.id]) >= Len(Members(rules[r].node))]_lvars

(***************************************************************************)
(* An implicit list is looser than any operator and never nests: it is the *)
(* whole result, or all that a paren holds.                                *)
(***************************************************************************)
ListsLoosest ==
  Succeeds =>
    \A v \in Within(result) : \A i \in DOMAIN Parts(v) :
      IsList(Parts(v)[i]) =>
        IsOperator(v) /\ Operator(v).op.kind = "paren" /\ i = Len(Parts(v))

(***************************************************************************)
(* With an evaluator every operator of the source has been reduced by the  *)
(* time the parse is done, those of every member of every list included.   *)
(***************************************************************************)
ReducedTokens == {reductions[i].token : i \in DOMAIN reductions}

EveryReduced ==
  Succeeds /\ evaluator # "none" =>
    \A p \in 1..(at - 1) :
      input[p] \in Spelled \cup Tern0 \cup ParenClose => p \in ReducedTokens

(***************************************************************************)
(* And the parse hands back values, and never a tree.                      *)
(***************************************************************************)
ReducedWhole ==
  EveryReduced
    /\ (Succeeds /\ evaluator # "none" => \A v \in Within(result) : ~IsOp(arena, v))

(***************************************************************************)
(* The evaluator is called once for each operator (rs/tests/expr_test.rs,  *)
(* evaluate_called_once_per_operator).                                     *)
(***************************************************************************)
ReducedOnce ==
  \A i, j \in DOMAIN reductions : i # j => reductions[i].token # reductions[j].token

(***************************************************************************)
(* The evaluator is called once for each operator, however often the list  *)
(* it is a member of is reduced again, in a source where no operator is an *)
(* operator's first word: a prefix that opens an operand has the whole     *)
(* expression around it reduced as it closes, and again at its end.        *)
(***************************************************************************)
OperandsPlain ==
  \A p \in 2..(at - 1) :
    input[p - 1] \in DOMAIN Prefix \cup DOMAIN Infix => input[p] \notin DOMAIN Prefix

ListReducedOnce == OperandsPlain => ReducedOnce

(***************************************************************************)
(* Precedence holds within every member of a list, and in the order of the *)
(* evaluator's calls as in the tree.                                       *)
(***************************************************************************)
RECURSIVE RightSide(_)
RightSide(v) ==
  IF IsOperator(v) /\ Operator(v).op.kind \in {"infix", "prefix"} /\ Parts(v) # <<>>
  THEN {Operator(v).op} \cup RightSide(Parts(v)[Len(Parts(v))]) ELSE {}
RECURSIVE LeftSide(_)
LeftSide(v) ==
  IF IsOperator(v) /\ Operator(v).op.kind \in {"infix", "suffix"} /\ Parts(v) # <<>>
  THEN {Operator(v).op} \cup LeftSide(Parts(v)[1]) ELSE {}

ListPrecedenceKept ==
  Succeeds =>
    \A v \in {v \in Within(result) : IsOperator(v)} :
      LET op == Operator(v).op
          parts == Parts(v)
      IN  /\ op.kind = "infix" /\ parts # <<>> =>
               \A z \in RightSide(parts[1]) : op.left <= z.right
          /\ op.kind \in {"infix", "prefix"} /\ Len(parts) = op.terms =>
               \A y \in LeftSide(parts[op.terms]) : y.left >= op.right
=============================================================================
