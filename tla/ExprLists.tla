----------------------------- MODULE ExprLists -----------------------------
(***************************************************************************)
(* Implicit lists, and the evaluator that reduces an expression as it      *)
(* closes (rs/src/lib.rs): the rules of ExprRules carried on where an      *)
(* expression or a value becomes the first member of a list.               *)
(*                                                                         *)
(* An array is copied on write, so a list is a value that never changes:   *)
(* lists[i] are the members of list i.  Appending a member makes a new     *)
(* list, seen by the rules that share the node cell it is written through. *)
(*                                                                         *)
(* The list and elem rules themselves are the base grammar's, and external *)
(* (what they do here is what the plugin and the fixtures rely on); the    *)
(* alternates and hooks the plugin adds to them are its own.  A list that  *)
(* lacks a member is left to the base grammar: the model stops, "base".    *)
(***************************************************************************)
EXTENDS ExprRules, SequencesExt

CONSTANT
  Evaluators        \* what a parser may be configured with: "none", or an
                    \* evaluator that returns plain "values" or new "nodes"

VARIABLES
  lists,
  evaluator,
  reductions,       \* the calls of the evaluator, in order
  marked            \* EVALUATED: the nodes and the lists known as reduced

lvars == <<vars, lists, evaluator, reductions, marked>>

Null      == [k |-> "null", id |-> 0]
List(i)   == [k |-> "list", id |-> i]
Result(i) == [k |-> "value", id |-> i]

IsList(v)  == v.k = "list"
Members(v) == lists[v.id]

ListInit(sources) ==
  /\ InitWith(sources)
  /\ lists = <<>>
  /\ evaluator \in Evaluators
  /\ reductions = <<>> /\ marked = {}

(***************************************************************************)
(* evaluation: a tree is reduced innermost first.  It threads the state it *)
(* changes, the world w, and hands back the world and the value.           *)
(***************************************************************************)
World(a, ls) == [arena |-> a, lists |-> ls, reductions |-> reductions, marked |-> marked,
                 endless |-> FALSE]

Seen(w, v) == v \in w.marked

\* The evaluator's call, and what it returns.
Called(w, node, terms) ==
  LET called == [w EXCEPT !.reductions = Append(@, [op |-> node.op, token |-> node.token,
                                                    terms |-> terms])]
      built  == NewNode(w.arena, node.op, node.token, terms)
  IN  IF evaluator = "nodes"
      THEN [w |-> [called EXCEPT !.arena = built, !.marked = @ \cup {Newest(built)}],
            v |-> Newest(built)]
      ELSE [w |-> called, v |-> Result(Len(called.reductions))]

\* A list is reduced into a new one.
Listed(w, members) ==
  LET ls == Append(w.lists, members)
  IN  [w |-> [w EXCEPT !.lists = ls, !.marked = @ \cup {List(Len(ls))}], v |-> List(Len(ls))]

\* What a value is reduced from, and whether it is in part reduced from
\* itself: then the recursion never comes back.
From(w, v) ==
  IF Seen(w, v) THEN {} ELSE IF IsList(v) THEN {w.lists[v.id][i] : i \in DOMAIN w.lists[v.id]}
  ELSE {Terms(w.arena, v)[i] : i \in DOMAIN Terms(w.arena, v)}
RECURSIVE AllFrom(_, _)
AllFrom(w, S) ==
  LET more == S \cup UNION {From(w, v) : v \in S}
  IN  IF more = S THEN S ELSE AllFrom(w, more)
Endless(w, v) == \E u \in AllFrom(w, {v}) : u \in AllFrom(w, From(w, u))

RECURSIVE Reduce(_, _)
ReduceAll(w, values) ==
  FoldLeft(LAMBDA done, v : LET one == Reduce(done.w, v)
                            IN  [w |-> one.w, vs |-> Append(done.vs, one.v)],
           [w |-> w, vs |-> <<>>], values)
Reduce(w, v) ==
  CASE v = Undefined -> [w |-> w, v |-> Null]
    [] v # Undefined /\ Seen(w, v) -> [w |-> w, v |-> v]
    [] IsOp(w.arena, v) /\ ~Seen(w, v) ->
         LET terms == ReduceAll(w, Terms(w.arena, v))
         IN  Called(terms.w, w.arena.nodes[v.id], terms.vs)
    [] IsList(v) /\ ~Seen(w, v) ->
         LET members == ReduceAll(w, w.lists[v.id])
         IN  Listed(members.w, members.vs)
    [] OTHER -> [w |-> w, v |-> v]

\* The hooks start here.
Reduced(w, v) == IF Endless(w, v) THEN [w |-> [w EXCEPT !.endless = TRUE], v |-> v]
                 ELSE Reduce(w, v)
ReducedMembers(w, v) ==
  LET all == ReduceAll(w, w.lists[v.id])
  IN  IF Endless(w, v) THEN [w |-> [w EXCEPT !.endless = TRUE]]
      ELSE [w |-> [all.w EXCEPT !.lists = Append(@, all.vs)]]

\* The stack of the thread runs out, and the process ends.
Crash == Halt("overflow") /\ UNCHANGED <<lists, evaluator, reductions, marked>>

Becomes(w) ==
  /\ arena' = w.arena /\ lists' = w.lists
  /\ reductions' = w.reductions /\ marked' = w.marked
  /\ UNCHANGED evaluator

(***************************************************************************)
(* Where rules write a node.                                               *)
(***************************************************************************)
Writes(rs, holders, v) ==
  [r \in DOMAIN rs |-> IF r \in holders THEN [rs[r] EXCEPT !.node = v] ELSE rs[r]]

\* The rules before r in its replacement chain, and the rules around it.
RECURSIVE Before(_)
Before(r) == IF rules[r].prev = 0 THEN {} ELSE {rules[r].prev} \cup Before(rules[r].prev)
RECURSIVE ParenAround(_)
ParenAround(r) ==
  LET p == rules[r].parent
  IN  IF p = 0 THEN {} ELSE IF rules[p].name = "paren" THEN {p} ELSE ParenAround(p)

\* MUTANT of CellOf: a list is assigned to a fresh cell.
CellOfFresh(r) == {r}

\* The rules that share the node cell of an elem: those it replaced down to
\* the rule that gave its node a cell, and the list rule that pushed it.
RECURSIVE CellOf(_)
CellOf(r) ==
  LET from == IF rules[r].prev # 0 THEN rules[r].prev ELSE rules[r].parent
  IN  IF rules[r].name = "elem"
        \/ (rules[r].name = "ternary" /\ rules[from].name = "ternary")
      THEN {r} \cup CellOf(from) ELSE {r}

(***************************************************************************)
(* expr: its after-close, where n.expr is zero.  The tree is on the parent *)
(* rule, or the list this expression is a member of: the list is kept, its *)
(* members are reduced.  rs are the rules as the pass left them.           *)
(***************************************************************************)
Hooked(w, rs) == [w |-> w, rs |-> rs]

\* MUTANTS of ExprReduced: a list is not looked into; the rule keeps the
\* tree it closes with.
ExprReducedUnlisted(w, rs) ==
  LET parent == rs[cur].parent
      one    == Reduced(w, rs[parent].node)
  IN  IF evaluator = "none" \/ parent = 0 \/ IsList(rs[parent].node) THEN Hooked(w, rs)
      ELSE Hooked(one.w, Writes(rs, {cur, parent}, one.v))
ExprReducedUnpublished(w, rs) ==
  LET parent == rs[cur].parent
      one    == Reduced(w, rs[parent].node)
  IN  IF evaluator = "none" \/ parent = 0 THEN Hooked(w, rs)
      ELSE Hooked(one.w, Writes(rs, {parent}, one.v))

ExprReduced(w, rs) ==
  LET parent == rs[cur].parent
      held   == rs[parent].node
      cell   == {cur} \cup {r \in DOMAIN rs : rs[r].prev = cur /\ rs[r].name = "elem"}
  IN  IF evaluator = "none" \/ parent = 0 THEN Hooked(w, rs)
      ELSE IF IsList(held)
      THEN LET all == ReducedMembers(w, held)
           IN  Hooked(all.w, Writes(rs, cell \cup {parent}, List(Len(all.w.lists))))
      ELSE LET one == Reduced(w, held)
           IN  Hooked(one.w, Writes(rs, {cur, parent}, one.v))

\* MUTANT of ExprRoot: the expression of the rule that meets the separator.
ExprRootOwn(a, E) == E.node

\* The expression a list at the top level starts with.
ExprRoot(a, E) ==
  LET held  == LinkedNode(E.parent)
      built == {r \in {cur} \cup Before(cur) : rules[r].name = "expr" /\ IsOp(a, NodeOf(r))}
  IN  IF IsOp(a, held) THEN held
      ELSE IF built # {} THEN NodeOf(Min(built)) ELSE E.node

\* The paren a list is collected for: the nearest, unless a list is nearer.
ParenFrames == {i \in DOMAIN stack : rules[stack[i]].name \in {"paren", "list"}}
Collecting ==
  IF ParenFrames = {} \/ rules[stack[Max(ParenFrames)]].name = "list" THEN 0
  ELSE Max(ParenFrames)

\* The frames above it that carry the expression, and would put it back.
Carrying(a, frame) ==
  {stack[i] : i \in {i \in (frame + 1)..Len(stack) :
     \/ rules[stack[i]].name = "expr"
     \/ rules[stack[i]].name = "val"
          /\ (NodeOf(stack[i]) \in {Undefined, Null} \/ IsOp(a, NodeOf(stack[i])))}}

StartsTop(E)   == ExprCloseAlt(E) = "base" /\ E.d = 0 /\ t0 \in {Val} \cup Separators
\* MUTANT of StartsInner: every member starts a list.
StartsInnerAgain(E) == ExprCloseAlt(E) = "base" /\ ~StartsTop(E) /\ Collecting # 0

StartsInner(E) == /\ ExprCloseAlt(E) = "base" /\ ~StartsTop(E)
                  /\ Collecting # 0 /\ ~IsList(NodeOf(stack[Collecting]))

\* The expression becomes the first member: the list L is put on the rules
\* that hold it, and an elem rule reads on.
StartList(a, E, member, holders) ==
  LET L   == List(Len(lists) + 1)
      R   == [E EXCEPT !.n.expr = 0, !.node = L]
      rs  == Append([Writes(rules, holders, L) EXCEPT ![cur] = R],
                    Rule("elem", L, R.n, R.parent, cur, R.d))
      out == ExprReduced(World(a, Append(lists, <<member>>)), rs)
  IN  IF out.w.endless THEN Crash
      ELSE /\ rules' = out.rs /\ cur' = Len(rs)
           /\ Becomes(out.w)
           /\ IF t0 \in Separators THEN Consume ELSE Keep
           /\ UNCHANGED <<stack, pratt, status, result>>

ExprListTop ==
  /\ Passing("expr", "close") /\ StartsTop(rules[cur])
  /\ LET E == rules[cur]
         a == Completed(E)
     IN  StartList(a, E, ExprRoot(a, E),
                   IF E.parent # 0 THEN {E.parent} ELSE Before(cur))

ExprListInner ==
  /\ Passing("expr", "close") /\ StartsInner(rules[cur])
  /\ LET E == rules[cur]
         a == Completed(E)
     IN  StartList(a, E, Rooted(a, E).node,
                   {stack[Collecting], E.parent} \cup Carrying(a, Collecting))

ExprListEnd ==
  /\ Passing("expr", "close") /\ ExprCloseAlt(rules[cur]) \in {"end", "base"}
  /\ ~StartsTop(rules[cur]) /\ ~StartsInner(rules[cur])
  /\ LET a   == Completed(rules[cur])
         E   == Rooted(a, [rules[cur] EXCEPT !.n.expr = 0])
         out == ExprReduced(World(a, lists), [rules EXCEPT ![cur] = E])
     IN  IF out.w.endless THEN Crash
         ELSE Pop(out.rs[cur], out.rs, t0) /\ Becomes(out.w) /\ Keep /\ UNCHANGED pratt

(***************************************************************************)
(* val, list and elem.                                                     *)
(***************************************************************************)
StartsValue == t0 = Val \/ t0 \in ParenOpen \cup DOMAIN Prefix

\* Between two values at the top level, or directly in a paren.
ValListStart ==
  /\ Passing("val", "close") /\ ValCloseAlt(ValClosing) = "base"
  /\ t0 \in {Val} \cup ParenOpen \cup Separators
  /\ Replace(ValClosing, "list", rules)
  /\ IF t0 \in Separators THEN Consume ELSE Keep
  /\ UNCHANGED <<arena, pratt, lists, evaluator, reductions, marked>>

ValListElsewhere ==
  /\ Passing("val", "close") /\ ValCloseAlt(ValClosing) = "base"
  /\ t0 \notin {Val} \cup ParenOpen \cup Separators
  /\ Halt("base")
  /\ UNCHANGED <<lists, evaluator, reductions, marked>>

\* The counters of the expression go on into the members of its list.
ListOpen ==
  /\ Passing("list", "open")
  /\ lists' = Append(lists, <<NodeOf(rules[cur].prev)>>)
  /\ Push([rules[cur] EXCEPT !.node = List(Len(lists) + 1), !.n.list = @ + 1], "elem", rules)
  /\ Keep /\ UNCHANGED <<arena, pratt, evaluator, reductions, marked>>

ElemOpen ==
  /\ Passing("elem", "open") /\ StartsValue
  /\ Push(rules[cur], "val", rules)
  /\ Keep /\ UNCHANGED <<arena, pratt, lists, evaluator, reductions, marked>>

ElemOpenElsewhere ==
  /\ Passing("elem", "open") /\ ~StartsValue
  /\ Halt("base")
  /\ UNCHANGED <<lists, evaluator, reductions, marked>>

\* The after-close hook hands the list on to the paren around it.
Propagated(rs, v) ==
  IF rs[cur].n.paren = 0 THEN rs ELSE Writes(rs, ParenAround(cur), v)

ElemCloseAlt(M) ==
  FirstMatch(<<
    << t0 \in ParenClose /\ M.n.paren # 0, "pop" >>,
    << t0 \in {Val} \cup ParenOpen \cup Separators, "elem" >>,
    << t0 = ZZ, "pop" >>,
    << TRUE, "base" >> >>)

ElemClose ==
  /\ Passing("elem", "close")
  /\ LET M  == rules[cur]
         L  == List(Len(lists) + 1)
         rs == Propagated(Writes(rules, CellOf(cur), L), L)
     IN  /\ lists' = Append(lists, Append(Members(M.node), NodeOf(M.child)))
         /\ CASE ElemCloseAlt(M) = "pop"  -> Pop(rs[cur], rs, t0)
              [] ElemCloseAlt(M) = "elem" -> Replace(rs[cur], "elem", rs)
              [] ElemCloseAlt(M) = "base" ->
                   status' = "base" /\ UNCHANGED <<rules, stack, cur, result>>
  /\ IF t0 \in Separators THEN Consume ELSE Keep
  /\ UNCHANGED <<arena, pratt, evaluator, reductions, marked>>

ListClose ==
  /\ Passing("list", "close") /\ t0 \in ParenClose \cup {ZZ}
  /\ Pop(rules[cur], Propagated(rules, rules[cur].node), t0)
  /\ Keep /\ UNCHANGED <<arena, pratt, lists, evaluator, reductions, marked>>

(***************************************************************************)
(* ternary: the first member of a list, or reduced where its chain ends.   *)
(***************************************************************************)
TernaryListStart ==
  /\ Passing("ternary", "close") /\ TernaryCloseAlt(rules[cur]) = "base"
  /\ LET T  == Unwound(rules[cur])
         L  == List(Len(lists) + 1)
         rs == [Writes(rules, CellOf(cur), L) EXCEPT ![cur] = [T EXCEPT !.node = L]]
     IN  /\ lists' = Append(lists, <<T.node>>)
         /\ Replace(rs[cur], "elem", Propagated(rs, L))
  /\ arena' = Branched
  /\ IF t0 \in Separators THEN Consume ELSE Keep
  /\ UNCHANGED <<pratt, evaluator, reductions, marked>>

\* Where it ends inside another ternary, that one reduces both.
TernaryReduced(w, rs) ==
  LET T    == rs[cur]
      next == IF stack = <<>> THEN "none" ELSE rules[stack[Len(stack)]].name
      one  == Reduced(w, T.node)
  IN  IF evaluator = "none" \/ next = "ternary" \/ Len(Terms(w.arena, T.node)) < 3
      THEN Hooked(w, rs)
      ELSE Hooked(one.w, Writes(rs, {cur, T.parent} \cup Before(cur), one.v))

TernaryListEnd ==
  /\ Passing("ternary", "close") /\ TernaryCloseAlt(rules[cur]) \in {"end", "skip", "close"}
  /\ LET T   == rules[cur]
         out == TernaryReduced(World(Branched, lists), [rules EXCEPT ![cur] = Unwound(T)])
         skip == TernaryCloseAlt(T) = "skip"
     IN  IF out.w.endless THEN Crash
         ELSE /\ Pop(out.rs[cur], out.rs, IF skip THEN t1 ELSE t0)
              /\ Becomes(out.w)
              /\ IF skip THEN Consume ELSE Keep
              /\ UNCHANGED pratt

(***************************************************************************)
(* The rules of ExprRules otherwise.                                       *)
(***************************************************************************)
Rules_ ==
  /\ Val_ \/ Expr_ \/ Paren_ \/ Ternary_ \/ Cancel \/ Over
  /\ UNCHANGED <<lists, evaluator, reductions, marked>>

Lists_ ==
  \/ ExprListTop \/ ExprListInner \/ ExprListEnd
  \/ ValListStart \/ ValListElsewhere
  \/ ListOpen \/ ListClose
  \/ ElemOpen \/ ElemOpenElsewhere \/ ElemClose
  \/ TernaryListStart \/ TernaryListEnd

ListNext == Rules_ \/ Lists_

ListSpec     == ListInit(Sources) /\ [][ListNext]_lvars
FairListSpec == ListSpec /\ WF_lvars(ListNext)
=============================================================================
