----------------------------- MODULE ExprRules -----------------------------
(***************************************************************************)
(* The rules the expression plugin adds to the parser, val, expr, paren    *)
(* and ternary (rs/src/lib.rs), as a state machine over the rule stack of  *)
(* the engine that runs them.                                              *)
(*                                                                         *)
(* The engine is external.  It processes the rule on top of its stack: an  *)
(* open pass, then one close pass each time the rule is on top again.  A   *)
(* pass runs the before hook, takes the FIRST alternate that matches, adds *)
(* its counters, runs its action, then pushes a child rule, replaces the   *)
(* rule or (closing) pops it, and runs the after hook.  A child is seeded  *)
(* with the node and the counters of the rule that pushed or replaced it.  *)
(*                                                                         *)
(* The alternates of a pass are an ordered table of <<condition, name>>,   *)
(* and there is one action for each name or group of names.  Tokens are    *)
(* chosen as the parse first looks at them.  An implicit list and an       *)
(* unclaimed opener leave for the rules of the base grammar: there the     *)
(* model stops, with the status "base".                                    *)
(***************************************************************************)
EXTENDS ExprOps, NodeArena

CONSTANTS
  MaxTokens,      \* bound on the tokens of a source
  RuleLimit       \* RULE_LIMIT, 1024 in the code

ASSUME TokensBound == MaxTokens \in Nat /\ MaxTokens >= 2

VARIABLES
  input,          \* the tokens looked at so far; position i is input[i]
  at,             \* the position of the next token
  arena,
  rules,          \* every rule created so far; a rule is named by its index
  stack,          \* the rules waiting below the current one
  cur,            \* the current rule, 0 when the stack has emptied
  pratt,          \* the call of prattify under way, or NoCall
  status,         \* "run", then "done", "error", "base" or "cancel"
  result

vars == <<input, at, arena, rules, stack, cur, pratt, status, result>>

(***************************************************************************)
(* Tokens.                                                                 *)
(***************************************************************************)
Tok(i) == IF i \in DOMAIN input THEN input[i] ELSE ZZ
t0 == Tok(at)
t1 == Tok(at + 1)

\* One more token comes into sight, unless the source has ended.
Sighted(seen) ==
  IF seen[Len(seen)] = ZZ THEN {seen}
  ELSE {Append(seen, t) : t \in IF Len(seen) < MaxTokens THEN Tokens \cup {ZZ} ELSE {ZZ}}

Consume == at' = at + 1 /\ input' \in Sighted(input)
Keep    == UNCHANGED <<at, input>>

(***************************************************************************)
(* Rules.  `n` are the counters a child inherits, the other fields the     *)
(* rule's own; depth records the parens whose closer is awaited, once as   *)
(* an inherited counter and once as the rule's own mark.                   *)
(***************************************************************************)
NoCounters == [expr |-> 0, prefix |-> 0, suffix |-> 0, paren |-> 0,
               ternary |-> 0, list |-> 0, depth |-> {}]

Rule(name, node, n, parent, prev, d) ==
  [name |-> name, state |-> "open", node |-> node, n |-> n, d |-> d,
   parent |-> parent, prev |-> prev, child |-> 0,
   value |-> Undefined, attach |-> Undefined, preval |-> FALSE,
   depth |-> {}, step |-> 0, tparen |-> 0, tname |-> "none"]

NoCall == [kind |-> "none"]

Rule0 == Rule("val", Undefined, NoCounters, 0, 0, 0)

InitWith(sources) ==
  /\ input \in sources
  /\ at = 1
  /\ arena = EmptyArena
  /\ rules = <<Rule0>>
  /\ stack = <<>>
  /\ cur = 1
  /\ pratt = NoCall
  /\ status = "run"
  /\ result = Undefined

Sources == {<<ZZ>>} \cup {<<t, u>> : t \in Tokens, u \in Tokens \cup {ZZ}}

Init == InitWith(Sources)

NodeOf(r) == IF r = 0 THEN Undefined ELSE rules[r].node

\* A linked rule's node: the attachment point of an expr rule that has one.
LinkedNode(r) ==
  IF r # 0 /\ IsOp(arena, rules[r].attach) THEN rules[r].attach ELSE NodeOf(r)

\* The first alternate of a table whose condition holds.
FirstMatch(alts) ==
  IF \E i \in DOMAIN alts : alts[i][1]
  THEN alts[CHOOSE i \in DOMAIN alts :
              alts[i][1] /\ \A j \in 1..(i - 1) : ~alts[j][1]][2]
  ELSE "none"

(***************************************************************************)
(* The three ways a pass ends.  R is the current rule as its hooks and     *)
(* action left it, others the rules as they left them.                     *)
(***************************************************************************)
Passing(name, state) ==
  /\ status = "run" /\ pratt = NoCall
  /\ cur # 0 /\ rules[cur].name = name /\ rules[cur].state = state

Push(R, name, others) ==
  LET new == Len(others) + 1
  IN  /\ rules' = Append([others EXCEPT ![cur] = [R EXCEPT !.state = "close", !.child = new]],
                         Rule(name, R.node, R.n, cur, 0, R.d + 1))
      /\ stack' = Append(stack, cur)
      /\ cur' = new
      /\ UNCHANGED <<status, result>>

Replace(R, name, others) ==
  LET new == Len(others) + 1
  IN  /\ rules' = Append([others EXCEPT ![cur] = R],
                         Rule(name, R.node, R.n, R.parent, cur, R.d))
      /\ cur' = new
      /\ UNCHANGED <<stack, status, result>>

Stay(R, others) ==
  /\ rules' = [others EXCEPT ![cur] = [R EXCEPT !.state = "close"]]
  /\ UNCHANGED <<stack, cur, status, result>>

\* The parse is over when the last rule pops: its node is the result, and a
\* token left over is an error.
Pop(R, others, next) ==
  /\ rules' = [others EXCEPT ![cur] = R]
  /\ IF stack = <<>>
     THEN /\ cur' = 0
          /\ status' = IF next = ZZ THEN "done" ELSE "error"
          /\ result' = R.node
          /\ UNCHANGED stack
     ELSE /\ cur' = stack[Len(stack)]
          /\ stack' = SubSeq(stack, 1, Len(stack) - 1)
          /\ UNCHANGED <<status, result>>

Halt(how) ==
  /\ status' = how
  /\ UNCHANGED <<input, at, arena, rules, stack, cur, pratt, result>>

(***************************************************************************)
(* val                                                                     *)
(***************************************************************************)
ValOpenAlt ==
  FirstMatch(<<
    << t0 \in DOMAIN Prefix, "prefix" >>,
    << t0 = Val /\ t1 \in ParenOpen /\ Opens(t1) \in PrevalActive, "preval" >>,
    << t0 \in ParenOpen /\ Opens(t0) \notin PrevalRequired, "paren" >>,
    << t0 = Val, "value" >>,
    << t0 = ZZ, "end" >>,
    << t0 \in ParenOpen \cup Separators, "base" >> >>)

\* The seeded node is kept: the expression a prefix or paren is read into.
ValOpenPrefix ==
  /\ Passing("val", "open") /\ ValOpenAlt = "prefix"
  /\ Push([rules[cur] EXCEPT !.n.prefix = @ + 1, !.n.suffix = 0], "expr", rules)
  /\ Keep /\ UNCHANGED <<arena, pratt>>

ValOpenPreval ==
  /\ Passing("val", "open") /\ ValOpenAlt = "preval"
  /\ Push([rules[cur] EXCEPT !.value = Leaf(at), !.node = Leaf(at), !.preval = TRUE],
          "expr", rules)
  /\ Consume /\ UNCHANGED <<arena, pratt>>

ValOpenParen ==
  /\ Passing("val", "open") /\ ValOpenAlt = "paren"
  /\ Push(rules[cur], "expr", rules)
  /\ Keep /\ UNCHANGED <<arena, pratt>>

\* MUTANT of ValOpenValue: the seed is kept.
ValOpenValueSeeded ==
  /\ Passing("val", "open") /\ ValOpenAlt = "value"
  /\ Stay([rules[cur] EXCEPT !.value = Leaf(at)], rules)
  /\ Consume /\ UNCHANGED <<arena, pratt>>

\* A value of the base grammar resets the seed.
ValOpenValue ==
  /\ Passing("val", "open") /\ ValOpenAlt = "value"
  /\ Stay([rules[cur] EXCEPT !.value = Leaf(at), !.node = Undefined], rules)
  /\ Consume /\ UNCHANGED <<arena, pratt>>

\* A missing operand at the end of the source does not: it keeps the seed.
ValOpenEnd ==
  /\ Passing("val", "open") /\ ValOpenAlt = "end"
  /\ Stay(rules[cur], rules)
  /\ Keep /\ UNCHANGED <<arena, pratt>>

ValOpenElsewhere ==
  /\ Passing("val", "open") /\ ValOpenAlt \in {"base", "none"}
  /\ Halt(IF ValOpenAlt = "base" THEN "base" ELSE "error")

\* The before-close hook of the base grammar: an expression node stays, else
\* the child's node is taken, else the value of the token matched on opening.
Coalesced(V) ==
  [V EXCEPT !.node = IF IsOp(arena, V.node) THEN @
                     ELSE IF NodeOf(V.child) # Undefined THEN NodeOf(V.child)
                     ELSE V.value]

NoImplicitInExpr(V) ==
  \/ V.d = 1 /\ (V.n.expr > 0 \/ V.n.ternary > 0)
  \/ V.n.ternary > 0 /\ V.n.paren > 0

ValCloseAlt(V) ==
  FirstMatch(<<
    << t0 \in Tern0 /\ V.n.expr = 0, "ternary" >>,
    << t0 \in DOMAIN Infix, "infix" >>,
    << t0 \in DOMAIN Suffix, "suffix" >>,
    << t0 \in ParenClose /\ V.n.paren # 0, "pop" >>,
    << t0 \in ParenOpen /\ Opens(t0) \in PrevalActive /\ V.node # Undefined, "chain" >>,
    << t0 \in Tern1 /\ V.n.ternary # 0, "pop" >>,
    << t0 \in {Val} \cup Separators /\ NoImplicitInExpr(V), "pop" >>,
    << t0 = ZZ, "pop" >>,
    << V.n.list = 0, "base" >>,
    << TRUE, "pop" >> >>)

ValClosing == Coalesced(rules[cur])

ValCloseTernary ==
  /\ Passing("val", "close") /\ ValCloseAlt(ValClosing) = "ternary"
  /\ Replace(ValClosing, "ternary", rules)
  /\ Keep /\ UNCHANGED <<arena, pratt>>

\* An operator after the first term starts the expression; after a later one
\* it is left to the expression this value is an operand of.
ValCloseOperator ==
  /\ Passing("val", "close") /\ ValCloseAlt(ValClosing) \in {"infix", "suffix"}
  /\ LET V == IF ValCloseAlt(ValClosing) = "infix"
              THEN [ValClosing EXCEPT !.n.prefix = 0, !.n.suffix = 0]
              ELSE [ValClosing EXCEPT !.n.prefix = 0, !.n.suffix = @ + 1]
     IN  IF V.n.expr = 0 THEN Replace(V, "expr", rules) ELSE Pop(V, rules, t0)
  /\ Keep /\ UNCHANGED <<arena, pratt>>

\* A value just produced is the preceding value of another paren.
ValCloseChain ==
  /\ Passing("val", "close") /\ ValCloseAlt(ValClosing) = "chain"
  /\ Push([ValClosing EXCEPT !.preval = TRUE], "expr", rules)
  /\ Keep /\ UNCHANGED <<arena, pratt>>

ValClosePop ==
  /\ Passing("val", "close") /\ ValCloseAlt(ValClosing) = "pop"
  /\ Pop(ValClosing, rules, t0)
  /\ Keep /\ UNCHANGED <<arena, pratt>>

ValCloseBase ==
  /\ Passing("val", "close") /\ ValCloseAlt(ValClosing) = "base"
  /\ Halt("base")

(***************************************************************************)
(* expr: opening on an operator                                            *)
(***************************************************************************)
ExprOpenAlt ==
  FirstMatch(<<
    << t0 \in ParenOpen, "paren" >>,
    << t0 \in DOMAIN Prefix /\ rules[cur].n.prefix # 0, "prefix" >>,
    << t0 \in DOMAIN Infix, "infix" >>,
    << t0 \in DOMAIN Suffix, "suffix" >> >>)

ExprOpenParen ==
  /\ Passing("expr", "open") /\ ExprOpenAlt = "paren"
  /\ Push(rules[cur], "paren", rules)
  /\ Keep /\ UNCHANGED <<arena, pratt>>

\* The counters the operator alternates add.
Counted(R, kind) ==
  [R EXCEPT !.n.expr = @ + 1, !.n.list = @ + 1,
            !.n.prefix = IF kind = "prefix" THEN @ ELSE 0]

\* MUTANT of FoldTarget: a ternary is taken for an operand.
FoldTargetTernary(R) ==
  LET parent == LinkedNode(R.parent)
  IN  IF IsOp(arena, parent) /\ ~IsKind(arena, parent, "paren") THEN parent ELSE Undefined

\* A prefix folds into the expression its chain is building; a ternary or a
\* paren on the parent is a foreign seed.
FoldTarget(R) ==
  LET parent == LinkedNode(R.parent)
  IN  IF /\ IsOp(arena, parent)
         /\ ~IsKind(arena, parent, "ternary")
         /\ ~IsKind(arena, parent, "paren")
      THEN parent ELSE Undefined

\* MUTANT of SecondOperator: a ternary is taken for an operand.
SecondOperatorTernary(R) == IsOp(arena, LinkedNode(R.parent))

\* An infix embeds in the expression the first term's rule holds, or in the
\* unary or paren expression that was the first term.
SecondOperator(R) ==
  IsOp(arena, LinkedNode(R.parent)) /\ ~IsKind(arena, LinkedNode(R.parent), "ternary")
UnaryFirst(R) == ~SecondOperator(R) /\ IsOp(arena, LinkedNode(R.prev))

EmbedTarget(R, kind) ==
  CASE kind = "prefix" -> FoldTarget(R)
    [] kind = "infix"  -> IF SecondOperator(R) THEN LinkedNode(R.parent)
                          ELSE IF UnaryFirst(R) THEN LinkedNode(R.prev)
                          ELSE Undefined
    [] kind = "suffix" -> IF IsOp(arena, LinkedNode(R.prev)) THEN LinkedNode(R.prev)
                          ELSE Undefined

\* The attachment point is published on the rule, and the operator's next
\* term, if it has one, is read by a val pushed from here.
Publish(R, kind, attach, others) ==
  LET P == [R EXCEPT !.node = attach, !.attach = attach]
  IN  IF kind = "suffix" THEN Stay(P, others) ELSE Push(P, "val", others)

Opening == [prefix |-> DOMAIN Prefix, infix |-> DOMAIN Infix, suffix |-> DOMAIN Suffix]
OpUsed(kind) ==
  CASE kind = "prefix" -> PrefixOp(t0)
    [] kind = "infix"  -> InfixOp(t0)
    [] kind = "suffix" -> SuffixOp(t0)

\* Into an expression: prattify finds the place, one step at a time.
ExprOpenEmbed ==
  /\ Passing("expr", "open") /\ ExprOpenAlt \in DOMAIN Opening
  /\ LET kind   == ExprOpenAlt
         R      == rules[cur]
         target == EmbedTarget(R, kind)
     IN  /\ target # Undefined
         /\ pratt' = [kind |-> kind, op |-> OpUsed(kind), token |-> at,
                      root |-> target, expr |-> target]
         /\ rules' = [rules EXCEPT ![cur] =
              IF kind = "infix" /\ UnaryFirst(R)
              THEN [Counted(R, kind) EXCEPT !.parent = R.prev]
              ELSE Counted(R, kind)]
  /\ Consume
  /\ UNCHANGED <<arena, stack, cur, status, result>>

\* A fresh node that took the prior rule's value becomes the prior's node.
PriorLinked(prior, node, wraps) ==
  IF wraps \/ prior = 0 THEN rules ELSE [rules EXCEPT ![prior].node = node]

(***************************************************************************)
(* prior_expr: the prior rule's node starts the expression.  A node that   *)
(* is an operand is wrapped in place, anything else becomes the first term *)
(* of a fresh node, which the prior rule then holds.                       *)
(***************************************************************************)
ExprOpenPrior ==
  /\ Passing("expr", "open") /\ ExprOpenAlt \in DOMAIN Opening
  /\ EmbedTarget(rules[cur], ExprOpenAlt) = Undefined
  /\ LET kind  == ExprOpenAlt
         prior == IF kind = "prefix" THEN rules[cur].parent ELSE rules[cur].prev
         value == NodeOf(prior)
         wraps == IsOp(arena, value) /\ kind # "prefix"
         R     == IF prior = 0 THEN Counted(rules[cur], kind)
                  ELSE [Counted(rules[cur], kind) EXCEPT !.parent = prior]
         terms == IF kind = "prefix" THEN <<>> ELSE <<value>>
     IN  /\ arena' = IF wraps THEN Wrap(arena, value, OpUsed(kind), at)
                     ELSE NewNode(arena, OpUsed(kind), at, terms)
         /\ LET node == IF wraps THEN value ELSE Newest(arena')
            IN  Publish(R, kind, node, PriorLinked(prior, node, wraps))
  /\ Consume
  /\ UNCHANGED pratt

(***************************************************************************)
(* prattify, one level of the tree a step.                                 *)
(***************************************************************************)
InExpr  == OpOf(arena, pratt.expr)
LastPos == InExpr.terms
LastOp  == OpOf(arena, TermAt(arena, pratt.expr, LastPos))

\* MUTANT of PrattLoosens: the left power of the operator on the left is read.
PrattLoosensLeft ==
  \/ pratt.kind = "infix"  /\ (InExpr.kind = "suffix" \/ pratt.op.left <= InExpr.left)
  \/ pratt.kind = "suffix" /\ (InExpr.kind = "suffix" \/ InExpr.left > pratt.op.left)

PrattLoosens ==
  \/ pratt.kind = "infix"  /\ (InExpr.kind = "suffix" \/ pratt.op.left <= InExpr.right)
  \/ pratt.kind = "suffix" /\ (InExpr.kind = "suffix" \/ InExpr.right > pratt.op.left)
PrattDrills ==
  /\ ~PrattLoosens
  /\ IsOp(arena, TermAt(arena, pratt.expr, LastPos))
  /\ \/ pratt.kind = "infix"
     \/ pratt.kind = "suffix" /\ LastOp.kind = "prefix"
  /\ LastOp.right < pratt.op.left

Pratting == status = "run" /\ pratt # NoCall

\* A suffix leaves the attachment point where it was.
PrattReturn(out) ==
  /\ Publish(rules[cur], pratt.kind, IF pratt.kind = "suffix" THEN pratt.root ELSE out, rules)
  /\ pratt' = NoCall
  /\ Keep

\* Looser: the new operator takes the whole expression as its first term.
PrattLooser ==
  /\ Pratting /\ PrattLoosens
  /\ arena' = Wrap(arena, pratt.expr, pratt.op, pratt.token)
  /\ PrattReturn(pratt.expr)

\* MUTANT of PrattDrill: the descent returns to where it began.
PrattDrillIdle ==
  /\ Pratting /\ PrattDrills
  /\ pratt' = [pratt EXCEPT !.expr = pratt.root]
  /\ UNCHANGED <<input, at, arena, rules, stack, cur, status, result>>

\* Tighter than the last term's operator too: go down into it.
PrattDrill ==
  /\ Pratting /\ PrattDrills
  /\ pratt' = [pratt EXCEPT !.expr = TermAt(arena, pratt.expr, LastPos)]
  /\ UNCHANGED <<input, at, arena, rules, stack, cur, status, result>>

\* Tighter: the new operator takes only the last term.
PrattTighter ==
  /\ Pratting /\ pratt.kind # "prefix" /\ ~PrattLoosens /\ ~PrattDrills
  /\ LET last == TermAt(arena, pratt.expr, LastPos)
         b    == NewNodeUnder(arena, pratt.op, pratt.token, <<last>>, pratt.expr)
     IN  /\ arena' = SetTerm(b, pratt.expr, LastPos, Newest(b))
         /\ PrattReturn(Newest(b))

\* A prefix opens below the expression that awaits it as its last term.
PrattPrefix ==
  /\ Pratting /\ pratt.kind = "prefix"
  /\ LET b == NewNodeUnder(arena, pratt.op, pratt.token, <<>>, pratt.expr)
     IN  /\ arena' = SetTerm(b, pratt.expr, LastPos, Newest(b))
         /\ PrattReturn(Newest(b))

(***************************************************************************)
(* expr: closing                                                           *)
(***************************************************************************)
\* MUTANTS of Completed: the expression itself is pushed when it comes back
\* from a val with nothing to add; the last term is never pushed; a term too
\* many is.
CompletedUnguarded(E) ==
  IF IsOp(arena, E.node) /\ Len(Terms(arena, E.node)) < OpOf(arena, E.node).terms
  THEN PushTerm(arena, E.node, NodeOf(E.child))
  ELSE arena
CompletedShort(E) ==
  IF /\ IsOp(arena, E.node)
     /\ Len(Terms(arena, E.node)) + 1 < OpOf(arena, E.node).terms
     /\ ~SameNode(E.node, NodeOf(E.child))
  THEN PushTerm(arena, E.node, NodeOf(E.child))
  ELSE arena
CompletedOver(E) ==
  IF /\ IsOp(arena, E.node)
     /\ Len(Terms(arena, E.node)) <= OpOf(arena, E.node).terms
     /\ ~SameNode(E.node, NodeOf(E.child))
  THEN PushTerm(arena, E.node, NodeOf(E.child))
  ELSE arena

\* The before-close hook appends the final term, unless it is the expression
\* itself handed back by a val that had nothing to add.
Completed(E) ==
  IF /\ IsOp(arena, E.node)
     /\ Len(Terms(arena, E.node)) < OpOf(arena, E.node).terms
     /\ ~SameNode(E.node, NodeOf(E.child))
  THEN PushTerm(arena, E.node, NodeOf(E.child))
  ELSE arena

InParen == \E i \in DOMAIN stack : rules[stack[i]].name = "paren"

\* A space-separated list needs no value to follow: any token that no earlier
\* alternate claims will do, except a suffix.
ExprCloseAlt(E) ==
  FirstMatch(<<
    << E.child # 0 /\ rules[E.child].name = "paren", "end" >>,
    << t0 \in DOMAIN Infix /\ E.n.prefix = 0, "expr" >>,
    << t0 \in DOMAIN Infix, "pop" >>,
    << t0 \in DOMAIN Suffix /\ E.n.prefix = 0, "expr" >>,
    << t0 \in ParenClose /\ E.n.paren # 0, "pop" >>,
    << t0 \in Tern0 /\ E.n.prefix = 0, "ternary" >>,
    << t0 \in {Val} \cup Separators /\ E.d = 0, "base" >>,
    << t0 \in Separators /\ InParen, "base" >>,
    << E.n.suffix <= 0 /\ t0 \notin DOMAIN Suffix /\ InParen, "base" >>,
    << TRUE, "end" >> >>)

\* MUTANT of Rooted: the attachment point is left on the node.
RootedNot(a, E) == E

\* The after-close hook puts the root back on the node.
Rooted(a, E) ==
  IF IsOp(a, E.node) THEN [E EXCEPT !.node = Handle(RootOf(a, E.node))] ELSE E

ExprCloseReplace ==
  /\ Passing("expr", "close") /\ ExprCloseAlt(rules[cur]) \in {"expr", "ternary"}
  /\ arena' = Completed(rules[cur])
  /\ LET E   == rules[cur]
         new == Len(rules) + 1
     IN  /\ rules' = Append([rules EXCEPT ![cur] = Rooted(arena', E)],
                            Rule(ExprCloseAlt(E), E.node, E.n, E.parent, cur, E.d))
         /\ cur' = new
  /\ Keep /\ UNCHANGED <<stack, pratt, status, result>>

ExprClosePop ==
  /\ Passing("expr", "close") /\ ExprCloseAlt(rules[cur]) = "pop"
  /\ arena' = Completed(rules[cur])
  /\ Pop(Rooted(arena', rules[cur]), rules, t0)
  /\ Keep /\ UNCHANGED pratt

ExprCloseEnd ==
  /\ Passing("expr", "close") /\ ExprCloseAlt(rules[cur]) = "end"
  /\ arena' = Completed(rules[cur])
  /\ Pop(Rooted(arena', [rules[cur] EXCEPT !.n.expr = 0]), rules, t0)
  /\ Keep /\ UNCHANGED pratt

ExprCloseBase ==
  /\ Passing("expr", "close") /\ ExprCloseAlt(rules[cur]) = "base"
  /\ arena' = Completed(rules[cur])
  /\ status' = "base"
  /\ Keep /\ UNCHANGED <<rules, stack, cur, pratt, result>>

(***************************************************************************)
(* paren                                                                   *)
(***************************************************************************)
ParenOpenAlt ==
  FirstMatch(<<
    << t0 \in ParenOpen /\ t1 \in ParenClose /\ Opens(t0) = Closes(t1), "empty" >>,
    << t0 \in ParenOpen, "open" >> >>)

\* MUTANT of Opened: the paren does not mark itself as the one awaiting.
OpenedUnmarked(name) ==
  [rules[cur] EXCEPT !.n.list = 0, !.n.depth = @ \cup {name}, !.node = Undefined]

\* The before-open hook lets implicit lists start again inside a paren.
Opened(name) ==
  [rules[cur] EXCEPT !.n.list = 0, !.n.depth = @ \cup {name},
                     !.depth = {name}, !.node = Undefined]

ParenOpenEmpty ==
  /\ Passing("paren", "open") /\ ParenOpenAlt = "empty"
  /\ Stay(Opened(Opens(t0)), rules)
  /\ Consume /\ UNCHANGED <<arena, pratt>>

ParenOpenVal ==
  /\ Passing("paren", "open") /\ ParenOpenAlt = "open"
  /\ Push([Opened(Opens(t0)) EXCEPT !.n.paren = @ + 1, !.n.expr = 0,
                                    !.n.prefix = 0, !.n.suffix = 0],
          "val", rules)
  /\ Consume /\ UNCHANGED <<arena, pratt>>

\* A closer is accepted while its paren is awaited anywhere below, and makes
\* a node only when it is this paren's own.
AcceptsCloser(P) == t0 \in ParenClose /\ Closes(t0) \in P.n.depth

ParenInner(P) == IF P.node = Undefined THEN NodeOf(P.child) ELSE P.node

\* MUTANT of ParenTerms: the preceding value is forgotten.
ParenTermsAlone(P, grand) == IF ParenInner(P) = Undefined THEN <<>> ELSE <<ParenInner(P)>>

\* The preceding value, if the val asked for one, and what the paren holds.
ParenTerms(P, grand) ==
  (IF grand # 0 /\ rules[grand].preval /\ NodeOf(grand) # Undefined
   THEN <<NodeOf(grand)>> ELSE <<>>)
    \o (IF ParenInner(P) = Undefined THEN <<>> ELSE <<ParenInner(P)>>)

\* The after-close hook hands the node to the expr and the val it came from.
ParenClosed ==
  /\ Passing("paren", "close") /\ AcceptsCloser(rules[cur])
  /\ LET P      == rules[cur]
         parent == P.parent
         grand  == rules[parent].parent
         own    == Closes(t0) \in P.depth
     IN  /\ arena' = IF own THEN NewNode(arena, ParenOp(Closes(t0)), at, ParenTerms(P, grand))
                     ELSE arena
         /\ LET node   == IF own THEN Newest(arena') ELSE ParenInner(P)
                others == [i \in DOMAIN rules |->
                             IF i \in {parent, grand} THEN [rules[i] EXCEPT !.node = node]
                             ELSE rules[i]]
            IN  Pop([P EXCEPT !.node = node], others, t1)
  /\ Consume /\ UNCHANGED pratt

ParenError ==
  /\ Passing("paren", "close") /\ ~AcceptsCloser(rules[cur])
  /\ Halt("error")

(***************************************************************************)
(* ternary                                                                 *)
(***************************************************************************)
TernaryOpenAlt ==
  FirstMatch(<<
    << t0 \in Tern0, "first" >>,
    << rules[cur].prev # 0 /\ rules[rules[cur].prev].step = 2, "step" >> >>)

\* The condition is the expression the prior rule attached to, rewritten in
\* place, or its plain value.
TernaryOpenFirst ==
  /\ Passing("ternary", "open") /\ TernaryOpenAlt = "first"
  /\ LET prev  == rules[cur].prev
         cond  == LinkedNode(prev)
         wraps == IsOp(arena, cond)
         op    == TernaryOp(Asks(t0))
         outer == rules[cur].n.paren
     IN  /\ arena' = IF wraps THEN Wrap(arena, cond, op, at)
                     ELSE NewNode(arena, op, at, <<cond>>)
         /\ LET node == IF wraps THEN cond ELSE Newest(arena')
            IN  Push([rules[cur] EXCEPT
                        !.node = node, !.step = 1, !.tname = Asks(t0),
                        !.tparen = IF outer # 0 \/ prev = 0 THEN outer ELSE rules[prev].tparen,
                        !.n.ternary = @ + 1, !.n.paren = 0,
                        !.n.expr = 0, !.n.prefix = 0, !.n.suffix = 0],
                     "val", PriorLinked(prev, node, wraps))
  /\ Consume /\ UNCHANGED pratt

TernaryOpenStep ==
  /\ Passing("ternary", "open") /\ TernaryOpenAlt = "step"
  /\ LET prev == rules[rules[cur].prev]
     IN  Push([rules[cur] EXCEPT !.step = prev.step, !.tparen = prev.tparen,
                                 !.n.paren = prev.tparen],
              "val", rules)
  /\ Keep /\ UNCHANGED <<arena, pratt>>

\* The length of a list is asked for only to tell whether it has a member.
NodeLength(v) == IF IsOp(arena, v) THEN 1 + Len(Terms(arena, v))
                 ELSE IF v.k = "list" THEN 1 ELSE 0

ImplicitEnd(T) == (T.d = 0 \/ T.n.paren >= 1) /\ T.step = 2

\* A ternary that ends where a list may begin is its first member, unless the
\* rule it is read for is collecting a list already.
StartsList(T) == NodeLength(LinkedNode(T.parent)) = 0

TernaryCloseAlt(T) ==
  FirstMatch(<<
    << t0 \in Tern1 /\ T.step = 1 /\ Answers(t0) = T.tname, "then" >>,
    << t0 \in ParenClose /\ ImplicitEnd(T), "end" >>,
    << t0 \in Separators /\ ImplicitEnd(T),
       IF T.d = 0 \/ (rules[T.prev].tparen # 0 /\ StartsList(T)) THEN "base" ELSE "skip" >>,
    << ImplicitEnd(T), IF StartsList(T) /\ t0 # ZZ THEN "base" ELSE "end" >>,
    << T.d > 0 /\ T.step = 2, "close" >> >>)

\* MUTANT of Branched: each branch is written to the second slot.
BranchedOver == SetTerm(arena, rules[cur].node, 2, NodeOf(rules[cur].child))

\* A branch is pushed as it comes back from the val that read it.
Branched == PushTerm(arena, rules[cur].node, NodeOf(rules[cur].child))

TernaryCloseThen ==
  /\ Passing("ternary", "close") /\ TernaryCloseAlt(rules[cur]) = "then"
  /\ arena' = Branched
  /\ Replace([rules[cur] EXCEPT !.step = @ + 1], "ternary", rules)
  /\ Consume /\ UNCHANGED pratt

\* The way out resets the paren the ternary was in; a comma that starts no
\* list is passed over.
Unwound(T) ==
  IF TernaryCloseAlt(T) = "close" \/ T.prev = 0 THEN T
  ELSE [T EXCEPT !.n.paren = rules[T.prev].tparen]

TernaryCloseElse ==
  /\ Passing("ternary", "close") /\ TernaryCloseAlt(rules[cur]) \in {"end", "skip", "close"}
  /\ arena' = Branched
  /\ IF TernaryCloseAlt(rules[cur]) = "skip"
     THEN Consume /\ Pop(Unwound(rules[cur]), rules, t1)
     ELSE Keep /\ Pop(Unwound(rules[cur]), rules, t0)
  /\ UNCHANGED pratt

TernaryCloseBase ==
  /\ Passing("ternary", "close") /\ TernaryCloseAlt(rules[cur]) = "base"
  /\ arena' = Branched
  /\ status' = "base"
  /\ Keep /\ UNCHANGED <<rules, stack, cur, pratt, result>>

TernaryError ==
  /\ Passing("ternary", "close") /\ TernaryCloseAlt(rules[cur]) = "none"
  /\ Halt("error")

(***************************************************************************)
(* The parse budget refuses an expression over the limit, or too deep a    *)
(* rule stack.  The engine asks it every so many passes, so it may act on  *)
(* any step after the limit is passed, or not before the parse is over.    *)
(***************************************************************************)
Cancel ==
  /\ status = "run"
  /\ arena.over_limit \/ Len(stack) > RuleLimit
  /\ Halt("cancel")

Val_ ==
  \/ ValOpenPrefix \/ ValOpenPreval \/ ValOpenParen \/ ValOpenValue \/ ValOpenEnd
  \/ ValOpenElsewhere
  \/ ValCloseTernary \/ ValCloseOperator \/ ValCloseChain \/ ValClosePop

Expr_ ==
  \/ ExprOpenParen \/ ExprOpenEmbed \/ ExprOpenPrior
  \/ PrattLooser \/ PrattDrill \/ PrattTighter \/ PrattPrefix
  \/ ExprCloseReplace \/ ExprClosePop

Paren_ == ParenOpenEmpty \/ ParenOpenVal \/ ParenClosed \/ ParenError

Ternary_ == TernaryOpenFirst \/ TernaryOpenStep \/ TernaryCloseThen \/ TernaryError

\* Where an implicit list begins (ExprLists carries on from here).
Base_ == ValCloseBase \/ ExprCloseBase \/ TernaryCloseBase

\* A parse that is over stays over.
Over == status # "run" /\ UNCHANGED vars

Next ==
  \/ Val_ \/ Expr_ \/ Paren_ \/ Ternary_ \/ Base_
  \/ ExprCloseEnd \/ TernaryCloseElse
  \/ Cancel \/ Over

Spec == Init /\ [][Next]_vars

\* The engine is a loop that runs until the parse is over.
FairSpec == Spec /\ WF_vars(Next)

(***************************************************************************)
(* Types: every handle a rule, a node or the Pratt core holds names a      *)
(* node, and every rule a rule names was created.                          *)
(***************************************************************************)
Values(a, p) == [k : {"undefined"}, id : {0}] \cup [k : {"leaf"}, id : 1..p]
                  \cup [k : {"node"}, id : DOMAIN a.nodes]
Value        == Values(arena, at)
NodeTerms(i) == {arena.nodes[i].terms[j] : j \in DOMAIN arena.nodes[i].terms}

TypeOK ==
  /\ Len(input) <= MaxTokens + 1 /\ \A i \in DOMAIN input : input[i] \in Tokens \cup {ZZ}
  /\ at \in 1..(MaxTokens + 1)
  /\ \A i \in DOMAIN arena.nodes :
        /\ arena.nodes[i].root \in DOMAIN arena.nodes
        /\ arena.nodes[i].size \in Nat \ {0}
        /\ NodeTerms(i) \subseteq Value
  /\ \A r \in DOMAIN rules :
        /\ {rules[r].node, rules[r].attach, rules[r].value} \subseteq Value
        /\ {rules[r].parent, rules[r].prev, rules[r].child} \subseteq 0..Len(rules)
  /\ \A i \in DOMAIN stack : stack[i] \in DOMAIN rules
  /\ cur \in 0..Len(rules) /\ result \in Value
  /\ pratt # NoCall => {pratt.root, pratt.expr} \subseteq Value
  /\ status \in {"run", "done", "error", "base", "cancel"}

\* No operator takes more terms than it has operands, and no paren more than its
\* preceding value and what it holds.
TermsFit ==
  \A i \in DOMAIN arena.nodes :
    Len(arena.nodes[i].terms) <=
      IF arena.nodes[i].op.kind = "paren" THEN 2 ELSE arena.nodes[i].op.terms

\* An expression is a tree: no node is reachable from itself.  A missing operand
\* stays absent and never points back to the expression.
NoCircle == Acyclic(arena)

(***************************************************************************)
(* The canonical engine reads the result of a parse off the FIRST rule of  *)
(* the outermost chain, this one off the LAST: both hold the same value.   *)
(***************************************************************************)
SameResult == status = "done" => rules[1].node = result

(***************************************************************************)
(* The accounting of NODE_LIMIT, whatever the rules do with their nodes.   *)
(***************************************************************************)
\* No expression is larger than the limit without the parse being flagged.
LimitFlagged == Flagged(arena)

\* An expression never counts fewer nodes than were built in it.
OwnNodesCounted == OwnCounted(arena)

(***************************************************************************)
(* The size a root counts covers every node of the tree below it, those    *)
(* taken in from parens and ternaries with their own roots included: that  *)
(* is what makes NODE_LIMIT a bound on the depth of the result.  It holds  *)
(* of a table with one kind of paren, where an operand with a root of its  *)
(* own is a bracket and is not rewritten again.                            *)
(***************************************************************************)
SizeCoversTree ==
  \A r \in {arena.nodes[i].root : i \in DOMAIN arena.nodes} :
    Cardinality(Tree(arena, Handle(r))) <= arena.nodes[r].size

(***************************************************************************)
(* No parse succeeds unflagged with more nodes than NODE_LIMIT.            *)
(***************************************************************************)
OversizeFlagged == Cardinality(Tree(arena, result)) > NodeLimit => arena.over_limit

\* A node is never lost, its root stays its root for the life of the
\* expression, and what an expression has been counted at is never lowered.
RootsStand ==
  [][\A i \in DOMAIN arena.nodes :
        /\ i \in DOMAIN arena'.nodes
        /\ arena'.nodes[i].root = arena.nodes[i].root
        /\ arena'.nodes[i].size >= arena.nodes[i].size]_vars

\* In this step a node keeps its operator and its terms, or all of it moves to a
\* new node, the one term of whatever took its place.
StaysWhole(i) ==
  LET old == arena.nodes[i]
      new == arena'.nodes[i]
  IN  \/ new.op = old.op /\ new.terms = old.terms
      \/ \E j \in DOMAIN arena'.nodes \ DOMAIN arena.nodes :
            /\ new.terms = <<Handle(j)>>
            /\ arena'.nodes[j].op = old.op /\ arena'.nodes[j].terms = old.terms

\* A paren and a ternary are looser than any operator, and no place for one to
\* go: the Pratt core takes either whole, or leaves it alone.
OperandsWhole ==
  [][pratt # NoCall =>
       \A i \in DOMAIN arena.nodes :
         arena.nodes[i].op.kind \in {"paren", "ternary"} => StaysWhole(i)]_vars
=============================================================================
