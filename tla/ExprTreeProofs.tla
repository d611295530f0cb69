--------------------------- MODULE ExprTreeProofs ---------------------------
(***************************************************************************)
(* What the rules build, in a table without ternaries, as the default one  *)
(* is: no operator is given more terms than it has operands, and no node   *)
(* is ever part of itself.  And how an expression may grow for the size    *)
(* its root counts to go on covering all that can be reached from it.      *)
(***************************************************************************)
EXTENDS ExprTypesProofs

NoTernaries == DOMAIN Ternary = {}

\* The most terms a node of an operator may have.
Room(op) == IF op.kind = "paren" THEN 2 ELSE op.terms

Fit(a) == \A i \in DOMAIN a.nodes : Len(a.nodes[i].terms) <= Room(a.nodes[i].op)

(***************************************************************************)
(* A table without ternaries.                                              *)
(***************************************************************************)
LEMMA NeverTernary ==
  ASSUME TypeInv, NoTernaries
  PROVE  /\ \A r \in DOMAIN rules : rules[r].name # "ternary"
         /\ ~Passing("ternary", "open") /\ ~Passing("ternary", "close")
<1>1. \A r \in DOMAIN rules : rules[r].name # "ternary"
  <2> SUFFICES ASSUME NEW r \in DOMAIN rules PROVE rules[r].name # "ternary"
    OBVIOUS
  <2>1. rules \in Seq(Rules(Value, Len(rules)))
    BY DEF TypeInv, Typed, StackTyped
  <2>2. rules[r] \in Rules(Value, Len(rules))
    BY <2>1, ElementOfSeq, LenProperties
  <2>3. QED
    BY <2>2, Fields DEF NoTernaries
<1>2. cur # 0 => cur \in DOMAIN rules
  <2>1. rules \in Seq(Rules(Value, Len(rules))) /\ cur \in 0..Len(rules)
    BY DEF TypeInv, Typed, StackTyped
  <2>2. QED
    BY <2>1, LenProperties
<1>3. QED
  BY <1>1, <1>2 DEF Passing

LEMMA RoomIs == \A op \in BracketOps \cup OperandOps : Room(op) \in 1..3 /\ op.terms <= Room(op)
BY DEF Room, BracketOps, OperandOps, TernaryOp, ParenOp, PrefixOp, InfixOp, SuffixOp, Powered

(***************************************************************************)
(* Every operator has room for its terms.                                  *)
(***************************************************************************)
LEMMA AllocatesFit ==
  ASSUME NEW a, NEW b, NEW op, NEW token, NEW terms, Sound(a), Fit(a),
         Allocates(a, b, op, token, terms), Len(terms) <= Room(op)
  PROVE  Fit(b)
<1>1. Len(a.nodes) \in Nat /\ DOMAIN a.nodes = 1..Len(a.nodes)
  BY Nodes DEF Sound
<1>2. QED
  BY <1>1 DEF Allocates, Fit, SameCell

LEMMA RetermedFit ==
  ASSUME NEW a, NEW b, NEW v, NEW terms, Fit(a), Live(a, v), Retermed(a, b, v, terms),
         Len(terms) <= Room(a.nodes[v.id].op)
  PROVE  Fit(b)
BY DEF Retermed, Keeps, Fit, SameCell, Live

LEMMA WrapFit ==
  ASSUME NEW a, NEW v, NEW op \in BracketOps \cup OperandOps, NEW token, Sound(a), Fit(a),
         Live(a, v)
  PROVE  Fit(Wrap(a, v, op, token))
<1> DEFINE b == Wrap(a, v, op, token)
<1>1. Wraps(a, b, v, op, token)
  BY WrapWraps
<1>2. Len(a.nodes) \in Nat /\ DOMAIN a.nodes = 1..Len(a.nodes) /\ v.id \in DOMAIN a.nodes
  BY Nodes DEF Sound, Live
<1> HIDE DEF b
<1>3. Room(op) \in 1..3 /\ \A w : Len(<<w>>) = 1
  BY RoomIs
<1>4. Fit(b)
  <2>1. \A i \in DOMAIN b.nodes :
          i = v.id \/ i = Len(a.nodes) + 1 \/ i \in DOMAIN a.nodes \ {v.id}
    BY <1>1, <1>2 DEF Wraps
  <2>2. b.nodes[v.id].op = op /\ Len(b.nodes[v.id].terms) = 1
    BY <1>1, <1>3 DEF Wraps, SameCell
  <2>3. \A i \in DOMAIN a.nodes \ {v.id} :
          b.nodes[i].op = a.nodes[i].op /\ b.nodes[i].terms = a.nodes[i].terms
    BY <1>1 DEF Wraps, SameCell
  <2>4. /\ b.nodes[Len(a.nodes) + 1].op = a.nodes[v.id].op
        /\ b.nodes[Len(a.nodes) + 1].terms = a.nodes[v.id].terms
    BY <1>1 DEF Wraps, SameCell
  <2> DEFINE new == Len(a.nodes) + 1
  <2>5. Len(b.nodes[v.id].terms) <= Room(b.nodes[v.id].op)
    BY <1>3, <2>2
  <2>6. Len(b.nodes[new].terms) <= Room(b.nodes[new].op)
    BY <1>2, <2>4 DEF Fit
  <2>7. \A i \in DOMAIN a.nodes \ {v.id} : Len(b.nodes[i].terms) <= Room(b.nodes[i].op)
    BY <2>3 DEF Fit
  <2> HIDE DEF new
  <2>8. QED
    BY <2>1, <2>5, <2>6, <2>7 DEF Fit, new
<1>5. QED
  BY <1>4 DEF b

LEMMA CompletedFit ==
  ASSUME TypeInv, Fit(arena), NEW E
  PROVE  Fit(Completed(E))
<1> DEFINE terms == Append(arena.nodes[E.node.id].terms, NodeOf(E.child))
<1>1. CASE Completed(E) = arena
  BY <1>1
<1>2. CASE Completed(E) # arena
  <2>1. /\ Live(arena, E.node) /\ Completed(E) = PushTerm(arena, E.node, NodeOf(E.child))
        /\ Len(Terms(arena, E.node)) < OpOf(arena, E.node).terms /\ Sound(arena)
        /\ arena.nodes[E.node.id].op \in BracketOps \cup OperandOps
        /\ arena.nodes[E.node.id].terms \in Seq(Value)
    BY <1>2 DEF Completed, IsOp, TypeInv, PrattInv, FromTable, Typed, TermsTyped, Live
  <2>2. Retermed(arena, Completed(E), E.node, terms)
    BY <2>1, PushTermKeeps
  <2>3. Len(terms) = Len(arena.nodes[E.node.id].terms) + 1
        /\ Len(arena.nodes[E.node.id].terms) \in Nat
    BY <2>1, LenProperties
  <2> HIDE DEF terms
  <2>4. Len(terms) <= Room(arena.nodes[E.node.id].op)
    <3>1. /\ Len(arena.nodes[E.node.id].terms) < arena.nodes[E.node.id].op.terms
          /\ arena.nodes[E.node.id].op.terms \in Nat
      BY <2>1, TableTerms DEF Terms, OpOf
    <3>2. /\ Room(arena.nodes[E.node.id].op) \in Nat
          /\ arena.nodes[E.node.id].op.terms <= Room(arena.nodes[E.node.id].op)
      BY <2>1, RoomIs
    <3>3. QED
      BY <2>3, <3>1, <3>2
  <2>5. QED
    BY <2>1, <2>2, <2>4, RetermedFit
<1>3. QED
  BY <1>1, <1>2

LEMMA BelowFit ==
  ASSUME TypeInv, Fit(arena), Pratting, NEW terms, Len(terms) <= Room(pratt.op),
         LET b == NewNodeUnder(arena, pratt.op, pratt.token, terms, pratt.expr)
         IN  arena' = SetTerm(b, pratt.expr, LastPos, Newest(b))
  PROVE  Fit(arena')
<1> DEFINE b    == NewNodeUnder(arena, pratt.op, pratt.token, terms, pratt.expr)
           old  == b.nodes[pratt.expr.id].terms
           size == IF Len(old) < LastPos THEN LastPos ELSE Len(old)
           new  == [j \in 1..size |-> IF j = LastPos THEN Newest(b) ELSE Slot(old, j)]
<1>1. Sound(arena) /\ Live(arena, pratt.expr) /\ LastPos \in Nat
      /\ arena.nodes[pratt.expr.id].op \in BracketOps \cup OperandOps
      /\ arena.nodes[pratt.expr.id].terms \in Seq(Value)
  BY LastTyped DEF TypeInv, PrattInv, FromTable, Typed, TermsTyped, Live
<1>2. Sound(b) /\ Allocates(arena, b, pratt.op, pratt.token, terms) /\ Live(b, pratt.expr)
  BY <1>1, NewNodeUnderSound, BelowRetermed
<1>3. Fit(b)
  BY <1>1, <1>2, AllocatesFit
<1>4. b.nodes[pratt.expr.id].op = arena.nodes[pratt.expr.id].op
      /\ b.nodes[pratt.expr.id].terms = arena.nodes[pratt.expr.id].terms
  BY <1>1, <1>2 DEF Allocates, SameCell, Live
<1> HIDE DEF b
<1>5. Retermed(b, SetTerm(b, pratt.expr, LastPos, Newest(b)), pratt.expr, new)
  BY <1>2, SetTermKeeps
<1>6. Len(old) \in Nat /\ Len(old) <= Room(b.nodes[pratt.expr.id].op)
  BY <1>1, <1>2, <1>3, <1>4, LenProperties DEF Fit, Live
<1>7. LastPos <= Room(b.nodes[pratt.expr.id].op)
  BY <1>1, <1>4, RoomIs DEF LastPos, InExpr, OpOf
<1>8. Len(new) = size /\ size \in Nat
  BY <1>1, <1>6
<1> HIDE DEF new
<1>9. Len(new) <= Room(b.nodes[pratt.expr.id].op)
  BY <1>6, <1>7, <1>8
<1>10. QED
  BY <1>2, <1>3, <1>5, <1>9, RetermedFit DEF b

LEMMA OneAtMost ==
  ASSUME NEW v, NEW s \in {<<v>>, << >>}
  PROVE  s \in Seq({v}) /\ Len(s) <= 1
<1>1. CASE s = <<v>>
  BY <1>1
<1>2. CASE s = << >>
  BY <1>2
<1>3. QED
  BY <1>1, <1>2

LEMMA ClosedFit ==
  ASSUME TypeInv, Fit(arena), ParenClosed
  PROVE  Fit(arena')
<1> DEFINE P     == rules[cur]
           grand == rules[P.parent].parent
           terms == ParenTerms(P, grand)
<1>1. t0 \in ParenClose
  BY DEF ParenClosed, AcceptsCloser
<1>2. arena' = arena \/ arena' = NewNode(arena, ParenOp(Closes(t0)), at, terms)
  BY DEF ParenClosed
<1>3. Len(terms) <= 2
  <2> DEFINE s1 == IF grand # 0 /\ rules[grand].preval /\ NodeOf(grand) # Undefined
                   THEN <<NodeOf(grand)>> ELSE << >>
             s2 == IF ParenInner(P) = Undefined THEN << >> ELSE <<ParenInner(P)>>
  <2>1. terms = s1 \o s2
    BY DEF ParenTerms
  <2>2. s1 \in Seq({NodeOf(grand)}) /\ Len(s1) <= 1
    <3>1. s1 \in {<<NodeOf(grand)>>, << >>}
      BY Zenon
    <3> HIDE DEF s1
    <3>2. QED
      BY <3>1, OneAtMost
  <2>3. s2 \in Seq({ParenInner(P)}) /\ Len(s2) <= 1
    <3>1. s2 \in {<<ParenInner(P)>>, << >>}
      BY Zenon
    <3> HIDE DEF s2
    <3>2. QED
      BY <3>1, OneAtMost
  <2> HIDE DEF s1, s2, terms
  <2>4. Len(s1 \o s2) = Len(s1) + Len(s2) /\ Len(s1) \in Nat /\ Len(s2) \in Nat
    <3>1. s1 \in Seq({NodeOf(grand), ParenInner(P)}) /\ s2 \in Seq({NodeOf(grand), ParenInner(P)})
      BY <2>2, <2>3, SeqMonotonic
    <3>2. QED
      BY <3>1, ConcatProperties, LenProperties
  <2>5. QED
    BY <2>1, <2>2, <2>3, <2>4
<1> HIDE DEF terms
<1>4. Room(ParenOp(Closes(t0))) = 2
  BY DEF Room, ParenOp, Powered
<1>5. CASE arena' # arena
  BY <1>2, <1>3, <1>4, <1>5, NewNodeAllocates, AllocatesFit DEF TypeInv, PrattInv
<1>6. QED
  BY <1>5

LEMMA StepFit ==
  ASSUME NoTernaries, TypeInv, Fit(arena), [Next]_vars
  PROVE  Fit(arena')
<1>1. Sound(arena) /\ \A w : Len(<<w>>) = 1 /\ Len(<< >>) = 0
  BY DEF TypeInv, PrattInv
<1>2. CASE arena' = arena
  BY <1>2
<1>3. CASE ExprOpenPrior
  <2>1. OpUsed(ExprOpenAlt) \in BracketOps \cup OperandOps
    BY <1>3, OpensOnOperator DEF ExprOpenPrior
  <2>2. \/ \E v : Live(arena, v) /\ arena' = Wrap(arena, v, OpUsed(ExprOpenAlt), at)
        \/ \E v : \E terms \in {<< >>, <<v>>} :
             arena' = NewNode(arena, OpUsed(ExprOpenAlt), at, terms)
    BY <1>3 DEF ExprOpenPrior, IsOp
  <2>3. \A v : \A terms \in {<< >>, <<v>>} : Len(terms) <= Room(OpUsed(ExprOpenAlt))
    <3>1. Room(OpUsed(ExprOpenAlt)) \in 1..3
      BY <2>1, RoomIs
    <3> HIDE DEF OpUsed
    <3> DEFINE room == Room(OpUsed(ExprOpenAlt))
    <3>2. room \in 1..3
      BY <3>1
    <3> HIDE DEF room
    <3>3. \A v : Len(<<v>>) <= room /\ Len(<< >>) <= room
      BY <3>2
    <3>4. QED
      BY <3>3 DEF room
  <2>4. QED
    BY <1>1, <2>1, <2>2, <2>3, WrapFit, NewNodeAllocates, AllocatesFit
<1>4. CASE PrattLooser \/ PrattTighter \/ PrattPrefix
  <2>1. pratt.op \in BracketOps \cup OperandOps /\ Live(arena, pratt.expr) /\ Pratting
    BY <1>4 DEF TypeInv, PrattInv, CallOK, PrattLooser, PrattTighter, PrattPrefix, Pratting
  <2>2. Room(pratt.op) \in 1..3
    BY <2>1, RoomIs
  <2>3. CASE PrattLooser
    BY <1>1, <2>1, <2>3, WrapFit DEF PrattLooser
  <2>4. CASE PrattTighter
    <3>1. Len(<<TermAt(arena, pratt.expr, LastPos)>>) <= Room(pratt.op)
      BY <1>1, <2>2
    <3>2. QED
      BY <2>1, <2>4, <3>1, BelowFit DEF PrattTighter
  <2>5. CASE PrattPrefix
    <3>1. Len(<< >>) <= Room(pratt.op)
      BY <1>1, <2>2
    <3>2. QED
      BY <2>1, <2>5, <3>1, BelowFit DEF PrattPrefix
  <2>6. QED
    BY <1>4, <2>3, <2>4, <2>5
<1>5. CASE ExprCloseReplace \/ ExprClosePop \/ ExprCloseBase \/ ExprCloseEnd
  <2>1. arena' = Completed(rules[cur])
    BY <1>5 DEF ExprCloseReplace, ExprClosePop, ExprCloseBase, ExprCloseEnd
  <2>2. QED
    BY <2>1, CompletedFit
<1>6. CASE ParenClosed
  BY <1>6, ClosedFit
<1>7. CASE Ternary_ \/ TernaryCloseElse \/ TernaryCloseBase
  BY <1>7, NeverTernary DEF Ternary_, TernaryOpenFirst, TernaryOpenStep, TernaryCloseThen,
     TernaryError, TernaryCloseElse, TernaryCloseBase
<1>8. CASE Val_
  BY <1>2, <1>8 DEF Val_, ValOpenPrefix, ValOpenPreval, ValOpenParen, ValOpenValue, ValOpenEnd,
         ValOpenElsewhere, ValCloseTernary, ValCloseOperator, ValCloseChain, ValClosePop, Halt
<1>9. CASE ExprOpenParen \/ ExprOpenEmbed \/ PrattDrill
  BY <1>2, <1>9 DEF ExprOpenParen, ExprOpenEmbed, PrattDrill
<1>10. CASE ParenOpenEmpty \/ ParenOpenVal \/ ParenError
  BY <1>2, <1>10 DEF ParenOpenEmpty, ParenOpenVal, ParenError, Halt
<1>11. CASE ValCloseBase \/ Cancel \/ Over \/ UNCHANGED vars
  BY <1>2, <1>11 DEF ValCloseBase, Cancel, Over, Halt, vars
<1>12. QED
  BY <1>3, <1>4, <1>5, <1>6, <1>7, <1>8, <1>9, <1>10, <1>11
     DEF Next, Expr_, Paren_, Base_

(***************************************************************************)
(* In a table without ternaries no operator is ever given more terms than  *)
(* it has operands, and a paren no more than the value before it and what  *)
(* it holds: the hooks that complete an expression never complete one      *)
(* twice, however the rules share it.                                      *)
(***************************************************************************)
THEOREM AlwaysTermsFit == NoTernaries => (Spec => []TermsFit)
<1> SUFFICES ASSUME NoTernaries PROVE Spec => []TermsFit
  OBVIOUS
<1>1. Init => Fit(arena)
  BY DEF Init, InitWith, EmptyArena, Fit
<1>2. TypeInv /\ Fit(arena) /\ [Next]_vars => Fit(arena)'
  BY StepFit DEF Fit
<1>3. Spec => []TypeInv
  BY AlwaysTypeInv
<1>4. Fit(arena) <=> TermsFit
  BY DEF Fit, Room, TermsFit
<1>5. QED
  BY <1>1, <1>2, <1>3, <1>4, PTL DEF Spec

(***************************************************************************)
(* Lines through the arena.  An expression that awaits an operand draws    *)
(* one: the number of the newest node when the operand's val was pushed.   *)
(* It can be read off the expression, the newest node then being the       *)
(* expression or its first term.                                           *)
(***************************************************************************)
Mark(a, v) ==
  LET node == a.nodes[v.id]
  IN  IF node.op.kind = "infix" /\ node.terms[1].k = "node" /\ node.terms[1].id > v.id
      THEN node.terms[1].id ELSE v.id

\* What an expression that awaits an operand is, and nothing above its mark
\* holds a node below.
Firm(a, v) ==
  /\ Live(a, v) /\ a.nodes[v.id].op.kind \in {"prefix", "infix"}
  /\ a.nodes[v.id].op.kind = "infix" => 1 \in DOMAIN a.nodes[v.id].terms
  /\ Mark(a, v) <= Len(a.nodes) /\ Upper(a, Mark(a, v))

\* It stays so from one arena to the next, and its mark stays where it was.
Steady(a, b, v) == Firm(b, v) /\ Mark(b, v) = Mark(a, v)

\* A value that is no node of the arena at or below any of the lines in Ms.
Beyond(Ms, v) == v.k = "node" => \A N \in Ms : v.id > N

\* Each of some terms is no node, or a node of the arena.
Known(a, terms) == \A j \in DOMAIN terms : terms[j].k = "node" => terms[j].id \in DOMAIN a.nodes

\* A node more, between v and nodes v held.
Between(a, b, v) ==
  LET new == Len(a.nodes) + 1
  IN  /\ DOMAIN b.nodes = 1..new /\ Len(b.nodes) = new
      /\ \A i \in DOMAIN a.nodes \ {v.id} : SameCell(b.nodes[i], a.nodes[i])
      /\ \A x \in Held(b, v.id) : x \in Held(a, v.id) \/ x = new
      /\ Held(b, new) \subseteq Held(a, v.id)

\* A node more, below v, that has these terms.
Placing(a, b, v, op, terms) ==
  LET new == b.nodes[Len(a.nodes) + 1]
  IN  Between(a, b, v) /\ b.nodes[v.id].op = a.nodes[v.id].op /\ new.op = op /\ new.terms = terms

\* A term more.
Pushes(a, b, v, w) ==
  /\ DOMAIN b.nodes = DOMAIN a.nodes
  /\ \A i \in DOMAIN a.nodes : b.nodes[i].op = a.nodes[i].op
  /\ \A i \in DOMAIN a.nodes \ {v.id} : Held(b, i) = Held(a, i)
  /\ \A x \in Held(b, v.id) : x \in Held(a, v.id) \/ (w.k = "node" /\ w.id = x)

LEMMA MarkIs ==
  ASSUME NEW a, Sound(a), Closed(a), NEW v, Firm(a, v)
  PROVE  Mark(a, v) \in Nat /\ v.id <= Mark(a, v) /\ v.id \in Nat
<1>1. DOMAIN a.nodes = 1..Len(a.nodes) /\ Len(a.nodes) \in Nat /\ v.id \in DOMAIN a.nodes
  BY Nodes DEF Sound, Firm, Live
<1>2. CASE Mark(a, v) = v.id
  BY <1>1, <1>2
<1>3. CASE Mark(a, v) # v.id
  <2>1. /\ a.nodes[v.id].op.kind = "infix" /\ a.nodes[v.id].terms[1].k = "node"
        /\ a.nodes[v.id].terms[1].id > v.id /\ Mark(a, v) = a.nodes[v.id].terms[1].id
    BY <1>3 DEF Mark
  <2>2. a.nodes[v.id].terms[1].id \in DOMAIN a.nodes
    BY <1>1, <2>1 DEF Firm, Closed
  <2>3. QED
    BY <1>1, <2>1, <2>2
<1>4. QED
  BY <1>2, <1>3

LEMMA StaysFirm ==
  ASSUME NEW a, NEW b, NEW v, Firm(a, v), Live(b, v), Len(a.nodes) <= Len(b.nodes),
         Len(a.nodes) \in Nat, Len(b.nodes) \in Nat, Mark(a, v) \in Nat,
         b.nodes[v.id].op = a.nodes[v.id].op,
         a.nodes[v.id].op.kind = "infix" => /\ 1 \in DOMAIN b.nodes[v.id].terms
                                            /\ b.nodes[v.id].terms[1] = a.nodes[v.id].terms[1],
         Upper(b, Mark(a, v))
  PROVE  Steady(a, b, v)
<1>1. Mark(b, v) = Mark(a, v)
  BY DEF Mark
<1>2. QED
  BY <1>1 DEF Steady, Firm

\* A new node, holding known ones.
LEMMA AllocatesHeld ==
  ASSUME NEW a, NEW b, NEW op, NEW token, NEW terms, Sound(a), Closed(a), Known(a, terms),
         Allocates(a, b, op, token, terms)
  PROVE  LET new == Len(a.nodes) + 1
         IN  /\ new \notin DOMAIN a.nodes /\ DOMAIN b.nodes = DOMAIN a.nodes \cup {new}
             /\ \A i \in DOMAIN a.nodes : Held(b, i) = Held(a, i)
             /\ \A x \in Held(b, new) : /\ x \in DOMAIN a.nodes
                                        /\ \E j \in DOMAIN terms :
                                             terms[j].k = "node" /\ terms[j].id = x
<1> DEFINE new == Len(a.nodes) + 1
<1>1. Len(a.nodes) \in Nat /\ DOMAIN a.nodes = 1..Len(a.nodes)
  BY Nodes DEF Sound
<1>2. new \notin DOMAIN a.nodes /\ DOMAIN b.nodes = DOMAIN a.nodes \cup {new}
  BY <1>1 DEF Allocates
<1>3. /\ \A i \in DOMAIN a.nodes : b.nodes[i].terms = a.nodes[i].terms
      /\ b.nodes[new].terms = terms
  BY DEF Allocates, SameCell
<1> HIDE DEF new
<1>4. \A i \in DOMAIN a.nodes : Held(b, i) = Held(a, i)
  BY <1>2, <1>3, HeldSame
<1>5. \A x \in Held(b, new) : /\ x \in DOMAIN a.nodes
                              /\ \E j \in DOMAIN terms : terms[j].k = "node" /\ terms[j].id = x
  BY <1>3, HeldBy DEF Known
<1>6. QED
  BY <1>2, <1>4, <1>5 DEF new

LEMMA AllocatesTree ==
  ASSUME NEW a, NEW b, NEW op, NEW token, NEW terms, Sound(a), Closed(a), Known(a, terms),
         Allocates(a, b, op, token, terms)
  PROVE  /\ Acyclic(a) => Acyclic(b)
         /\ \A v : /\ Firm(a, v)
                   /\ \A j \in DOMAIN terms : Beyond({Mark(a, v)}, terms[j])
                   => Steady(a, b, v)
<1> DEFINE new == Len(a.nodes) + 1
<1>1. Len(a.nodes) \in Nat /\ DOMAIN a.nodes = 1..Len(a.nodes)
  BY Nodes DEF Sound
<1>2. /\ new \notin DOMAIN a.nodes /\ DOMAIN b.nodes = DOMAIN a.nodes \cup {new}
      /\ \A i \in DOMAIN a.nodes : Held(b, i) = Held(a, i)
      /\ \A x \in Held(b, new) : /\ x \in DOMAIN a.nodes
                                 /\ \E j \in DOMAIN terms :
                                      terms[j].k = "node" /\ terms[j].id = x
  BY AllocatesHeld
<1>3. /\ \A i \in DOMAIN a.nodes : /\ b.nodes[i].terms = a.nodes[i].terms
                                   /\ b.nodes[i].op = a.nodes[i].op
      /\ Len(b.nodes) = new
  BY DEF Allocates, SameCell
<1>4. Len(a.nodes) <= Len(b.nodes) /\ Len(b.nodes) \in Nat
  BY <1>1, <1>3
<1> HIDE DEF new
<1>5. Acyclic(a) => Acyclic(b)
  BY <1>2, AcyclicAdded
<1>6. ASSUME NEW v, Firm(a, v), \A j \in DOMAIN terms : Beyond({Mark(a, v)}, terms[j])
      PROVE  Steady(a, b, v)
  <2>1. Mark(a, v) \in Nat /\ v.id \in DOMAIN a.nodes
    BY <1>6, MarkIs DEF Firm, Live
  <2>2. Upper(b, Mark(a, v))
    <3>1. \A x \in Held(b, new) : x > Mark(a, v)
      BY <1>2, <1>6 DEF Beyond
    <3>2. QED
      BY <1>2, <1>6, <3>1 DEF Upper, Firm
  <2>3. Live(b, v)
    BY <1>2, <1>6 DEF Live, Firm
  <2>4. QED
    BY <1>1, <1>3, <1>4, <1>6, <2>1, <2>2, <2>3, StaysFirm DEF Firm
<1>7. QED
  BY <1>5, <1>6

\* A node put in between: above the line, as what it is put under.
LEMMA BetweenTree ==
  ASSUME NEW a, NEW b, NEW v, Sound(a), Closed(a), Live(a, v), Between(a, b, v)
  PROVE  /\ Acyclic(a) => Acyclic(b)
         /\ \A e : Firm(a, e) /\ Beyond({Mark(a, e)}, v) => Steady(a, b, e)
<1> DEFINE new == Len(a.nodes) + 1
<1>1. Len(a.nodes) \in Nat /\ DOMAIN a.nodes = 1..Len(a.nodes) /\ v.id \in DOMAIN a.nodes
  BY Nodes DEF Sound, Live
<1>0. DOMAIN b.nodes = 1..new /\ Len(b.nodes) = new
  BY DEF Between
<1>2. /\ new \notin DOMAIN a.nodes /\ DOMAIN b.nodes = DOMAIN a.nodes \cup {new}
      /\ Len(a.nodes) <= Len(b.nodes) /\ Len(b.nodes) \in Nat /\ new \in Nat
      /\ new > Len(a.nodes)
  BY <1>1, <1>0
<1>3. \A i \in DOMAIN a.nodes \ {v.id} :
        b.nodes[i].terms = a.nodes[i].terms /\ b.nodes[i].op = a.nodes[i].op
  BY DEF SameCell, Between
<1>4. /\ \A x \in Held(b, v.id) : x \in Held(a, v.id) \/ x = new
      /\ Held(b, new) \subseteq Held(a, v.id)
  BY DEF Between
<1> HIDE DEF new
<1>5. \A i \in DOMAIN a.nodes \ {v.id} : Held(b, i) = Held(a, i)
  <2> SUFFICES ASSUME NEW i \in DOMAIN a.nodes \ {v.id} PROVE Held(b, i) = Held(a, i)
    OBVIOUS
  <2>1. /\ DOMAIN a.nodes \subseteq DOMAIN b.nodes /\ i \in DOMAIN a.nodes
        /\ a.nodes[i].terms = b.nodes[i].terms
    BY <1>2, <1>3
  <2>2. QED
    BY <2>1, HeldSame
<1>6. Acyclic(a) => Acyclic(b)
  <2>1. Held(b, v.id) \subseteq Held(a, v.id) \cup {new}
    BY <1>4
  <2>2. QED
    BY <1>1, <1>2, <1>4, <1>5, <2>1, AcyclicBetween
<1>7. ASSUME NEW e, Firm(a, e), Beyond({Mark(a, e)}, v)
      PROVE  Steady(a, b, e)
  <2>1. /\ Mark(a, e) \in Nat /\ e.id <= Mark(a, e) /\ e.id \in DOMAIN a.nodes
        /\ Mark(a, e) <= Len(a.nodes)
    BY <1>7, MarkIs DEF Firm, Live
  <2>2. v.id > Mark(a, e) /\ e.id # v.id
    BY <1>1, <1>7, <2>1 DEF Beyond, Live
  <2>3. Upper(b, Mark(a, e))
    <3> SUFFICES ASSUME NEW i \in DOMAIN b.nodes, i > Mark(a, e), NEW x \in Held(b, i)
                 PROVE  x > Mark(a, e)
      BY DEF Upper
    <3>1. \A k \in DOMAIN a.nodes : k > Mark(a, e) => \A y \in Held(a, k) : y > Mark(a, e)
      BY <1>7 DEF Firm, Upper
    <3>2. new > Mark(a, e)
      BY <1>1, <1>2, <2>1
    <3>3. QED
      BY <1>1, <1>2, <1>4, <1>5, <2>2, <3>1, <3>2
  <2>4. Live(b, e)
    BY <1>2, <1>7 DEF Live, Firm
  <2>5. QED
    BY <1>1, <1>2, <1>3, <1>7, <2>1, <2>2, <2>3, <2>4, StaysFirm DEF Firm
<1>8. QED
  BY <1>6, <1>7

\* A node whose mark is the newest node: nothing is above it.
LEMMA LastFirm ==
  ASSUME NEW b, Len(b.nodes) \in Nat, DOMAIN b.nodes = 1..Len(b.nodes), NEW v, Live(b, v),
         b.nodes[v.id].op.kind \in {"prefix", "infix"},
         b.nodes[v.id].op.kind = "infix" => 1 \in DOMAIN b.nodes[v.id].terms,
         Mark(b, v) = Len(b.nodes)
  PROVE  Firm(b, v)
BY DEF Firm, Upper

\* What a node above a line holds is above it.
LEMMA TermBeyond ==
  ASSUME NEW a, Closed(a), NEW e, Firm(a, e), NEW v, Beyond({Mark(a, e)}, v), NEW i
  PROVE  Beyond({Mark(a, e)}, TermAt(a, v, i))
<1>1. CASE Live(a, v) /\ i \in DOMAIN a.nodes[v.id].terms /\ a.nodes[v.id].terms[i].k = "node"
  <2>1. TermAt(a, v, i) = a.nodes[v.id].terms[i]
    BY <1>1 DEF TermAt, Terms
  <2>2. a.nodes[v.id].terms[i].id \in Held(a, v.id)
    BY <1>1, HeldBy DEF Closed, Live
  <2>3. v.id > Mark(a, e)
    BY <1>1 DEF Beyond, Live
  <2>4. QED
    BY <1>1, <2>1, <2>2, <2>3 DEF Firm, Upper, Beyond, Live
<1>2. CASE ~(Live(a, v) /\ i \in DOMAIN a.nodes[v.id].terms /\ a.nodes[v.id].terms[i].k = "node")
  BY <1>2 DEF TermAt, Terms, Undefined, Beyond
<1>3. QED
  BY <1>1, <1>2

\* A looser operator, and the expression it has become.
LEMMA WrapTree ==
  ASSUME NEW a, Sound(a), Closed(a), NEW v, Live(a, v), NEW op, NEW token
  PROVE  LET b == Wrap(a, v, op, token)
         IN  /\ Between(a, b, v)
             /\ Acyclic(a) => Acyclic(b)
             /\ \A e : Firm(a, e) /\ Beyond({Mark(a, e)}, v) => Steady(a, b, e)
             /\ op.kind = "infix" => Firm(b, v)
<1> DEFINE b   == Wrap(a, v, op, token)
           new == Len(a.nodes) + 1
<1>1. Wraps(a, b, v, op, token)
  BY WrapWraps
<1>2. Len(a.nodes) \in Nat /\ DOMAIN a.nodes = 1..Len(a.nodes) /\ v.id \in DOMAIN a.nodes
  BY Nodes DEF Sound, Live
<1> HIDE DEF b
<1>3. /\ DOMAIN b.nodes = 1..new /\ Len(b.nodes) = new
      /\ \A i \in DOMAIN a.nodes \ {v.id} : SameCell(b.nodes[i], a.nodes[i])
      /\ b.nodes[new].terms = a.nodes[v.id].terms
      /\ b.nodes[v.id].op = op /\ b.nodes[v.id].terms = <<Handle(new)>>
  BY <1>1 DEF Wraps, SameCell
<1>4. Held(b, new) = Held(a, v.id)
  <2>1. DOMAIN a.nodes \subseteq DOMAIN b.nodes
    BY <1>2, <1>3
  <2>2. a.nodes[v.id].terms = b.nodes[new].terms /\ v.id \in DOMAIN a.nodes
    BY <1>2, <1>3
  <2> HIDE DEF new
  <2>3. QED
    BY <2>1, <2>2, HeldSame
<1>5. \A x \in Held(b, v.id) : x = new
  BY <1>3, HeldBy DEF Handle
<1>6. /\ Between(a, b, v)
      /\ Acyclic(a) => Acyclic(b)
      /\ \A e : Firm(a, e) /\ Beyond({Mark(a, e)}, v) => Steady(a, b, e)
  <2>1. Between(a, b, v)
    BY <1>3, <1>4, <1>5 DEF Between
  <2>2. QED
    BY <2>1, BetweenTree
<1>7. ASSUME op.kind = "infix" PROVE Firm(b, v)
  <2>1. /\ 1 \in DOMAIN b.nodes[v.id].terms /\ b.nodes[v.id].terms[1] = Handle(new)
        /\ Live(b, v)
    BY <1>2, <1>3 DEF Live
  <2>2. Mark(b, v) = new
    BY <1>2, <1>3, <1>7, <2>1 DEF Mark, Handle
  <2>3. new \in Nat
    BY <1>2
  <2> HIDE DEF new
  <2>4. QED
    BY <1>3, <1>7, <2>1, <2>2, <2>3, LastFirm
<1>8. QED
  BY <1>6, <1>7 DEF b

\* A node on its own, and the expression that it is.
LEMMA NewTree ==
  ASSUME NEW a, Sound(a), Closed(a), NEW op, NEW token, NEW terms, Known(a, terms), NEW b,
         Allocates(a, b, op, token, terms)
  PROVE  /\ Newest(b) = Handle(Len(a.nodes) + 1) /\ Live(b, Newest(b))
         /\ Acyclic(a) => Acyclic(b)
         /\ \A e : /\ Firm(a, e)
                   /\ \A j \in DOMAIN terms : Beyond({Mark(a, e)}, terms[j])
                   => Steady(a, b, e)
         /\ op.kind = "prefix" \/ (op.kind = "infix" /\ 1 \in DOMAIN terms) => Firm(b, Newest(b))
<1>1. Len(a.nodes) \in Nat /\ DOMAIN a.nodes = 1..Len(a.nodes)
  BY Nodes DEF Sound
<1>2. /\ DOMAIN b.nodes = 1..Len(b.nodes) /\ Len(b.nodes) = Len(a.nodes) + 1
      /\ b.nodes[Len(b.nodes)].op = op /\ b.nodes[Len(b.nodes)].terms = terms
  BY DEF Allocates, SameCell
<1>3. Newest(b) = Handle(Len(b.nodes)) /\ Live(b, Newest(b)) /\ Newest(b).id = Len(b.nodes)
      /\ Len(b.nodes) \in Nat
  BY <1>1, <1>2 DEF Newest, Live, Handle
<1>4. ASSUME op.kind = "prefix" \/ (op.kind = "infix" /\ 1 \in DOMAIN terms)
      PROVE  Firm(b, Newest(b))
  <2>1. Mark(b, Newest(b)) = Len(b.nodes)
    BY <1>1, <1>2, <1>3, <1>4 DEF Mark, Known
  <2>2. QED
    BY <1>2, <1>3, <1>4, <2>1, LastFirm
<1>5. Newest(b) = Handle(Len(a.nodes) + 1)
  BY <1>2, <1>3
<1>6. /\ Acyclic(a) => Acyclic(b)
      /\ \A e : /\ Firm(a, e)
                /\ \A j \in DOMAIN terms : Beyond({Mark(a, e)}, terms[j])
                => Steady(a, b, e)
  BY AllocatesTree
<1>7. QED
  BY <1>3, <1>4, <1>5, <1>6

\* A term more: above the line of the expression it is given to.
LEMMA PushTree ==
  ASSUME NEW a, Sound(a), Closed(a), NEW v, Live(a, v), NEW w, NEW V,
         a.nodes[v.id].terms \in Seq(V)
  PROVE  LET b == PushTerm(a, v, w)
         IN  /\ Pushes(a, b, v, w)
             /\ Acyclic(a) /\ (w.k = "node" => Firm(a, v) /\ w.id > Mark(a, v)) => Acyclic(b)
             /\ \A e : Firm(a, e) /\ Beyond({Mark(a, e)}, v) /\ Beyond({Mark(a, e)}, w)
                       => Steady(a, b, e)
<1> DEFINE b   == PushTerm(a, v, w)
           old == a.nodes[v.id].terms
           new == Append(old, w)
<1>1. Retermed(a, b, v, new)
  BY PushTermKeeps
<1>2. Len(a.nodes) \in Nat /\ DOMAIN a.nodes = 1..Len(a.nodes) /\ v.id \in DOMAIN a.nodes
  BY Nodes DEF Sound, Live
<1> HIDE DEF b
<1>3. /\ DOMAIN b.nodes = DOMAIN a.nodes /\ Len(b.nodes) = Len(a.nodes)
      /\ b.nodes[v.id].op = a.nodes[v.id].op /\ b.nodes[v.id].terms = new
      /\ \A i \in DOMAIN a.nodes \ {v.id} :
           b.nodes[i].terms = a.nodes[i].terms /\ b.nodes[i].op = a.nodes[i].op
  BY <1>1 DEF Retermed, Keeps, SameCell
<1>4. \A i \in DOMAIN a.nodes \ {v.id} : Held(b, i) = Held(a, i)
  <2> SUFFICES ASSUME NEW i \in DOMAIN a.nodes \ {v.id} PROVE Held(b, i) = Held(a, i)
    OBVIOUS
  <2> HIDE DEF new, old
  <2>1. /\ DOMAIN a.nodes \subseteq DOMAIN b.nodes /\ i \in DOMAIN a.nodes
        /\ a.nodes[i].terms = b.nodes[i].terms
    BY <1>3
  <2>2. QED
    BY <2>1, HeldSame
<1>5. \A x \in Held(b, v.id) : x \in Held(a, v.id) \/ (w.k = "node" /\ w.id = x)
  <2> SUFFICES ASSUME NEW x \in Held(b, v.id)
               PROVE  x \in Held(a, v.id) \/ (w.k = "node" /\ w.id = x)
    OBVIOUS
  <2>1. x \in DOMAIN a.nodes /\ \E j \in DOMAIN new : new[j].k = "node" /\ new[j].id = x
    <3> HIDE DEF new
    <3>1. QED
      BY <1>3, HeldBy
  <2>2. PICK j \in DOMAIN new : new[j].k = "node" /\ new[j].id = x
    BY <2>1
  <2>3. (j \in DOMAIN old /\ new[j] = old[j]) \/ new[j] = w
    BY <2>2
  <2>4. CASE j \in DOMAIN old /\ new[j] = old[j]
    <3> HIDE DEF new
    <3>1. QED
      BY <2>1, <2>2, <2>4, HeldBy
  <2>5. QED
    BY <2>2, <2>3, <2>4
<1>6. ASSUME Acyclic(a), w.k = "node" => Firm(a, v) /\ w.id > Mark(a, v)
      PROVE  Acyclic(b)
  <2>1. DOMAIN a.nodes \subseteq Nat
    BY <1>2
  <2>2. CASE w.k = "node"
    <3>1. Mark(a, v) \in Nat /\ v.id <= Mark(a, v) /\ Upper(a, Mark(a, v))
      BY <1>6, <2>2, MarkIs DEF Firm
    <3>2. \A x \in Held(b, v.id) : x \in Held(a, v.id) \/ x > Mark(a, v)
      BY <1>5, <1>6, <2>2
    <3>3. QED
      BY <1>2, <1>3, <1>4, <1>6, <2>1, <3>1, <3>2, AcyclicPushed
  <2>3. CASE w.k # "node"
    <3>1. v.id <= Len(a.nodes) /\ Upper(a, Len(a.nodes))
      BY <1>2 DEF Upper
    <3>2. \A x \in Held(b, v.id) : x \in Held(a, v.id) \/ x > Len(a.nodes)
      BY <1>5, <2>3
    <3>3. QED
      BY <1>2, <1>3, <1>4, <1>6, <2>1, <3>1, <3>2, AcyclicPushed
  <2>4. QED
    BY <2>2, <2>3
<1>7. ASSUME NEW e, Firm(a, e), Beyond({Mark(a, e)}, v), Beyond({Mark(a, e)}, w)
      PROVE  Steady(a, b, e)
  <2>1. /\ Mark(a, e) \in Nat /\ e.id <= Mark(a, e) /\ e.id \in DOMAIN a.nodes
    BY <1>7, MarkIs DEF Firm, Live
  <2>2. v.id > Mark(a, e) /\ e.id # v.id
    BY <1>2, <1>7, <2>1 DEF Beyond, Live
  <2>3. Upper(b, Mark(a, e))
    <3> SUFFICES ASSUME NEW i \in DOMAIN b.nodes, i > Mark(a, e), NEW x \in Held(b, i)
                 PROVE  x > Mark(a, e)
      BY DEF Upper
    <3>1. \A k \in DOMAIN a.nodes : k > Mark(a, e) => \A y \in Held(a, k) : y > Mark(a, e)
      BY <1>7 DEF Firm, Upper
    <3>2. w.k = "node" => w.id > Mark(a, e)
      BY <1>7 DEF Beyond
    <3>3. QED
      BY <1>2, <1>3, <1>4, <1>5, <2>2, <3>1, <3>2
  <2>4. Live(b, e)
    BY <1>3, <1>7 DEF Live, Firm
  <2>5. QED
    BY <1>2, <1>3, <1>7, <2>1, <2>2, <2>3, <2>4, StaysFirm DEF Firm
<1>8. Pushes(a, b, v, w)
  BY <1>3, <1>4, <1>5 DEF Pushes
<1>9. QED
  BY <1>6, <1>7, <1>8 DEF b

\* A tighter operator: between an expression and its last term, or alone in its
\* place.
LEMMA BelowTree ==
  ASSUME NEW a, Sound(a), Closed(a), NEW v, Live(a, v), NEW op, NEW token, NEW i \in Nat \ {0},
         NEW terms \in {<< >>, <<TermAt(a, v, i)>>}, NEW V, a.nodes[v.id].terms \in Seq(V)
  PROVE  LET b == NewNodeUnder(a, op, token, terms, v)
             c == SetTerm(b, v, i, Newest(b))
         IN  /\ Newest(b) = Handle(Len(a.nodes) + 1) /\ Live(c, Newest(b))
             /\ Placing(a, c, v, op, terms)
             /\ Acyclic(a) => Acyclic(c)
             /\ \A e : Firm(a, e) /\ Beyond({Mark(a, e)}, v) => Steady(a, c, e)
             /\ /\ Firm(a, v) /\ terms = << >>
                /\ a.nodes[v.id].op.kind = "infix" => i # 1
                => Steady(a, c, v)
             /\ op.kind = "prefix" \/ (op.kind = "infix" /\ terms # << >>) => Firm(c, Newest(b))
<1> DEFINE b    == NewNodeUnder(a, op, token, terms, v)
           c    == SetTerm(b, v, i, Newest(b))
           n    == Len(a.nodes) + 1
           old  == a.nodes[v.id].terms
           size == IF Len(old) < i THEN i ELSE Len(old)
           new  == [j \in 1..size |-> IF j = i THEN Handle(n) ELSE Slot(old, j)]
<1>1. Len(a.nodes) \in Nat /\ DOMAIN a.nodes = 1..Len(a.nodes) /\ v.id \in DOMAIN a.nodes
  BY Nodes DEF Sound, Live
<1>2. Sound(b) /\ Allocates(a, b, op, token, terms) /\ Live(b, v)
  BY NewNodeUnderSound, BelowRetermed
<1>3. Newest(b) = Handle(n) /\ b.nodes[v.id].terms = old
  BY <1>1, <1>2 DEF Newest, Allocates, SameCell
<1> HIDE DEF b
<1>4. Retermed(b, c, v, new)
  <2>1. LET was == b.nodes[v.id].terms
        IN  Retermed(b, c, v,
                     [j \in 1..(IF Len(was) < i THEN i ELSE Len(was)) |->
                        IF j = i THEN Newest(b) ELSE Slot(was, j)])
    BY <1>2, SetTermKeeps
  <2> HIDE DEF c
  <2>2. QED
    BY <1>3, <2>1
<1> HIDE DEF c
<1>5. new = [j \in 1..size |-> IF j = i THEN Handle(n) ELSE Slot(old, j)]
  OBVIOUS
<1> HIDE DEF new
<1>6. /\ DOMAIN c.nodes = 1..n /\ Len(c.nodes) = n
      /\ \A k \in DOMAIN a.nodes \ {v.id} : SameCell(c.nodes[k], a.nodes[k])
      /\ c.nodes[n].op = op /\ c.nodes[n].terms = terms
      /\ c.nodes[v.id].op = a.nodes[v.id].op /\ c.nodes[v.id].terms = new
  <2>1. /\ DOMAIN c.nodes = 1..n /\ Len(c.nodes) = n
        /\ \A k \in (1..n) \ {v.id} : SameCell(c.nodes[k], b.nodes[k])
        /\ c.nodes[v.id].op = b.nodes[v.id].op /\ c.nodes[v.id].terms = new
    BY <1>2, <1>4 DEF Retermed, Allocates, Keeps, SameCell
  <2>2. /\ \A k \in DOMAIN a.nodes : SameCell(b.nodes[k], a.nodes[k])
        /\ b.nodes[n].op = op /\ b.nodes[n].terms = terms
    BY <1>2 DEF Allocates, SameCell
  <2>3. n \in (1..n) \ {v.id} /\ DOMAIN a.nodes \subseteq 1..n
    BY <1>1
  <2> HIDE DEF n
  <2>4. \A k \in DOMAIN a.nodes \ {v.id} : SameCell(c.nodes[k], a.nodes[k])
    BY <2>1, <2>2, <2>3 DEF SameCell
  <2>5. c.nodes[n].op = op /\ c.nodes[n].terms = terms
    BY <2>1, <2>2, <2>3 DEF SameCell
  <2>6. QED
    BY <1>1, <2>1, <2>2, <2>4, <2>5 DEF SameCell
<1>7. DOMAIN old = 1..Len(old) /\ Len(old) \in Nat
  BY LenProperties
<1>8. Held(c, n) \subseteq Held(a, v.id)
  <2> SUFFICES ASSUME NEW x \in Held(c, n) PROVE x \in Held(a, v.id)
    OBVIOUS
  <2>1. \E j \in DOMAIN terms : terms[j].k = "node" /\ terms[j].id = x
    BY <1>6, HeldBy
  <2>2. TermAt(a, v, i).k = "node" /\ TermAt(a, v, i).id = x
    BY <2>1
  <2>3. i \in DOMAIN old /\ old[i].k = "node" /\ old[i].id = x
    BY <2>2 DEF TermAt, Terms, Undefined
  <2> HIDE DEF old
  <2>4. QED
    BY <1>1, <2>3, HeldBy DEF old, Closed
<1>9. \A x \in Held(c, v.id) : x \in Held(a, v.id) \/ x = n
  <2> SUFFICES ASSUME NEW x \in Held(c, v.id) PROVE x \in Held(a, v.id) \/ x = n
    OBVIOUS
  <2>1. PICK j \in DOMAIN new : new[j].k = "node" /\ new[j].id = x
    BY <1>6, HeldBy
  <2>2. CASE j = i
    BY <1>5, <2>1, <2>2 DEF Handle
  <2>3. CASE j # i
    <3>1. j \in DOMAIN old /\ old[j].k = "node" /\ old[j].id = x
      BY <1>5, <2>1, <2>3 DEF Slot, Undefined
    <3> HIDE DEF old
    <3>2. QED
      BY <1>1, <3>1, HeldBy DEF old, Closed
  <2>4. QED
    BY <2>2, <2>3
<1>10. /\ Placing(a, c, v, op, terms)
       /\ Acyclic(a) => Acyclic(c)
       /\ \A e : Firm(a, e) /\ Beyond({Mark(a, e)}, v) => Steady(a, c, e)
  <2>1. Between(a, c, v)
    BY <1>6, <1>8, <1>9 DEF Between
  <2>2. QED
    BY <1>6, <2>1, BetweenTree DEF Placing
<1>11. ASSUME Firm(a, v), terms = << >>, a.nodes[v.id].op.kind = "infix" => i # 1
       PROVE  Steady(a, c, v)
  <2>1. /\ Mark(a, v) \in Nat /\ v.id <= Mark(a, v) /\ Mark(a, v) <= Len(a.nodes)
    BY <1>11, MarkIs DEF Firm
  <2>2. ASSUME a.nodes[v.id].op.kind = "infix"
        PROVE  1 \in DOMAIN new /\ new[1] = old[1]
    <3>1. i # 1 /\ 1 \in DOMAIN old
      BY <1>11, <2>2 DEF Firm
    <3>2. 1 \in 1..size
      BY <1>7, <3>1
    <3>3. QED
      BY <1>5, <3>1, <3>2 DEF Slot
  <2>3. Upper(c, Mark(a, v))
    <3> SUFFICES ASSUME NEW k \in DOMAIN c.nodes, k > Mark(a, v), NEW x \in Held(c, k)
                 PROVE  x > Mark(a, v)
      BY DEF Upper
    <3>1. CASE k = n
      <4>1. c.nodes[k].terms = << >>
        BY <1>6, <1>11, <3>1
      <4>2. QED
        BY <4>1, HeldBy
    <3>2. CASE k # n
      <4>1. k \in DOMAIN a.nodes \ {v.id}
        BY <1>1, <1>6, <2>1, <3>2
      <4>2. /\ DOMAIN a.nodes \subseteq DOMAIN c.nodes /\ k \in DOMAIN a.nodes
            /\ a.nodes[k].terms = c.nodes[k].terms
        BY <1>1, <1>6, <4>1 DEF SameCell
      <4>3. Held(c, k) = Held(a, k)
        BY <4>2, HeldSame
      <4>4. QED
        BY <1>11, <4>1, <4>3 DEF Firm, Upper
    <3>3. QED
      BY <3>1, <3>2
  <2>4. Live(c, v)
    BY <1>1, <1>6 DEF Live
  <2>5. /\ n \in Nat /\ Len(a.nodes) <= n
        /\ a.nodes[v.id].op.kind = "infix" => /\ 1 \in DOMAIN c.nodes[v.id].terms
                                              /\ c.nodes[v.id].terms[1] = a.nodes[v.id].terms[1]
    BY <1>1, <1>6, <2>2
  <2> HIDE DEF n, old
  <2>6. QED
    BY <1>1, <1>6, <1>11, <2>1, <2>3, <2>4, <2>5, StaysFirm
<1>12. Live(c, Newest(b)) /\ Newest(b).id = n
  BY <1>1, <1>3, <1>6 DEF Live, Handle
<1>13. ASSUME op.kind = "prefix" \/ (op.kind = "infix" /\ terms # << >>)
       PROVE  Firm(c, Newest(b))
  <2>1. ASSUME op.kind = "infix"
        PROVE  1 \in DOMAIN terms /\ (terms[1].k = "node" => terms[1].id \in DOMAIN a.nodes)
    <3>1. terms = <<TermAt(a, v, i)>>
      BY <1>13, <2>1
    <3>2. TermAt(a, v, i).k = "node" => TermAt(a, v, i).id \in DOMAIN a.nodes
      BY <1>1 DEF TermAt, Terms, Undefined, Closed
    <3>3. QED
      BY <3>1, <3>2
  <2>2. Mark(c, Newest(b)) = n
    BY <1>1, <1>6, <1>12, <1>13, <2>1 DEF Mark
  <2>3. n \in Nat
    BY <1>1
  <2> HIDE DEF n
  <2>4. QED
    BY <1>6, <1>12, <1>13, <2>1, <2>2, <2>3, LastFirm
<1>14. QED
  BY <1>3, <1>10, <1>11, <1>12, <1>13 DEF b, c

(***************************************************************************)
(* What an expression holds.  It is free while no node of another one      *)
(* holds a node of it.  Only a free one may grow, for no other counts it;  *)
(* a paren, or an expression that takes a paren as its operand, counts     *)
(* what it takes as it is then.                                            *)
(***************************************************************************)
Root(a, v) == a.nodes[v.id].root

Free(a, f) == \A i \in DOMAIN a.nodes :
                a.nodes[i].root # f => \A x \in Held(a, i) : a.nodes[x].root # f

\* An operand that was built in another expression is a paren.
Kindred(a) == \A i \in DOMAIN a.nodes : \A x \in Held(a, i) :
                a.nodes[i].op.kind \notin Brackets /\ a.nodes[x].op.kind \notin Brackets
                  => a.nodes[x].root = a.nodes[i].root

\* All that is reached from an expression is in a set its root's size covers.
Covers(a, r, C) ==
  /\ C \subseteq DOMAIN a.nodes /\ Family(a, r) \subseteq C
  /\ \A i \in C : Held(a, i) \subseteq C
  /\ Cardinality(C) <= a.nodes[r].size

Covered(a) == \A r \in DOMAIN a.nodes : a.nodes[r].root = r => \E C : Covers(a, r, C)

(***************************************************************************)
(* How an expression grows.                                                *)
(***************************************************************************)
LEMMA Sizes ==
  ASSUME NEW a, Sound(a)
  PROVE  /\ Len(a.nodes) \in Nat /\ DOMAIN a.nodes = 1..Len(a.nodes)
         /\ \A i \in DOMAIN a.nodes : /\ a.nodes[i].root \in DOMAIN a.nodes
                                      /\ a.nodes[a.nodes[i].root].root = a.nodes[i].root
                                      /\ a.nodes[i].size \in Nat
         /\ \A S : S \subseteq DOMAIN a.nodes => IsFiniteSet(S) /\ Cardinality(S) \in Nat
<1>1. /\ Len(a.nodes) \in Nat /\ DOMAIN a.nodes = 1..Len(a.nodes)
      /\ \A i \in DOMAIN a.nodes : /\ a.nodes[i].root \in DOMAIN a.nodes
                                   /\ a.nodes[a.nodes[i].root].root = a.nodes[i].root
                                   /\ a.nodes[i].size \in Nat
  BY Nodes DEF Sound, IsNode
<1>2. IsFiniteSet(1..Len(a.nodes))
  BY <1>1, FS_Interval
<1>3. ASSUME NEW S, S \subseteq DOMAIN a.nodes
      PROVE  IsFiniteSet(S) /\ Cardinality(S) \in Nat
  BY <1>1, <1>2, <1>3, FS_Subset, FS_CardinalityType
<1>4. QED
  BY <1>1, <1>3

LEMMA TwoSets ==
  ASSUME NEW S, NEW T, IsFiniteSet(S), IsFiniteSet(T)
  PROVE  /\ IsFiniteSet(S \cup T) /\ Cardinality(S \cup T) \in Nat
         /\ Cardinality(S) \in Nat /\ Cardinality(T) \in Nat
         /\ Cardinality(S \cup T) <= Cardinality(S) + Cardinality(T)
<1>1. /\ IsFiniteSet(S \cup T)
      /\ Cardinality(S \cup T) = Cardinality(S) + Cardinality(T) - Cardinality(S \cap T)
  BY FS_Union
<1>2. IsFiniteSet(S \cap T)
  BY FS_Intersection
<1>3. Cardinality(S \cup T) \in Nat /\ Cardinality(S) \in Nat /\ Cardinality(T) \in Nat
      /\ Cardinality(S \cap T) \in Nat
  BY <1>1, <1>2, FS_CardinalityType
<1>4. QED
  BY <1>1, <1>3

\* A node of its own expression more.
LEMMA GrowsWithin ==
  ASSUME NEW a, NEW b, Sound(a), Sound(b), Extends(a, b), NEW h, h \in DOMAIN a.nodes,
         a.nodes[h].root = h, Free(a, h), Covered(a),
         NEW new, new \notin DOMAIN a.nodes, DOMAIN b.nodes = DOMAIN a.nodes \cup {new},
         b.nodes[new].root = h, b.nodes[h].size >= a.nodes[h].size + 1,
         \A i \in DOMAIN a.nodes : a.nodes[i].root # h => Held(b, i) = Held(a, i),
         \A i \in DOMAIN b.nodes : b.nodes[i].root = h => \A x \in Held(b, i) :
           \/ x = new
           \/ \E k \in DOMAIN a.nodes : a.nodes[k].root = h /\ x \in Held(a, k)
  PROVE  /\ Covered(b)
         /\ \A f \in DOMAIN a.nodes : Free(a, f) => Free(b, f)
<1>0. /\ \A i \in DOMAIN a.nodes : /\ i \in DOMAIN b.nodes
                                   /\ b.nodes[i].root = a.nodes[i].root
                                   /\ b.nodes[i].size >= a.nodes[i].size
      /\ \A i \in DOMAIN b.nodes : b.nodes[i].root # h => i \in DOMAIN a.nodes
      /\ \A i : Held(a, i) \subseteq DOMAIN a.nodes
  BY DEF Extends, Held
<1>1. ASSUME NEW f \in DOMAIN a.nodes, Free(a, f)
      PROVE  Free(b, f)
  <2> SUFFICES ASSUME NEW i \in DOMAIN b.nodes, b.nodes[i].root # f, NEW x \in Held(b, i)
               PROVE  b.nodes[x].root # f
    BY DEF Free
  <2>1. CASE b.nodes[i].root # h
    BY <1>0, <1>1, <2>1 DEF Free
  <2>2. CASE b.nodes[i].root = h /\ x = new
    BY <2>2
  <2>3. CASE b.nodes[i].root = h /\ x # new
    <3>1. PICK k \in DOMAIN a.nodes : a.nodes[k].root = h /\ x \in Held(a, k)
      BY <2>3
    <3>2. QED
      BY <1>0, <1>1, <2>3, <3>1 DEF Free
  <2>4. QED
    BY <2>1, <2>2, <2>3
<1>2. ASSUME NEW r \in DOMAIN b.nodes, b.nodes[r].root = r
      PROVE  \E C : Covers(b, r, C)
  <2>1. r \in DOMAIN a.nodes /\ a.nodes[r].root = r
    BY <1>0, <1>2
  <2>2. PICK C : Covers(a, r, C)
    BY <2>1 DEF Covered
  <2>3. /\ IsFiniteSet(C) /\ Cardinality(C) \in Nat /\ C \subseteq DOMAIN a.nodes
        /\ a.nodes[r].size \in Nat /\ b.nodes[r].size \in Nat
    BY <2>1, <2>2, <1>0, Sizes DEF Covers
  <2>4. CASE r = h
    <3> DEFINE D == C \cup {new}
    <3>1. Cardinality(D) = Cardinality(C) + 1
      BY <2>3, FS_AddElement
    <3>2. Cardinality(D) <= b.nodes[r].size
      BY <2>2, <2>3, <2>4, <3>1 DEF Covers
    <3>3. D \subseteq DOMAIN b.nodes
      BY <2>3
    <3>4. Family(b, r) \subseteq D
      BY <1>0, <2>2 DEF Covers, Family
    <3>5. ASSUME NEW i \in D, NEW x \in Held(b, i)
          PROVE  x \in D
      <4>1. CASE b.nodes[i].root = h
        <5>1. CASE x = new
          BY <5>1
        <5>2. CASE x # new
          <6>1. PICK k \in DOMAIN a.nodes : a.nodes[k].root = h /\ x \in Held(a, k)
            BY <3>3, <4>1, <5>2
          <6>2. k \in C
            BY <2>2, <2>4, <6>1 DEF Covers, Family
          <6>3. QED
            BY <2>2, <6>1, <6>2 DEF Covers
        <5>3. QED
          BY <5>1, <5>2
      <4>2. CASE b.nodes[i].root # h
        <5>1. i \in C /\ x \in Held(a, i)
          BY <1>0, <2>3, <3>3, <4>2
        <5>2. QED
          BY <2>2, <5>1 DEF Covers
      <4>3. QED
        BY <4>1, <4>2
    <3>6. QED
      BY <3>2, <3>3, <3>4, <3>5 DEF Covers
  <2>5. CASE r # h
    <3> DEFINE D == {i \in C : a.nodes[i].root # h}
    <3>1. D \subseteq C /\ Cardinality(D) <= Cardinality(C) /\ Cardinality(D) \in Nat
      BY <2>3, FS_Subset, Sizes
    <3>2. Cardinality(D) <= b.nodes[r].size
      <4>1. b.nodes[r].size >= a.nodes[r].size /\ Cardinality(C) <= a.nodes[r].size
        BY <1>0, <2>1, <2>2 DEF Covers
      <4>2. QED
        BY <2>3, <3>1, <4>1
    <3>3. D \subseteq DOMAIN b.nodes
      BY <2>3
    <3>4. Family(b, r) \subseteq D
      BY <1>0, <2>2, <2>5 DEF Covers, Family
    <3>5. ASSUME NEW i \in D, NEW x \in Held(b, i)
          PROVE  x \in D
      <4>1. i \in C /\ i \in DOMAIN a.nodes /\ a.nodes[i].root # h /\ x \in Held(a, i)
        BY <2>3
      <4>2. x \in C /\ a.nodes[x].root # h
        BY <2>2, <4>1 DEF Covers, Free
      <4>3. QED
        BY <4>2
    <3>6. QED
      BY <3>2, <3>3, <3>4, <3>5 DEF Covers
  <2>6. QED
    BY <2>4, <2>5
<1>3. QED
  BY <1>1, <1>2 DEF Covered

\* A term more, counted if it was built in another expression.
LEMMA GrowsOver ==
  ASSUME NEW a, NEW b, Sound(a), Sound(b), Extends(a, b), NEW e \in DOMAIN a.nodes,
         NEW w \in DOMAIN a.nodes, Covered(a), DOMAIN b.nodes = DOMAIN a.nodes,
         LET h == a.nodes[e].root
             g == a.nodes[w].root
         IN  Free(a, h) /\ (g # h => b.nodes[h].size >= a.nodes[h].size + a.nodes[g].size),
         \A i \in DOMAIN a.nodes \ {e} : Held(b, i) = Held(a, i),
         \A x \in Held(b, e) : x = w \/ x \in Held(a, e)
  PROVE  /\ Covered(b)
         /\ \A f \in DOMAIN a.nodes : Free(a, f) /\ (f # a.nodes[w].root \/ f = a.nodes[e].root)
                                        => Free(b, f)
<1> DEFINE h == a.nodes[e].root
           g == a.nodes[w].root
<1>0. /\ \A i \in DOMAIN a.nodes : /\ b.nodes[i].root = a.nodes[i].root
                                   /\ b.nodes[i].size >= a.nodes[i].size
      /\ \A i : Held(a, i) \subseteq DOMAIN a.nodes
      /\ h \in DOMAIN a.nodes /\ a.nodes[h].root = h /\ g \in DOMAIN a.nodes /\ a.nodes[g].root = g
  BY Sizes DEF Extends, Held
<1>1. ASSUME NEW f \in DOMAIN a.nodes, Free(a, f), f # g \/ f = h
      PROVE  Free(b, f)
  <2> SUFFICES ASSUME NEW i \in DOMAIN b.nodes, b.nodes[i].root # f, NEW x \in Held(b, i)
               PROVE  b.nodes[x].root # f
    BY DEF Free
  <2>1. x \in Held(a, i) => b.nodes[x].root # f
    BY <1>0, <1>1 DEF Free
  <2>2. CASE i = e /\ x = w
    BY <1>0, <1>1, <2>2
  <2>3. QED
    BY <2>1, <2>2
<1>2. ASSUME NEW r \in DOMAIN b.nodes, b.nodes[r].root = r
      PROVE  \E C : Covers(b, r, C)
  <2>1. r \in DOMAIN a.nodes /\ a.nodes[r].root = r
    BY <1>0, <1>2
  <2>2. PICK C : Covers(a, r, C)
    BY <2>1 DEF Covered
  <2>3. /\ IsFiniteSet(C) /\ Cardinality(C) \in Nat /\ C \subseteq DOMAIN a.nodes
        /\ a.nodes[r].size \in Nat /\ b.nodes[r].size \in Nat
    BY <2>1, <2>2, <1>0, Sizes DEF Covers
  <2>4. CASE r = h /\ g = h
    <3>1. Family(b, r) = Family(a, r)
      BY <1>0 DEF Family
    <3>2. w \in C
      BY <2>2, <2>4 DEF Covers, Family
    <3>3. \A i \in C : Held(b, i) \subseteq C
      BY <2>2, <2>3, <3>2 DEF Covers
    <3>4. Cardinality(C) <= b.nodes[r].size
      BY <1>0, <2>1, <2>2, <2>3 DEF Covers
    <3>5. QED
      BY <2>2, <3>1, <3>3, <3>4 DEF Covers
  <2>5. CASE r = h /\ g # h
    <3>1. PICK G : Covers(a, g, G)
      BY <1>0 DEF Covered
    <3> DEFINE D == C \cup G
    <3>2. IsFiniteSet(G) /\ G \subseteq DOMAIN a.nodes /\ a.nodes[g].size \in Nat
      BY <1>0, <3>1, Sizes DEF Covers
    <3>3. Cardinality(D) <= b.nodes[r].size
      <4>1. /\ Cardinality(D) <= Cardinality(C) + Cardinality(G) /\ Cardinality(D) \in Nat
            /\ Cardinality(G) \in Nat
        BY <2>3, <3>2, TwoSets
      <4>2. /\ Cardinality(C) <= a.nodes[r].size /\ Cardinality(G) <= a.nodes[g].size
            /\ b.nodes[r].size >= a.nodes[r].size + a.nodes[g].size
        BY <2>2, <2>5, <3>1 DEF Covers
      <4>3. QED
        BY <2>3, <3>2, <4>1, <4>2
    <3>4. w \in G
      BY <3>1 DEF Covers, Family
    <3>5. \A i \in D : Held(b, i) \subseteq D
      BY <2>2, <2>3, <3>1, <3>2, <3>4 DEF Covers
    <3>6. D \subseteq DOMAIN b.nodes /\ Family(b, r) \subseteq D
      BY <1>0, <2>2, <2>3, <3>2 DEF Covers, Family
    <3>7. QED
      BY <3>3, <3>5, <3>6 DEF Covers
  <2>6. CASE r # h
    <3> DEFINE D == {i \in C : a.nodes[i].root # h}
    <3>1. D \subseteq C /\ Cardinality(D) <= Cardinality(C) /\ Cardinality(D) \in Nat
      BY <2>3, FS_Subset, Sizes
    <3>2. Cardinality(D) <= b.nodes[r].size
      <4>1. b.nodes[r].size >= a.nodes[r].size /\ Cardinality(C) <= a.nodes[r].size
        BY <1>0, <2>1, <2>2 DEF Covers
      <4>2. QED
        BY <2>3, <3>1, <4>1
    <3>3. D \subseteq DOMAIN b.nodes
      BY <2>3
    <3>4. Family(b, r) \subseteq D
      BY <1>0, <2>2, <2>6 DEF Covers, Family
    <3>5. ASSUME NEW i \in D, NEW x \in Held(b, i)
          PROVE  x \in D
      <4>1. i \in C /\ i \in DOMAIN a.nodes /\ a.nodes[i].root # h /\ x \in Held(a, i)
        BY <2>3
      <4>2. x \in C /\ a.nodes[x].root # h
        BY <2>2, <4>1 DEF Covers, Free
      <4>3. QED
        BY <4>2
    <3>6. QED
      BY <3>2, <3>3, <3>4, <3>5 DEF Covers
  <2>7. QED
    BY <2>4, <2>5, <2>6
<1>3. QED
  BY <1>1, <1>2 DEF Covered

\* From one arena to the next: what was counted is, and but for those taken an
\* expression that was free is free.
Grown(a, b, taken) ==
  Covered(b) /\ Kindred(b) /\ \A f \in DOMAIN a.nodes \ taken : Free(a, f) => Free(b, f)

LEMMA GrowsBetween ==
  ASSUME NEW a, NEW b, Sound(a), Sound(b), Extends(a, b), Closed(a), NEW v, Live(a, v),
         Free(a, Root(a, v)), Covered(a), Kindred(a), Between(a, b, v), NEW new,
         new = Len(a.nodes) + 1, b.nodes[new].root = Root(a, v),
         b.nodes[Root(a, v)].size > a.nodes[Root(a, v)].size,
         b.nodes[v.id].op.kind \notin Brackets /\ a.nodes[v.id].op.kind \in Brackets
           => \A x \in Held(b, v.id) : x = new,
         b.nodes[new].op.kind \notin Brackets /\ Held(b, new) # {}
           => a.nodes[v.id].op.kind \notin Brackets
  PROVE  Grown(a, b, {})
<1> DEFINE h == a.nodes[v.id].root
<1>1. /\ Len(a.nodes) \in Nat /\ DOMAIN a.nodes = 1..Len(a.nodes) /\ v.id \in DOMAIN a.nodes
      /\ h \in DOMAIN a.nodes /\ a.nodes[h].root = h /\ Root(a, v) = h
      /\ a.nodes[h].size \in Nat
  BY Sizes DEF Live, Root
<1>2. /\ new \notin DOMAIN a.nodes /\ DOMAIN b.nodes = DOMAIN a.nodes \cup {new}
      /\ \A i \in DOMAIN a.nodes \ {v.id} : b.nodes[i].op = a.nodes[i].op
      /\ \A x \in Held(b, v.id) : x \in Held(a, v.id) \/ x = new
      /\ Held(b, new) \subseteq Held(a, v.id)
  <2>1. DOMAIN b.nodes = 1..new
    BY DEF Between
  <2>2. new \notin DOMAIN a.nodes /\ DOMAIN b.nodes = DOMAIN a.nodes \cup {new}
    BY <1>1, <2>1
  <2>3. QED
    BY <2>2 DEF Between, SameCell
<1>3. \A i \in DOMAIN a.nodes \ {v.id} : Held(b, i) = Held(a, i)
  <2> SUFFICES ASSUME NEW i \in DOMAIN a.nodes \ {v.id} PROVE Held(b, i) = Held(a, i)
    OBVIOUS
  <2>1. /\ DOMAIN a.nodes \subseteq DOMAIN b.nodes /\ i \in DOMAIN a.nodes
        /\ a.nodes[i].terms = b.nodes[i].terms
    BY <1>2 DEF Between, SameCell
  <2>2. QED
    BY <2>1, HeldSame
<1>4. /\ \A i \in DOMAIN a.nodes : b.nodes[i].root = a.nodes[i].root
      /\ \A i : Held(a, i) \subseteq DOMAIN a.nodes
  BY DEF Extends, Held
<1>5. Covered(b) /\ \A f \in DOMAIN a.nodes : Free(a, f) => Free(b, f)
  <2>1. b.nodes[h].size >= a.nodes[h].size + 1 /\ Free(a, h) /\ b.nodes[new].root = h
    <3>1. h \in DOMAIN b.nodes
      BY <1>1, <1>2
    <3>2. b.nodes[h].size \in Nat
      BY <3>1, Sizes
    <3>3. b.nodes[h].size > a.nodes[h].size /\ Free(a, h) /\ b.nodes[new].root = h
      BY <1>1
    <3>4. a.nodes[h].size \in Nat
      BY <1>1
    <3> HIDE DEF h
    <3>5. QED
      BY <3>2, <3>3, <3>4
  <2>2. \A i \in DOMAIN a.nodes : a.nodes[i].root # h => Held(b, i) = Held(a, i)
    BY <1>3
  <2>3. ASSUME NEW i \in DOMAIN b.nodes, b.nodes[i].root = h, NEW x \in Held(b, i), x # new
        PROVE  \E k \in DOMAIN a.nodes : a.nodes[k].root = h /\ x \in Held(a, k)
    <3>1. CASE i \in DOMAIN a.nodes \ {v.id}
      BY <1>3, <1>4, <2>3, <3>1
    <3>2. CASE i = v.id \/ i = new
      BY <1>1, <1>2, <2>3, <3>2
    <3>3. QED
      BY <1>2, <3>1, <3>2
  <2>4. \A i \in DOMAIN b.nodes : b.nodes[i].root = h => \A x \in Held(b, i) :
          \/ x = new
          \/ \E k \in DOMAIN a.nodes : a.nodes[k].root = h /\ x \in Held(a, k)
    BY <2>3
  <2> HIDE DEF h
  <2>5. /\ h \in DOMAIN a.nodes /\ a.nodes[h].root = h /\ new \notin DOMAIN a.nodes
        /\ DOMAIN b.nodes = DOMAIN a.nodes \cup {new}
    BY <1>1, <1>2
  <2>6. QED
    BY <2>1, <2>2, <2>4, <2>5, GrowsWithin
<1>6. Kindred(b)
  <2> SUFFICES ASSUME NEW i \in DOMAIN b.nodes, NEW x \in Held(b, i),
                      b.nodes[i].op.kind \notin Brackets, b.nodes[x].op.kind \notin Brackets
               PROVE  b.nodes[x].root = b.nodes[i].root
    BY DEF Kindred
  <2>1. \A k \in DOMAIN a.nodes : \A y \in Held(a, k) :
          a.nodes[k].op.kind \notin Brackets /\ a.nodes[y].op.kind \notin Brackets
            => a.nodes[y].root = a.nodes[k].root
    BY DEF Kindred
  <2>2. CASE i \in DOMAIN a.nodes \ {v.id}
    <3>1. x \in Held(a, i)
      BY <1>3, <2>2
    <3>2. CASE x = v.id
      BY <1>1, <1>4, <2>2, <3>1, <3>2 DEF Free
    <3>3. CASE x # v.id
      BY <1>2, <1>4, <2>1, <2>2, <3>1, <3>3
    <3>4. QED
      BY <3>2, <3>3
  <2>3. CASE i = v.id /\ x = new
    BY <1>1, <1>4, <2>3
  <2>4. CASE i = v.id /\ x # new
    <3>1. x \in Held(a, v.id) /\ a.nodes[v.id].op.kind \notin Brackets
      BY <1>2, <2>4
    <3>2. QED
      BY <1>1, <1>2, <1>4, <2>1, <2>4, <3>1
  <2>5. CASE i = new
    <3>1. x \in Held(a, v.id) /\ a.nodes[v.id].op.kind \notin Brackets
      BY <1>2, <2>5
    <3>2. QED
      BY <1>1, <1>2, <1>4, <2>1, <2>5, <3>1
  <2>6. QED
    BY <1>2, <2>2, <2>3, <2>4, <2>5
<1>7. QED
  BY <1>5, <1>6 DEF Grown

LEMMA WrapFam ==
  ASSUME NEW a, Sound(a), Closed(a), NEW v, Live(a, v), NEW op, NEW token,
         Free(a, Root(a, v)), Covered(a), Kindred(a)
  PROVE  LET b == Wrap(a, v, op, token)
         IN  Grown(a, b, {}) /\ Sound(b) /\ Extends(a, b)
<1> DEFINE c == DupNode(a, v)
           b == UpdateExprNode(c, v, op, token, <<Newest(c)>>)
           new == Len(a.nodes) + 1
<1>1. Wrap(a, v, op, token) = b
  BY DEF Wrap
<1>2. /\ Sound(c) /\ Extends(a, c) /\ c.nodes[new].root = Root(a, v)
      /\ c.nodes[Root(a, v)].size > a.nodes[Root(a, v)].size
  BY NewNodeUnderSound DEF DupNode, Root, RootOf
<1> HIDE DEF c
<1>3. Sound(b) /\ Extends(c, b)
  BY <1>2, UpdateExprNodeSound
<1>4. Wraps(a, b, v, op, token) /\ Between(a, b, v)
  BY <1>1, WrapWraps, WrapTree
<1> HIDE DEF b
<1>5. Extends(a, b)
  BY <1>2, <1>3, ExtendsTrans
<1>6. /\ DOMAIN b.nodes = 1..new /\ b.nodes[v.id].terms = <<Handle(new)>>
      /\ b.nodes[new].op = a.nodes[v.id].op
  BY <1>4 DEF Wraps, SameCell
<1>7. \A x \in Held(b, v.id) : x = new
  BY <1>6, HeldBy DEF Handle
<1>8. /\ v.id \in DOMAIN a.nodes /\ Root(a, v) \in DOMAIN a.nodes /\ a.nodes[Root(a, v)].size \in Nat
      /\ Len(a.nodes) \in Nat /\ DOMAIN a.nodes = 1..Len(a.nodes)
  BY Sizes DEF Live, Root
<1>9. new \in DOMAIN c.nodes /\ Root(a, v) \in DOMAIN c.nodes
  <2>1. Allocates(a, c, a.nodes[v.id].op, a.nodes[v.id].token, a.nodes[v.id].terms)
    BY NewNodeUnderAllocates DEF DupNode, c
  <2>2. QED
    BY <1>8, <2>1 DEF Allocates
<1>10. b.nodes[new].root = Root(a, v) /\ b.nodes[Root(a, v)].size > a.nodes[Root(a, v)].size
  <2>1. /\ b.nodes[new].root = Root(a, v)
        /\ b.nodes[Root(a, v)].size >= c.nodes[Root(a, v)].size
    BY <1>2, <1>3, <1>9 DEF Extends
  <2>2. Root(a, v) \in DOMAIN b.nodes /\ c.nodes[Root(a, v)].size \in Nat
    BY <1>2, <1>5, <1>8, <1>9, Sizes DEF Extends
  <2>3. b.nodes[Root(a, v)].size \in Nat
    BY <1>3, <2>2, Sizes
  <2>4. QED
    BY <1>2, <1>8, <2>1, <2>2, <2>3
<1>11. new = Len(a.nodes) + 1
  OBVIOUS
<1> HIDE DEF new
<1>12. Grown(a, b, {})
  BY <1>3, <1>4, <1>5, <1>6, <1>7, <1>10, <1>11, GrowsBetween
<1>13. QED
  BY <1>1, <1>3, <1>5, <1>12

LEMMA BelowFam ==
  ASSUME NEW a, Sound(a), Closed(a), NEW v, Live(a, v), NEW op, NEW token, NEW i \in Nat \ {0},
         NEW terms, NEW V, a.nodes[v.id].terms \in Seq(V),
         Free(a, Root(a, v)), Covered(a), Kindred(a),
         \/ terms = << >>
         \/ terms = <<TermAt(a, v, i)>> /\ a.nodes[v.id].op.kind \notin Brackets
  PROVE  LET b == NewNodeUnder(a, op, token, terms, v)
             c == SetTerm(b, v, i, Newest(b))
         IN  /\ Grown(a, c, {}) /\ Sound(c) /\ Extends(a, c)
             /\ Root(c, Newest(b)) = Root(a, v)
<1> DEFINE b   == NewNodeUnder(a, op, token, terms, v)
           c   == SetTerm(b, v, i, Newest(b))
           new == Len(a.nodes) + 1
<1>1. /\ Sound(b) /\ Extends(a, b) /\ b.nodes[new].root = Root(a, v)
      /\ b.nodes[Root(a, v)].size > a.nodes[Root(a, v)].size
      /\ Allocates(a, b, op, token, terms)
  BY NewNodeUnderSound, NewNodeUnderAllocates DEF Root, RootOf
<1>2. Newest(b) = Handle(new) /\ Placing(a, c, v, op, terms)
  <2>1. terms \in {<< >>, <<TermAt(a, v, i)>>}
    OBVIOUS
  <2>2. QED
    BY <2>1, BelowTree
<1> HIDE DEF b
<1>3. Sound(c) /\ Extends(b, c)
  BY <1>1, SetTermSound
<1> HIDE DEF c
<1>4. Extends(a, c)
  BY <1>1, <1>3, ExtendsTrans
<1>5. /\ v.id \in DOMAIN a.nodes /\ Root(a, v) \in DOMAIN a.nodes /\ a.nodes[Root(a, v)].size \in Nat
      /\ Len(a.nodes) \in Nat /\ DOMAIN a.nodes = 1..Len(a.nodes)
  BY Sizes DEF Live, Root
<1>6. new \in DOMAIN b.nodes /\ Root(a, v) \in DOMAIN b.nodes
  BY <1>1, <1>5 DEF Allocates
<1>7. c.nodes[new].root = Root(a, v) /\ c.nodes[Root(a, v)].size > a.nodes[Root(a, v)].size
  <2>1. /\ c.nodes[new].root = Root(a, v)
        /\ c.nodes[Root(a, v)].size >= b.nodes[Root(a, v)].size
        /\ Root(a, v) \in DOMAIN c.nodes
    BY <1>1, <1>3, <1>6 DEF Extends
  <2>2. b.nodes[Root(a, v)].size \in Nat /\ c.nodes[Root(a, v)].size \in Nat
    BY <1>1, <1>3, <1>6, <2>1, Sizes
  <2>3. QED
    BY <1>1, <1>5, <2>1, <2>2
<1>8. Root(c, Newest(b)) = Root(a, v)
  BY <1>2, <1>7 DEF Root, Handle
<1>9. /\ Between(a, c, v) /\ c.nodes[v.id].op = a.nodes[v.id].op
      /\ c.nodes[new].terms = terms /\ new = Len(a.nodes) + 1
  BY <1>2 DEF Placing
<1> HIDE DEF new
<1>10. Held(c, new) # {} => a.nodes[v.id].op.kind \notin Brackets
  <2>1. terms = << >> => Held(c, new) = {}
    BY <1>9, HeldBy
  <2>2. QED
    BY <2>1
<1>11. Grown(a, c, {})
  BY <1>3, <1>4, <1>7, <1>9, <1>10, GrowsBetween
<1>12. QED
  BY <1>3, <1>4, <1>8, <1>11 DEF b, c

(***************************************************************************)
(* What is taken in.                                                       *)
(***************************************************************************)
Weight(a, v) == IF v.k = "node" THEN a.nodes[Root(a, v)].size ELSE 0

LEMMA AdoptWeighs ==
  ASSUME NEW a, Sound(a), NEW v, Live(a, v), NEW t,
         t.k = "node" => t.id \in DOMAIN a.nodes /\ Root(a, t) # Root(a, v)
  PROVE  LET b == Adopt(a, v, t)
         IN  b.nodes[Root(a, v)].size = a.nodes[Root(a, v)].size + Weight(a, t)
<1> DEFINE h == Root(a, v)
           n == a.nodes[h]
<1>1. h \in DOMAIN a.nodes /\ n.size \in Nat /\ IsNode(n)
  BY Sizes, Nodes DEF Live, Root, Sound
<1>2. CASE t.k = "node"
  <2>1. Adopt(a, v, t) = Grow(a, v, a.nodes[Root(a, t)].size)
    BY <1>2 DEF Adopt, Live, Root, RootOf
  <2>2. Grow(a, v, a.nodes[Root(a, t)].size).nodes
          = [a.nodes EXCEPT ![h] = [n EXCEPT !.size = n.size + a.nodes[Root(a, t)].size]]
    BY DEF Grow, Root, RootOf
  <2> DEFINE w == a.nodes[Root(a, t)].size
             m == [n EXCEPT !.size = n.size + w]
  <2>3. m.size = n.size + w
    BY <1>1 DEF IsNode
  <2>4. Weight(a, t) = w
    BY <1>2 DEF Weight
  <2> HIDE DEF m, w
  <2>5. QED
    BY <1>1, <2>1, <2>2, <2>3, <2>4 DEF m, w
<1>3. CASE t.k # "node"
  <2>1. Adopt(a, v, t) = a /\ Weight(a, t) = 0
    BY <1>3 DEF Adopt, Live, Weight
  <2>2. QED
    BY <1>1, <2>1
<1>4. QED
  BY <1>2, <1>3

\* A new expression counts itself and what it takes in.
LEMMA NewWeighs ==
  ASSUME NEW a, Sound(a), NEW op, NEW token, NEW terms, Known(a, terms)
  PROVE  LET b   == NewNode(a, op, token, terms)
             new == Len(a.nodes) + 1
         IN  /\ Sound(b) /\ Extends(a, b) /\ b.nodes[new].root = new
             /\ b.nodes[new].size >= 1 + Weight(a, Slot(terms, 1)) + Weight(a, Slot(terms, 2))
             /\ Weight(a, Slot(terms, 1)) \in Nat /\ Weight(a, Slot(terms, 2)) \in Nat
<1> DEFINE new == Len(a.nodes) + 1
           v   == Handle(new)
           s   == Slot(terms, 1)
           t   == Slot(terms, 2)
           c0  == Added(a, op, token, terms, new)
           c1  == Adopt(c0, v, s)
           c2  == Adopt(c1, v, t)
           c3  == Adopt(c2, v, Slot(terms, 3))
<1>1. /\ Len(a.nodes) \in Nat /\ DOMAIN a.nodes = 1..Len(a.nodes) /\ IsSeq(a.nodes)
      /\ new \notin DOMAIN a.nodes
  BY Nodes DEF Sound
<1>2. /\ Sound(c0) /\ Extends(a, c0) /\ DOMAIN c0.nodes = 1..new /\ Len(c0.nodes) = new
      /\ c0.nodes[new].root = new /\ c0.nodes[new].size = 1
  <2> DEFINE n == [op |-> op, token |-> token, terms |-> terms, root |-> new, size |-> 1]
  <2>1. c0.nodes = Append(a.nodes, n)
    BY AddedShape
  <2>2. n.root = new /\ n.size = 1
    OBVIOUS
  <2>3. Sound(c0) /\ Extends(a, c0)
    BY StartedSound
  <2> HIDE DEF n, c0
  <2>4. QED
    BY <1>1, <2>1, <2>2, <2>3, SeqAppend
<1>3. NewNode(a, op, token, terms) = c3
  <2>1. Newest(c0) = v
    BY <1>2 DEF Newest
  <2> HIDE DEF c0
  <2>2. c3 = AdoptAll(c0, v, terms)
    BY DEF AdoptAll
  <2>3. NewNode(a, op, token, terms) = AdoptAll(c0, Newest(c0), terms)
    BY DEF NewNode, c0
  <2> HIDE DEF c3
  <2>4. QED
    BY <2>1, <2>2, <2>3
<1>4. ASSUME NEW x, x \in {s, t}
      PROVE  /\ x.k = "node" => x.id \in DOMAIN a.nodes /\ Root(a, x) \in DOMAIN a.nodes
             /\ Weight(a, x) \in Nat
  <2>1. x.k = "node" => x.id \in DOMAIN a.nodes
    BY <1>4 DEF Slot, Undefined, Known
  <2>2. QED
    BY <2>1, Sizes DEF Root, Weight
<1>5. ASSUME NEW c, Sound(c), Extends(c0, c), NEW x \in {s, t}
      PROVE  /\ Live(c, v) /\ Root(c, v) = new
             /\ x.k = "node" => x.id \in DOMAIN c.nodes /\ Root(c, x) # new
             /\ Weight(c, x) >= Weight(a, x) /\ Weight(c, x) \in Nat
             /\ c.nodes[new].size \in Nat
  <2>1. Extends(a, c)
    BY <1>2, <1>5, ExtendsTrans
  <2>2. new \in DOMAIN c.nodes /\ c.nodes[new].root = new
    BY <1>1, <1>2, <1>5 DEF Extends
  <2>3. Live(c, v) /\ Root(c, v) = new
    BY <2>2 DEF Live, Root, Handle
  <2>4. CASE x.k = "node"
    <3>1. x.id \in DOMAIN a.nodes /\ Root(a, x) \in DOMAIN a.nodes
      BY <1>4, <2>4
    <3>2. x.id \in DOMAIN c.nodes /\ Root(c, x) = Root(a, x)
      BY <2>1, <3>1 DEF Extends, Root
    <3>3. c.nodes[Root(a, x)].size >= a.nodes[Root(a, x)].size /\ Root(a, x) \in DOMAIN c.nodes
      BY <2>1, <3>1 DEF Extends
    <3>4. /\ Root(a, x) # new /\ c.nodes[Root(a, x)].size \in Nat
          /\ c.nodes[new].size \in Nat
      BY <1>1, <1>5, <2>2, <3>1, <3>3, Sizes
    <3>5. Weight(c, x) = c.nodes[Root(a, x)].size /\ Weight(a, x) = a.nodes[Root(a, x)].size
      BY <2>4, <3>2 DEF Weight
    <3>6. QED
      BY <2>3, <3>2, <3>3, <3>4, <3>5
  <2>5. CASE x.k # "node"
    BY <1>5, <2>2, <2>3, <2>5, Sizes DEF Weight
  <2>6. QED
    BY <2>4, <2>5
<1> HIDE DEF new, v, s, t, c0
<1>6. /\ Sound(c1) /\ Extends(c0, c1)
      /\ c1.nodes[new].size = c0.nodes[new].size + Weight(c0, s)
  <2>1. Extends(c0, c0)
    BY <1>2, ExtendsSelf
  <2>2. /\ Live(c0, v) /\ Root(c0, v) = new
        /\ s.k = "node" => s.id \in DOMAIN c0.nodes /\ Root(c0, s) # Root(c0, v)
    BY <1>2, <1>5, <2>1
  <2>3. Sound(c1) /\ Extends(c0, c1)
    BY <1>2, AdoptSound
  <2>4. c1.nodes[Root(c0, v)].size = c0.nodes[Root(c0, v)].size + Weight(c0, s)
    BY <1>2, <2>2, AdoptWeighs
  <2>5. QED
    BY <2>2, <2>3, <2>4
<1> HIDE DEF c1
<1>7. /\ Sound(c2) /\ Extends(c0, c2)
      /\ c2.nodes[new].size = c1.nodes[new].size + Weight(c1, t)
  <2>1. /\ Live(c1, v) /\ Root(c1, v) = new
        /\ t.k = "node" => t.id \in DOMAIN c1.nodes /\ Root(c1, t) # Root(c1, v)
    BY <1>5, <1>6
  <2>2. Sound(c2) /\ Extends(c1, c2)
    BY <1>6, AdoptSound
  <2>3. c2.nodes[Root(c1, v)].size = c1.nodes[Root(c1, v)].size + Weight(c1, t)
    BY <1>6, <2>1, AdoptWeighs
  <2>4. Extends(c0, c2)
    BY <1>2, <1>6, <2>2, ExtendsTrans
  <2>5. QED
    BY <2>1, <2>2, <2>3, <2>4
<1> HIDE DEF c2
<1>8. Sound(c3) /\ Extends(c2, c3)
  BY <1>7, AdoptSound
<1> HIDE DEF c3
<1>9. Extends(a, c3) /\ Extends(c0, c3)
  BY <1>2, <1>7, <1>8, ExtendsTrans
<1>10. c3.nodes[new].root = new /\ c3.nodes[new].size >= c2.nodes[new].size
  <2>1. new \in DOMAIN c0.nodes /\ new \in DOMAIN c2.nodes
    <3>1. new \in 1..new
      BY <1>1 DEF new
    <3>2. QED
      BY <1>2, <1>7, <3>1 DEF Extends
  <2>2. QED
    BY <1>2, <1>8, <1>9, <2>1 DEF Extends
<1>11. /\ Weight(a, s) \in Nat /\ Weight(a, t) \in Nat
       /\ Weight(c0, s) >= Weight(a, s) /\ Weight(c0, s) \in Nat
       /\ Weight(c1, t) >= Weight(a, t) /\ Weight(c1, t) \in Nat
       /\ c1.nodes[new].size \in Nat /\ c2.nodes[new].size \in Nat /\ c3.nodes[new].size \in Nat
  <2>1. Extends(c0, c0)
    BY <1>2, ExtendsSelf
  <2>2. QED
    BY <1>2, <1>4, <1>5, <1>6, <1>7, <1>8, <1>9, <2>1
<1>12. c3.nodes[new].size >= 1 + Weight(a, s) + Weight(a, t)
  BY <1>2, <1>6, <1>7, <1>10, <1>11
<1>13. QED
  BY <1>3, <1>8, <1>9, <1>10, <1>11, <1>12 DEF new, s, t

\* A new expression, of what is in two sets that have all that they hold.
LEMMA GrowsNew ==
  ASSUME NEW a, NEW b, Sound(a), Sound(b), Extends(a, b), Covered(a),
         NEW new, new \notin DOMAIN a.nodes, DOMAIN b.nodes = DOMAIN a.nodes \cup {new},
         \A i \in DOMAIN a.nodes : Held(b, i) = Held(a, i), b.nodes[new].root = new,
         NEW C, NEW D, C \cup D \subseteq DOMAIN a.nodes, Held(b, new) \subseteq C \cup D,
         \A i \in C : Held(a, i) \subseteq C, \A i \in D : Held(a, i) \subseteq D,
         1 + Cardinality(C) + Cardinality(D) <= b.nodes[new].size
  PROVE  /\ Covered(b) /\ Free(b, new)
         /\ \A f \in DOMAIN a.nodes :
              Free(a, f) /\ (\A x \in Held(b, new) : a.nodes[x].root # f) => Free(b, f)
<1>0. /\ \A i \in DOMAIN a.nodes : /\ i \in DOMAIN b.nodes /\ i # new
                                   /\ b.nodes[i].root = a.nodes[i].root
                                   /\ a.nodes[i].root \in DOMAIN a.nodes
                                   /\ b.nodes[i].size >= a.nodes[i].size
      /\ \A i : Held(a, i) \subseteq DOMAIN a.nodes
  BY Sizes DEF Extends, Held
<1>1. Free(b, new)
  <2> SUFFICES ASSUME NEW i \in DOMAIN b.nodes, b.nodes[i].root # new, NEW x \in Held(b, i)
               PROVE  b.nodes[x].root # new
    BY DEF Free
  <2>1. i \in DOMAIN a.nodes /\ x \in DOMAIN a.nodes
    BY <1>0
  <2>2. QED
    BY <1>0, <2>1
<1>2. ASSUME NEW f \in DOMAIN a.nodes, Free(a, f), \A x \in Held(b, new) : a.nodes[x].root # f
      PROVE  Free(b, f)
  <2> SUFFICES ASSUME NEW i \in DOMAIN b.nodes, b.nodes[i].root # f, NEW x \in Held(b, i)
               PROVE  b.nodes[x].root # f
    BY DEF Free
  <2>1. CASE i = new
    BY <1>0, <1>2, <2>1
  <2>2. CASE i # new
    BY <1>0, <1>2, <2>2 DEF Free
  <2>3. QED
    BY <2>1, <2>2
<1>3. ASSUME NEW r \in DOMAIN b.nodes, b.nodes[r].root = r
      PROVE  \E S : Covers(b, r, S)
  <2>1. CASE r = new
    <3> DEFINE B == C \cup D
               S == B \cup {new}
    <3>1. /\ IsFiniteSet(C) /\ IsFiniteSet(D) /\ IsFiniteSet(B) /\ new \notin B
          /\ Cardinality(C) \in Nat /\ Cardinality(D) \in Nat /\ Cardinality(B) \in Nat
          /\ b.nodes[new].size \in Nat
      BY <1>0, <2>1, Sizes
    <3>2. Cardinality(B) <= Cardinality(C) + Cardinality(D)
      BY <3>1, TwoSets
    <3>3. Cardinality(S) = Cardinality(B) + 1
      BY <3>1, FS_AddElement
    <3>4. Cardinality(S) <= b.nodes[r].size
      <4> HIDE DEF B, S
      <4>1. QED
        BY <2>1, <3>1, <3>2, <3>3
    <3>5. S \subseteq DOMAIN b.nodes /\ Family(b, r) \subseteq S
      BY <1>0, <2>1 DEF Family
    <3>6. \A i \in S : Held(b, i) \subseteq S
      OBVIOUS
    <3>7. QED
      BY <3>4, <3>5, <3>6 DEF Covers
  <2>2. CASE r # new
    <3>1. r \in DOMAIN a.nodes /\ a.nodes[r].root = r
      BY <1>0, <1>3, <2>2
    <3>2. PICK S : Covers(a, r, S)
      BY <3>1 DEF Covered
    <3>3. /\ Cardinality(S) \in Nat /\ a.nodes[r].size \in Nat /\ b.nodes[r].size \in Nat
          /\ b.nodes[r].size >= a.nodes[r].size /\ Cardinality(S) <= a.nodes[r].size
      BY <1>0, <3>1, <3>2, Sizes DEF Covers
    <3>4. Cardinality(S) <= b.nodes[r].size
      BY <3>3
    <3>5. Family(b, r) = Family(a, r)
      BY <1>0, <2>2 DEF Family
    <3>6. QED
      BY <3>2, <3>4, <3>5 DEF Covers
  <2>3. QED
    BY <2>1, <2>2
<1>4. QED
  BY <1>1, <1>2, <1>3 DEF Covered

\* All that a value leads to weighs no more than it counts.
LEMMA WeightCovers ==
  ASSUME NEW a, Sound(a), Covered(a), NEW v, v.k = "node" => v.id \in DOMAIN a.nodes
  PROVE  \E C : /\ C \subseteq DOMAIN a.nodes /\ (v.k = "node" => v.id \in C)
                /\ \A i \in C : Held(a, i) \subseteq C
                /\ Cardinality(C) <= Weight(a, v) /\ Cardinality(C) \in Nat
<1>1. CASE v.k = "node"
  <2>1. /\ v.id \in DOMAIN a.nodes /\ Root(a, v) \in DOMAIN a.nodes
        /\ a.nodes[Root(a, v)].root = Root(a, v)
    BY <1>1, Sizes DEF Root
  <2>2. PICK C : Covers(a, Root(a, v), C)
    BY <2>1 DEF Covered
  <2>3. v.id \in C /\ Cardinality(C) \in Nat
    BY <2>1, <2>2, Sizes DEF Covers, Family, Root
  <2>4. QED
    BY <1>1, <2>2, <2>3 DEF Covers, Weight
<1>2. CASE v.k # "node"
  <2>1. Cardinality({}) = 0
    BY FS_EmptySet
  <2>2. QED
    BY <1>2, <2>1 DEF Weight
<1>3. QED
  BY <1>1, <1>2

LEMMA NewFam ==
  ASSUME NEW a, Sound(a), Closed(a), Covered(a), Kindred(a), NEW op, NEW token, NEW terms,
         Known(a, terms), DOMAIN terms \subseteq {1, 2},
         op.kind \in Brackets \/ \A j \in DOMAIN terms : terms[j].k # "node",
         NEW taken, \A j \in DOMAIN terms : terms[j].k = "node" => Root(a, terms[j]) \in taken
  PROVE  LET b   == NewNode(a, op, token, terms)
             new == Len(a.nodes) + 1
         IN  /\ Sound(b) /\ Extends(a, b) /\ Grown(a, b, taken) /\ Free(b, new)
             /\ new \notin DOMAIN a.nodes /\ Newest(b) = Handle(new) /\ Root(b, Handle(new)) = new
             /\ new \in DOMAIN b.nodes /\ b.nodes[new].op = op
<1> DEFINE b   == NewNode(a, op, token, terms)
           new == Len(a.nodes) + 1
           s   == Slot(terms, 1)
           t   == Slot(terms, 2)
<1>1. /\ Sound(b) /\ Extends(a, b) /\ b.nodes[new].root = new
      /\ b.nodes[new].size >= 1 + Weight(a, s) + Weight(a, t)
      /\ Weight(a, s) \in Nat /\ Weight(a, t) \in Nat
  BY NewWeighs
<1>2. Allocates(a, b, op, token, terms)
  BY NewNodeAllocates
<1> HIDE DEF b
<1>3. /\ new \notin DOMAIN a.nodes /\ DOMAIN b.nodes = DOMAIN a.nodes \cup {new}
      /\ \A i \in DOMAIN a.nodes : Held(b, i) = Held(a, i)
      /\ \A x \in Held(b, new) : /\ x \in DOMAIN a.nodes
                                 /\ \E j \in DOMAIN terms : terms[j].k = "node" /\ terms[j].id = x
  BY <1>2, AllocatesHeld
<1>4. b.nodes[new].op = op /\ \A i \in DOMAIN a.nodes : b.nodes[i].op = a.nodes[i].op
  BY <1>2 DEF Allocates, SameCell
<1>5. Newest(b) = Handle(new)
  BY <1>2 DEF Allocates, Newest
<1>6. /\ s.k = "node" => s.id \in DOMAIN a.nodes
      /\ t.k = "node" => t.id \in DOMAIN a.nodes
  BY DEF Known, Slot, Undefined
<1>7. b.nodes[new].size \in Nat
  BY <1>1, <1>3, Sizes
<1> HIDE DEF new
<1>8. PICK C : /\ C \subseteq DOMAIN a.nodes /\ (s.k = "node" => s.id \in C)
               /\ \A i \in C : Held(a, i) \subseteq C
               /\ Cardinality(C) <= Weight(a, s) /\ Cardinality(C) \in Nat
  BY <1>6, WeightCovers
<1>9. PICK D : /\ D \subseteq DOMAIN a.nodes /\ (t.k = "node" => t.id \in D)
               /\ \A i \in D : Held(a, i) \subseteq D
               /\ Cardinality(D) <= Weight(a, t) /\ Cardinality(D) \in Nat
  BY <1>6, WeightCovers
<1>10. Held(b, new) \subseteq C \cup D
  <2> SUFFICES ASSUME NEW x \in Held(b, new) PROVE x \in C \cup D
    OBVIOUS
  <2>1. PICK j \in DOMAIN terms : terms[j].k = "node" /\ terms[j].id = x
    BY <1>3
  <2>2. (j = 1 /\ terms[j] = s) \/ (j = 2 /\ terms[j] = t)
    BY DEF Slot
  <2> HIDE DEF s, t
  <2>3. QED
    BY <1>8, <1>9, <2>1, <2>2
<1>11. 1 + Cardinality(C) + Cardinality(D) <= b.nodes[new].size
  <2> HIDE DEF s, t
  <2>1. QED
    BY <1>1, <1>7, <1>8, <1>9
<1>12. C \cup D \subseteq DOMAIN a.nodes
  BY <1>8, <1>9
<1> HIDE DEF s, t
<1>13. /\ Covered(b) /\ Free(b, new)
       /\ \A f \in DOMAIN a.nodes :
            Free(a, f) /\ (\A x \in Held(b, new) : a.nodes[x].root # f) => Free(b, f)
  BY <1>1, <1>3, <1>8, <1>9, <1>10, <1>11, <1>12, GrowsNew
<1>14. \A f \in DOMAIN a.nodes \ taken : Free(a, f) => Free(b, f)
  <2>1. \A x \in Held(b, new) : a.nodes[x].root \in taken
    BY <1>3 DEF Root
  <2>2. QED
    BY <1>13, <2>1
<1>15. Kindred(b)
  <2> SUFFICES ASSUME NEW i \in DOMAIN b.nodes, NEW x \in Held(b, i),
                      b.nodes[i].op.kind \notin Brackets, b.nodes[x].op.kind \notin Brackets
               PROVE  b.nodes[x].root = b.nodes[i].root
    BY DEF Kindred
  <2>1. i # new
    BY <1>3, <1>4
  <2>2. i \in DOMAIN a.nodes /\ x \in Held(a, i) /\ x \in DOMAIN a.nodes
    BY <1>3, <2>1 DEF Held
  <2>3. QED
    BY <1>1, <1>4, <2>2 DEF Kindred, Extends
<1>16. Root(b, Handle(new)) = new /\ new \in DOMAIN b.nodes
  BY <1>1, <1>3 DEF Root, Handle
<1>17. QED
  BY <1>1, <1>3, <1>4, <1>5, <1>13, <1>14, <1>15, <1>16 DEF Grown, b, new

LEMMA PushFam ==
  ASSUME NEW a, Sound(a), Closed(a), Covered(a), Kindred(a), NEW v, Live(a, v), NEW w, NEW V,
         a.nodes[v.id].terms \in Seq(V), Free(a, Root(a, v)),
         w.k = "node" => /\ w.id \in DOMAIN a.nodes /\ Root(a, w) # Root(a, v)
                         /\ a.nodes[w.id].op.kind \in Brackets
  PROVE  LET b == PushTerm(a, v, w)
         IN  /\ Sound(b) /\ Extends(a, b)
             /\ Grown(a, b, IF w.k = "node" THEN {Root(a, w)} ELSE {})
<1> DEFINE b  == PushTerm(a, v, w)
           h  == a.nodes[v.id].root
           b1 == Adopt(a, v, w)
<1>1. Sound(b) /\ Extends(a, b) /\ Pushes(a, b, v, w)
  BY PushTermSound, PushTree
<1>2. /\ v.id \in DOMAIN a.nodes /\ h \in DOMAIN a.nodes /\ a.nodes[h].root = h /\ Root(a, v) = h
      /\ a.nodes[h].size \in Nat
  BY Sizes DEF Live, Root
<1>3. b.nodes[h].size >= a.nodes[h].size + Weight(a, w) /\ Weight(a, w) \in Nat
  <2>1. b1.nodes[Root(a, v)].size = a.nodes[Root(a, v)].size + Weight(a, w)
    BY AdoptWeighs
  <2>2. b = WithTerms(b1, v, Append(Terms(a, v), w))
    BY DEF PushTerm
  <2>3. Sound(b1) /\ DOMAIN b1.nodes = DOMAIN a.nodes
    BY AdoptSound
  <2> HIDE DEF b1
  <2>4. Extends(b1, b)
    BY <2>2, <2>3, WithTermsSound
  <2> HIDE DEF b, h
  <2>5. b.nodes[h].size >= b1.nodes[h].size
    BY <1>2, <2>3, <2>4 DEF Extends
  <2>6. Weight(a, w) \in Nat
    BY Sizes DEF Weight, Root
  <2>7. b1.nodes[h].size \in Nat /\ b.nodes[h].size \in Nat
    BY <1>1, <1>2, <2>3, Sizes DEF Extends
  <2>8. QED
    BY <1>2, <2>1, <2>5, <2>6, <2>7
<1> HIDE DEF b
<1>4. /\ DOMAIN b.nodes = DOMAIN a.nodes
      /\ \A i \in DOMAIN a.nodes : b.nodes[i].op = a.nodes[i].op
      /\ \A i \in DOMAIN a.nodes \ {v.id} : Held(b, i) = Held(a, i)
      /\ \A x \in Held(b, v.id) : x \in Held(a, v.id) \/ (w.k = "node" /\ w.id = x)
  BY <1>1 DEF Pushes
<1>5. Covered(b) /\ \A f \in DOMAIN a.nodes \ (IF w.k = "node" THEN {Root(a, w)} ELSE {}) :
                      Free(a, f) => Free(b, f)
  <2> DEFINE x == IF w.k = "node" THEN w.id ELSE v.id
  <2>1. /\ x \in DOMAIN a.nodes
        /\ Free(a, a.nodes[v.id].root)
        /\ a.nodes[x].root # a.nodes[v.id].root =>
             b.nodes[a.nodes[v.id].root].size
               >= a.nodes[a.nodes[v.id].root].size + a.nodes[a.nodes[x].root].size
    <3>1. CASE w.k = "node"
      BY <1>2, <1>3, <3>1 DEF Weight, Root
    <3>2. CASE w.k # "node"
      BY <1>2, <3>2
    <3>3. QED
      BY <3>1, <3>2
  <2>2. \A y \in Held(b, v.id) : y = x \/ y \in Held(a, v.id)
    BY <1>4
  <2>3. w.k = "node" => a.nodes[x].root = Root(a, w)
    BY DEF Root
  <2>4. w.k # "node" => a.nodes[x].root = a.nodes[v.id].root
    OBVIOUS
  <2> HIDE DEF x
  <2>5. /\ Covered(b)
        /\ \A f \in DOMAIN a.nodes :
             Free(a, f) /\ (f # a.nodes[x].root \/ f = a.nodes[v.id].root) => Free(b, f)
    BY <1>1, <1>2, <1>4, <2>1, <2>2, GrowsOver
  <2>6. QED
    BY <2>3, <2>4, <2>5
<1>6. Kindred(b)
  <2> SUFFICES ASSUME NEW i \in DOMAIN b.nodes, NEW x \in Held(b, i),
                      b.nodes[i].op.kind \notin Brackets, b.nodes[x].op.kind \notin Brackets
               PROVE  b.nodes[x].root = b.nodes[i].root
    BY DEF Kindred
  <2>1. i \in DOMAIN a.nodes /\ x \in DOMAIN a.nodes
    BY <1>4 DEF Held
  <2>2. x \in Held(a, i)
    BY <1>4, <2>1
  <2>3. QED
    BY <1>1, <1>4, <2>1, <2>2 DEF Kindred, Extends
<1>7. QED
  BY <1>1, <1>5, <1>6 DEF Grown, b

LEMMA TreeCovered ==
  ASSUME NEW a, Sound(a), Covered(a), NEW v, Live(a, v)
  PROVE  /\ Root(a, v) \in DOMAIN a.nodes /\ a.nodes[Root(a, v)].size \in Nat
         /\ Cardinality(Tree(a, v)) \in Nat
         /\ Cardinality(Tree(a, v)) <= a.nodes[Root(a, v)].size
<1> DEFINE r == Root(a, v)
<1>1. /\ v.id \in DOMAIN a.nodes /\ r \in DOMAIN a.nodes /\ a.nodes[r].root = r
      /\ a.nodes[v.id].root = r /\ a.nodes[r].size \in Nat
  BY Sizes DEF Root, Live
<1>2. PICK C : Covers(a, r, C)
  BY <1>1 DEF Covered
<1>3. C \subseteq DOMAIN a.nodes /\ v.id \in C /\ Cardinality(C) <= a.nodes[r].size
      /\ \A i \in C : Held(a, i) \subseteq C
  BY <1>1, <1>2 DEF Covers, Family
<1>4. Tree(a, v) \subseteq C
  <2> DEFINE links == UNION {{i} \X Held(a, i) : i \in DOMAIN a.nodes}
  <2>1. \A l \in links : l[1] \in C => l[2] \in C
    BY <1>3
  <2>2. Tree(a, v) = Reached(a, {v.id})
    BY DEF Tree, IsOp
  <2>3. Reached(a, {v.id}) \subseteq C
    BY <1>3, <2>1 DEF Reached
  <2>4. QED
    BY <2>2, <2>3
<1>5. IsFiniteSet(C) /\ Cardinality(C) \in Nat
  BY <1>3, Sizes
<1>6. Cardinality(Tree(a, v)) <= Cardinality(C) /\ Cardinality(Tree(a, v)) \in Nat
  BY <1>3, <1>4, <1>5, FS_Subset, Sizes
<1> HIDE DEF r
<1>7. QED
  BY <1>1, <1>3, <1>5, <1>6 DEF r
=============================================================================
