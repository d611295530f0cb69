---------------------------- MODULE PrattProofs ----------------------------
(***************************************************************************)
(* The accounting of NODE_LIMIT holds for every operator table, every      *)
(* limit and every source: no rule can hand the arena anything that makes  *)
(* it lose a node, move a root or miss an expression past the limit.  The  *)
(* invariant is Sound(arena); every action changes the arena only through  *)
(* the operators of NodeArena, each of which preserves it.                 *)
(***************************************************************************)
EXTENDS ExprRules, NodeArenaProofs, WellFoundedInduction

LEMMA InitSound == Init => Sound(arena)
<1> SUFFICES ASSUME Init PROVE Sound(arena)
  OBVIOUS
<1>1. arena = [nodes |-> << >>, over_limit |-> FALSE]
  BY DEF Init, InitWith, EmptyArena
<1>2. IsSeq(<< >>) /\ DOMAIN << >> = {}
  BY EmptySeq, SeqShape DEF IsSeq
<1>3. WellRooted(arena)
  BY <1>1, <1>2 DEF WellRooted
<1>4. QED
  BY <1>1, <1>2, <1>3 DEF Sound, Flagged, OwnCounted

LEMMA SameArena ==
  ASSUME Sound(arena), arena' = arena
  PROVE  Sound(arena') /\ Extends(arena, arena')
BY ExtendsSelf

(***************************************************************************)
(* The actions of each rule.                                               *)
(***************************************************************************)
LEMMA ValSound ==
  ASSUME Sound(arena), Val_
  PROVE  Sound(arena') /\ Extends(arena, arena')
<1>1. CASE \/ ValOpenPrefix \/ ValOpenPreval \/ ValOpenParen \/ ValOpenValue \/ ValOpenEnd
           \/ ValOpenElsewhere
  BY <1>1, SameArena DEF ValOpenPrefix, ValOpenPreval, ValOpenParen, ValOpenValue, ValOpenEnd,
         ValOpenElsewhere, Halt
<1>2. CASE ValCloseTernary \/ ValCloseOperator \/ ValCloseChain \/ ValClosePop
  BY <1>2, SameArena DEF ValCloseTernary, ValCloseOperator, ValCloseChain, ValClosePop
<1>3. QED
  BY <1>1, <1>2 DEF Val_

\* Appending the final term, or leaving the expression as it is.
LEMMA CompletedSound ==
  ASSUME Sound(arena), NEW E
  PROVE  Sound(Completed(E)) /\ Extends(arena, Completed(E))
BY PushTermSound, ExtendsSelf DEF Completed

LEMMA PrattSound ==
  ASSUME Sound(arena), PrattLooser \/ PrattTighter \/ PrattPrefix
  PROVE  Sound(arena') /\ Extends(arena, arena')
<1>1. CASE PrattLooser
  BY <1>1, WrapSound DEF PrattLooser
<1>2. ASSUME NEW terms,
             LET b == NewNodeUnder(arena, pratt.op, pratt.token, terms, pratt.expr)
             IN  arena' = SetTerm(b, pratt.expr, LastPos, Newest(b))
      PROVE  Sound(arena') /\ Extends(arena, arena')
  <2> DEFINE b == NewNodeUnder(arena, pratt.op, pratt.token, terms, pratt.expr)
  <2>1. Sound(b) /\ Extends(arena, b)
    BY NewNodeUnderSound
  <2>2. arena' = SetTerm(b, pratt.expr, LastPos, Newest(b))
    BY <1>2
  <2> HIDE DEF b
  <2>3. Sound(arena') /\ Extends(b, arena')
    BY <2>1, <2>2, SetTermSound
  <2>4. QED
    BY <2>1, <2>3, ExtendsTrans
<1>3. CASE PrattTighter
  BY <1>2, <1>3 DEF PrattTighter
<1>4. CASE PrattPrefix
  BY <1>2, <1>4 DEF PrattPrefix
<1>5. QED
  BY <1>1, <1>3, <1>4

LEMMA PriorSound ==
  ASSUME Sound(arena), ExprOpenPrior
  PROVE  Sound(arena') /\ Extends(arena, arena')
<1>1. \/ \E v, op : arena' = Wrap(arena, v, op, at)
      \/ \E op, terms : arena' = NewNode(arena, op, at, terms)
  BY DEF ExprOpenPrior
<1>2. QED
  BY <1>1, WrapSound, NewNodeSound

LEMMA ExprSound ==
  ASSUME Sound(arena), Expr_
  PROVE  Sound(arena') /\ Extends(arena, arena')
<1>1. CASE ExprOpenParen \/ ExprOpenEmbed \/ PrattDrill
  BY <1>1, SameArena DEF ExprOpenParen, ExprOpenEmbed, PrattDrill
<1>2. CASE ExprOpenPrior
  BY <1>2, PriorSound
<1>3. CASE PrattLooser \/ PrattTighter \/ PrattPrefix
  BY <1>3, PrattSound
<1>4. CASE ExprCloseReplace \/ ExprClosePop
  <2>1. arena' = Completed(rules[cur])
    BY <1>4 DEF ExprCloseReplace, ExprClosePop
  <2>2. QED
    BY <2>1, CompletedSound
<1>5. QED
  BY <1>1, <1>2, <1>3, <1>4 DEF Expr_

LEMMA ParenSound ==
  ASSUME Sound(arena), Paren_
  PROVE  Sound(arena') /\ Extends(arena, arena')
<1>1. CASE ParenOpenEmpty \/ ParenOpenVal \/ ParenError
  BY <1>1, SameArena DEF ParenOpenEmpty, ParenOpenVal, ParenError, Halt
<1>2. CASE ParenClosed
  <2>1. arena' = arena \/ \E op, terms : arena' = NewNode(arena, op, at, terms)
    BY <1>2 DEF ParenClosed
  <2>2. QED
    BY <2>1, SameArena, NewNodeSound
<1>3. QED
  BY <1>1, <1>2 DEF Paren_

LEMMA BranchedSound ==
  ASSUME Sound(arena)
  PROVE  Sound(Branched) /\ Extends(arena, Branched)
BY PushTermSound DEF Branched

LEMMA TernarySound ==
  ASSUME Sound(arena), Ternary_
  PROVE  Sound(arena') /\ Extends(arena, arena')
<1>1. CASE TernaryOpenStep \/ TernaryError
  BY <1>1, SameArena DEF TernaryOpenStep, TernaryError, Halt
<1>2. CASE TernaryOpenFirst
  <2>1. \/ \E v, op : arena' = Wrap(arena, v, op, at)
        \/ \E op, terms : arena' = NewNode(arena, op, at, terms)
    BY <1>2 DEF TernaryOpenFirst
  <2>2. QED
    BY <2>1, WrapSound, NewNodeSound
<1>3. CASE TernaryCloseThen
  BY <1>3, BranchedSound DEF TernaryCloseThen
<1>4. QED
  BY <1>1, <1>2, <1>3 DEF Ternary_

\* The steps at which an implicit list may begin.
LEMMA BaseSound ==
  ASSUME Sound(arena), Base_ \/ ExprCloseEnd \/ TernaryCloseElse
  PROVE  Sound(arena') /\ Extends(arena, arena')
<1>1. CASE ValCloseBase
  BY <1>1, SameArena DEF ValCloseBase, Halt
<1>2. CASE ExprCloseBase \/ ExprCloseEnd
  <2>1. arena' = Completed(rules[cur])
    BY <1>2 DEF ExprCloseBase, ExprCloseEnd
  <2>2. QED
    BY <2>1, CompletedSound
<1>3. CASE TernaryCloseBase \/ TernaryCloseElse
  BY <1>3, BranchedSound DEF TernaryCloseBase, TernaryCloseElse
<1>4. QED
  BY <1>1, <1>2, <1>3 DEF Base_

LEMMA StepSound ==
  ASSUME Sound(arena), [Next]_vars
  PROVE  Sound(arena') /\ Extends(arena, arena')
<1>1. CASE Val_
  BY <1>1, ValSound
<1>2. CASE Expr_
  BY <1>2, ExprSound
<1>3. CASE Paren_
  BY <1>3, ParenSound
<1>4. CASE Ternary_
  BY <1>4, TernarySound
<1>5. CASE Base_ \/ ExprCloseEnd \/ TernaryCloseElse
  BY <1>5, BaseSound
<1>6. CASE Cancel \/ Over \/ UNCHANGED vars
  BY <1>6, SameArena DEF Cancel, Over, Halt, vars
<1>7. QED
  BY <1>1, <1>2, <1>3, <1>4, <1>5, <1>6 DEF Next

LEMMA ArenaSound == Spec => []Sound(arena)
<1>1. Init => Sound(arena)
  BY InitSound
<1>2. Sound(arena) /\ [Next]_vars => Sound(arena)'
  BY StepSound DEF Sound, WellRooted, Flagged, OwnCounted, Family, IsNode
<1>3. QED
  BY <1>1, <1>2, PTL DEF Spec

(***************************************************************************)
(* No expression outgrows NODE_LIMIT without the parse being flagged, for  *)
(* the budget check to refuse: no rewrite, and no expression taken into    *)
(* another, adds to a count without looking at the limit.                  *)
(***************************************************************************)
THEOREM AlwaysLimitFlagged == Spec => []LimitFlagged
<1>1. Sound(arena) => LimitFlagged
  BY DEF Sound, LimitFlagged
<1>2. QED
  BY <1>1, ArenaSound, PTL

(***************************************************************************)
(* An expression never counts fewer nodes than were built in it: no rule   *)
(* allocates a node in an expression without counting it there.            *)
(***************************************************************************)
THEOREM AlwaysOwnNodesCounted == Spec => []OwnNodesCounted
<1>1. Sound(arena) => OwnNodesCounted
  BY DEF Sound, OwnNodesCounted
<1>2. QED
  BY <1>1, ArenaSound, PTL

(***************************************************************************)
(* A node is never lost, its root is its root for the life of the          *)
(* expression, and what an expression has been counted at never goes down, *)
(* whichever operator rewrites it.                                         *)
(***************************************************************************)
THEOREM AlwaysRootsStand == Spec => RootsStand
<1>1. Sound(arena) /\ [Next]_vars =>
        [\A i \in DOMAIN arena.nodes :
           /\ i \in DOMAIN arena'.nodes
           /\ arena'.nodes[i].root = arena.nodes[i].root
           /\ arena'.nodes[i].size >= arena.nodes[i].size]_vars
  BY StepSound DEF Extends
<1>2. QED
  BY <1>1, ArenaSound, PTL DEF Spec, RootsStand

(***************************************************************************)
(* The Pratt core and the expressions that are not operands: a paren and a *)
(* ternary are looser than every operator, so the core wraps them whole,   *)
(* never descends into them, and no prefix is folded into one.             *)
(*                                                                         *)
(* The invariant relates the call under way to the table and to the arena: *)
(* every node's operator is one of the table's, the operator being         *)
(* inserted is not a paren or a ternary, and one that is a prefix was not  *)
(* given a paren or a ternary to fold into.                                *)
(***************************************************************************)

Brackets == {"paren", "ternary"}

\* The operators a table can put in a node.
BracketOps == {TernaryOp(n) : n \in DOMAIN Ternary} \cup {ParenOp(n) : n \in DOMAIN Paren}
OperandOps == {PrefixOp(t) : t \in DOMAIN Prefix} \cup {InfixOp(t) : t \in DOMAIN Infix}
                \cup {SuffixOp(t) : t \in DOMAIN Suffix}

FromTable(a) == \A i \in DOMAIN a.nodes : a.nodes[i].op \in BracketOps \cup OperandOps

CallOK ==
  pratt # NoCall =>
    /\ pratt = [kind |-> pratt.kind, op |-> pratt.op, token |-> pratt.token,
                root |-> pratt.root, expr |-> pratt.expr]
    /\ pratt.kind \in DOMAIN Opening
    /\ pratt.op \in OperandOps /\ pratt.op.kind = pratt.kind
    /\ Live(arena, pratt.expr)
    /\ pratt.kind = "prefix" => InExpr.kind \notin Brackets

PrattInv == Sound(arena) /\ FromTable(arena) /\ CallOK

\* A suffix of the greatest left power is the one operator that a paren or a
\* ternary does not outdo, and a table has no reason to have one.
SuffixesBelowMax == \A t \in DOMAIN Suffix : SuffixOp(t).left < MaxPower

(***************************************************************************)
(* Tables.                                                                 *)
(***************************************************************************)
LEMMA BracketPower ==
  \A op \in BracketOps : op.kind \in Brackets /\ op.right = MaxPower
BY DEF BracketOps, TernaryOp, ParenOp, Powered, BindingPower, Brackets

LEMMA OperandPower ==
  \A op \in OperandOps :
    /\ op.kind \in DOMAIN Opening /\ op.kind \notin Brackets
    /\ op.left \in Int /\ op.left <= MaxPower
    /\ SuffixesBelowMax /\ op.kind = "suffix" => op.left < MaxPower
<1> USE PowersAssumption DEF Powered, BindingPower, Brackets, Opening
<1>1. ASSUME NEW defs \in {Prefix, Infix, Suffix}, NEW t \in DOMAIN defs
      PROVE  /\ BindingPower(defs[t].left, MinPower) \in Int
             /\ BindingPower(defs[t].left, MinPower) <= MaxPower
  <2>1. defs[t].left \in MinPower..MaxPower
    OBVIOUS
  <2>2. QED
    BY <2>1
<1>2. ASSUME NEW t \in DOMAIN Prefix
      PROVE  PrefixOp(t).kind = "prefix" /\ PrefixOp(t).left \in Int /\ PrefixOp(t).left <= MaxPower
  BY <1>1 DEF PrefixOp
<1>3. ASSUME NEW t \in DOMAIN Infix
      PROVE  InfixOp(t).kind = "infix" /\ InfixOp(t).left \in Int /\ InfixOp(t).left <= MaxPower
  BY <1>1 DEF InfixOp
<1>4. ASSUME NEW t \in DOMAIN Suffix
      PROVE  SuffixOp(t).kind = "suffix" /\ SuffixOp(t).left \in Int /\ SuffixOp(t).left <= MaxPower
  BY <1>1 DEF SuffixOp
<1>5. QED
  BY <1>2, <1>3, <1>4 DEF OperandOps, SuffixesBelowMax

(***************************************************************************)
(* Ordered alternates: the name a table gives is that of an alternate      *)
(* whose condition holds, and no earlier condition does.                   *)
(***************************************************************************)
LEMMA Least ==
  ASSUME NEW T, T \subseteq Nat, T # {}
  PROVE  \E x \in T : \A y \in T : x <= y
<1> DEFINE R == OpToRel(<, Nat)
<1>1. IsWellFoundedOn(R, Nat)
  BY NatLessThanWellFounded
<1> HIDE DEF R
<1>2. PICK x \in T : \A y \in T : <<y, x>> \notin R
  BY <1>1, WFMin
<1>3. \A y \in T : ~(y < x)
  BY <1>2 DEF R, OpToRel
<1>4. QED
  BY <1>2, <1>3

LEMMA FirstMatchHolds ==
  ASSUME NEW alts, NEW n \in Nat, DOMAIN alts = 1..n, FirstMatch(alts) # "none"
  PROVE  \E i \in 1..n : /\ alts[i][1] /\ FirstMatch(alts) = alts[i][2]
                         /\ \A j \in 1..(i - 1) : ~alts[j][1]
<1> DEFINE T == {i \in 1..n : alts[i][1]}
<1>1. T # {} /\ T \subseteq Nat
  BY DEF FirstMatch
<1>2. PICK x \in T : \A y \in T : x <= y
  BY <1>1, Least
<1>3. alts[x][1] /\ x \in 1..n
  OBVIOUS
<1>4. \A j \in 1..(x - 1) : ~alts[j][1]
  BY <1>2
<1>5. QED
  BY <1>3, <1>4 DEF FirstMatch

LEMMA OpensOnOperator ==
  ASSUME ExprOpenAlt \in DOMAIN Opening
  PROVE  /\ t0 \in Opening[ExprOpenAlt]
         /\ OpUsed(ExprOpenAlt) \in OperandOps /\ OpUsed(ExprOpenAlt).kind = ExprOpenAlt
<1> DEFINE alts == << << t0 \in ParenOpen, "paren" >>,
                      << t0 \in DOMAIN Prefix /\ rules[cur].n.prefix # 0, "prefix" >>,
                      << t0 \in DOMAIN Infix, "infix" >>,
                      << t0 \in DOMAIN Suffix, "suffix" >> >>
<1>1. ExprOpenAlt = FirstMatch(alts) /\ DOMAIN alts = 1..4
  BY DEF ExprOpenAlt
<1>2. ExprOpenAlt # "none" /\ ExprOpenAlt # "paren"
  BY DEF Opening
<1> HIDE DEF alts
<1>3. PICK i \in 1..4 : alts[i][1] /\ ExprOpenAlt = alts[i][2]
  BY <1>1, <1>2, FirstMatchHolds
<1>4. t0 \in Opening[ExprOpenAlt]
  <2>1. i = 1 \/ i = 2 \/ i = 3 \/ i = 4
    BY <1>3
  <2>2. CASE i = 1
    BY <2>2, <1>2, <1>3 DEF alts
  <2>3. CASE i = 2
    BY <2>3, <1>3 DEF alts, Opening
  <2>4. CASE i = 3
    BY <2>4, <1>3 DEF alts, Opening
  <2>5. CASE i = 4
    BY <2>5, <1>3 DEF alts, Opening
  <2>6. QED
    BY <2>1, <2>2, <2>3, <2>4, <2>5
<1>5. CASE ExprOpenAlt = "prefix"
  BY <1>4, <1>5 DEF Opening, OpUsed, OperandOps, PrefixOp, Powered
<1>6. CASE ExprOpenAlt = "infix"
  BY <1>4, <1>6 DEF Opening, OpUsed, OperandOps, InfixOp, Powered
<1>7. CASE ExprOpenAlt = "suffix"
  BY <1>4, <1>7 DEF Opening, OpUsed, OperandOps, SuffixOp, Powered
<1>8. QED
  BY <1>4, <1>5, <1>6, <1>7 DEF Opening

LEMMA TableTernary == \A t \in Tern0 : TernaryOp(Asks(t)) \in BracketOps
<1> SUFFICES ASSUME NEW t \in Tern0 PROVE TernaryOp(Asks(t)) \in BracketOps
  OBVIOUS
<1>1. \E n \in DOMAIN Ternary : Ternary[n].first = t
  BY DEF Tern0
<1>2. Asks(t) \in DOMAIN Ternary
  BY <1>1 DEF Asks
<1>3. QED
  BY <1>2 DEF BracketOps

LEMMA TableParen == \A t \in ParenClose : ParenOp(Closes(t)) \in BracketOps
<1> SUFFICES ASSUME NEW t \in ParenClose PROVE ParenOp(Closes(t)) \in BracketOps
  OBVIOUS
<1>1. \E n \in DOMAIN Paren : Paren[n].close = t
  BY DEF ParenClose
<1>2. Closes(t) \in DOMAIN Paren
  BY <1>1 DEF Closes
<1>3. QED
  BY <1>2 DEF BracketOps

(***************************************************************************)
(* Whatever the rules do to the arena, its operators are the table's.      *)
(***************************************************************************)
LEMMA AllocatesFromTable ==
  ASSUME NEW a, NEW b, NEW op \in BracketOps \cup OperandOps, NEW token, NEW terms,
         Sound(a), FromTable(a), Allocates(a, b, op, token, terms)
  PROVE  FromTable(b)
<1>1. Len(a.nodes) \in Nat /\ DOMAIN a.nodes = 1..Len(a.nodes)
  BY Nodes DEF Sound
<1>2. QED
  BY <1>1 DEF Allocates, FromTable, SameCell

LEMMA NewNodeFromTable ==
  ASSUME NEW a, NEW op \in BracketOps \cup OperandOps, NEW token, NEW terms,
         Sound(a), FromTable(a)
  PROVE  FromTable(NewNode(a, op, token, terms))
BY NewNodeAllocates, AllocatesFromTable

LEMMA WrapFromTable ==
  ASSUME NEW a, NEW v, NEW op \in BracketOps \cup OperandOps, NEW token,
         Sound(a), FromTable(a), Live(a, v)
  PROVE  FromTable(Wrap(a, v, op, token))
<1> DEFINE b == Wrap(a, v, op, token)
<1>1. Wraps(a, b, v, op, token)
  BY WrapWraps
<1>2. Len(a.nodes) \in Nat /\ DOMAIN a.nodes = 1..Len(a.nodes) /\ v.id \in DOMAIN a.nodes
  BY Nodes DEF Sound, Live
<1> HIDE DEF b
<1>3. FromTable(b)
  BY <1>1, <1>2 DEF Wraps, FromTable, SameCell
<1>4. QED
  BY <1>3 DEF b

LEMMA RetermedFromTable ==
  ASSUME NEW a, NEW b, NEW v, NEW terms, FromTable(a), Live(a, v), Retermed(a, b, v, terms)
  PROVE  FromTable(b)
BY DEF Retermed, Keeps, FromTable, SameCell, Live

LEMMA PushTermFromTable ==
  ASSUME NEW a, NEW v, NEW value, Sound(a), FromTable(a)
  PROVE  FromTable(PushTerm(a, v, value))
<1>1. CASE Live(a, v)
  BY <1>1, PushTermKeeps, RetermedFromTable
<1>2. CASE ~Live(a, v)
  BY <1>2 DEF PushTerm, WithTerms, Adopt
<1>3. QED
  BY <1>1, <1>2

\* How the core puts a new operator below an expression.
LEMMA BelowRetermed ==
  ASSUME NEW a, NEW op, NEW token, NEW terms, NEW v, NEW i, Sound(a), Live(a, v)
  PROVE  LET b == NewNodeUnder(a, op, token, terms, v)
             c == SetTerm(b, v, i, Newest(b))
         IN  /\ Allocates(a, b, op, token, terms)
             /\ \E new : Retermed(b, c, v, new)
             /\ Live(b, v)
<1> DEFINE b == NewNodeUnder(a, op, token, terms, v)
           c == SetTerm(b, v, i, Newest(b))
<1>1. Sound(b) /\ Allocates(a, b, op, token, terms)
  BY NewNodeUnderSound, NewNodeUnderAllocates
<1> HIDE DEF b
<1>2. Live(b, v)
  <2>1. Len(a.nodes) \in Nat /\ DOMAIN a.nodes = 1..Len(a.nodes)
    BY Nodes DEF Sound
  <2>2. QED
    BY <1>1, <2>1 DEF Live, Allocates
<1>3. \E new : Retermed(b, c, v, new)
  BY <1>1, <1>2, SetTermKeeps
<1>4. QED
  BY <1>1, <1>2, <1>3 DEF b

LEMMA PrattFromTable ==
  ASSUME PrattInv, PrattLooser \/ PrattTighter \/ PrattPrefix
  PROVE  FromTable(arena')
<1>1. Sound(arena) /\ FromTable(arena) /\ Live(arena, pratt.expr) /\ pratt.op \in OperandOps
  BY DEF PrattInv, CallOK, PrattLooser, PrattTighter, PrattPrefix, Pratting
<1>2. CASE PrattLooser
  BY <1>1, <1>2, WrapFromTable DEF PrattLooser
<1>3. ASSUME NEW terms,
             LET b == NewNodeUnder(arena, pratt.op, pratt.token, terms, pratt.expr)
             IN  arena' = SetTerm(b, pratt.expr, LastPos, Newest(b))
      PROVE  FromTable(arena')
  <2> DEFINE b == NewNodeUnder(arena, pratt.op, pratt.token, terms, pratt.expr)
  <2>1. /\ Allocates(arena, b, pratt.op, pratt.token, terms) /\ Live(b, pratt.expr)
        /\ \E new : Retermed(b, arena', pratt.expr, new)
    BY <1>1, <1>3, BelowRetermed
  <2> HIDE DEF b
  <2>2. FromTable(b)
    BY <1>1, <2>1, AllocatesFromTable
  <2>3. QED
    BY <2>1, <2>2, RetermedFromTable
<1>4. CASE PrattTighter
  BY <1>3, <1>4 DEF PrattTighter
<1>5. CASE PrattPrefix
  BY <1>3, <1>5 DEF PrattPrefix
<1>6. QED
  BY <1>2, <1>4, <1>5

LEMMA PriorFromTable ==
  ASSUME PrattInv, ExprOpenPrior
  PROVE  FromTable(arena')
<1>1. OpUsed(ExprOpenAlt) \in OperandOps
  BY OpensOnOperator DEF ExprOpenPrior
<1>2. \/ \E v : Live(arena, v) /\ arena' = Wrap(arena, v, OpUsed(ExprOpenAlt), at)
      \/ \E terms : arena' = NewNode(arena, OpUsed(ExprOpenAlt), at, terms)
  BY DEF ExprOpenPrior, IsOp
<1>3. QED
  BY <1>1, <1>2, WrapFromTable, NewNodeFromTable DEF PrattInv

LEMMA FirstTernary ==
  ASSUME TernaryOpenFirst
  PROVE  TernaryOp(Asks(t0)) \in BracketOps
<1> DEFINE alts == << << t0 \in Tern0, "first" >>,
                      << rules[cur].prev # 0 /\ rules[rules[cur].prev].step = 2, "step" >> >>
<1>1. FirstMatch(alts) = "first" /\ DOMAIN alts = 1..2
  BY DEF TernaryOpenFirst, TernaryOpenAlt
<1> HIDE DEF alts
<1>2. PICK i \in 1..2 : alts[i][1] /\ alts[i][2] = "first"
  BY <1>1, FirstMatchHolds
<1>3. i = 1
  <2>1. i = 1 \/ i = 2
    BY <1>2
  <2>2. alts[2][2] = "step"
    BY DEF alts
  <2>3. QED
    BY <1>2, <2>1, <2>2
<1>4. t0 \in Tern0
  BY <1>2, <1>3 DEF alts
<1>5. QED
  BY <1>4, TableTernary

LEMMA StepFromTable ==
  ASSUME PrattInv, [Next]_vars
  PROVE  FromTable(arena')
<1>1. Sound(arena) /\ FromTable(arena)
  BY DEF PrattInv
<1>2. CASE arena' = arena
  BY <1>1, <1>2
<1>3. CASE ExprOpenPrior
  BY <1>3, PriorFromTable
<1>4. CASE PrattLooser \/ PrattTighter \/ PrattPrefix
  BY <1>4, PrattFromTable
<1>5. CASE ExprCloseReplace \/ ExprClosePop \/ ExprCloseBase \/ ExprCloseEnd
  <2>1. arena' = Completed(rules[cur])
    BY <1>5 DEF ExprCloseReplace, ExprClosePop, ExprCloseBase, ExprCloseEnd
  <2>2. QED
    BY <1>1, <2>1, PushTermFromTable DEF Completed
<1>6. CASE ParenClosed
  <2>1. t0 \in ParenClose
    BY <1>6 DEF ParenClosed, AcceptsCloser
  <2>2. arena' = arena \/ \E terms : arena' = NewNode(arena, ParenOp(Closes(t0)), at, terms)
    BY <1>6 DEF ParenClosed
  <2>3. QED
    BY <1>1, <2>1, <2>2, TableParen, NewNodeFromTable
<1>7. CASE TernaryOpenFirst
  <2>1. \/ \E v : Live(arena, v) /\ arena' = Wrap(arena, v, TernaryOp(Asks(t0)), at)
        \/ \E terms : arena' = NewNode(arena, TernaryOp(Asks(t0)), at, terms)
    BY <1>7 DEF TernaryOpenFirst, IsOp
  <2>2. QED
    BY <1>1, <1>7, <2>1, FirstTernary, WrapFromTable, NewNodeFromTable
<1>8. CASE TernaryCloseThen \/ TernaryCloseElse \/ TernaryCloseBase
  <2>1. arena' = Branched
    BY <1>8 DEF TernaryCloseThen, TernaryCloseElse, TernaryCloseBase
  <2>2. QED
    BY <1>1, <2>1, PushTermFromTable DEF Branched
<1>9. CASE Val_
  BY <1>2, <1>9 DEF Val_, ValOpenPrefix, ValOpenPreval, ValOpenParen, ValOpenValue, ValOpenEnd,
         ValOpenElsewhere, ValCloseTernary, ValCloseOperator, ValCloseChain, ValClosePop, Halt
<1>10. CASE ExprOpenParen \/ ExprOpenEmbed \/ PrattDrill
  BY <1>2, <1>10 DEF ExprOpenParen, ExprOpenEmbed, PrattDrill
<1>11. CASE ParenOpenEmpty \/ ParenOpenVal \/ ParenError \/ TernaryOpenStep \/ TernaryError
  BY <1>2, <1>11 DEF ParenOpenEmpty, ParenOpenVal, ParenError, TernaryOpenStep, TernaryError, Halt
<1>12. CASE ValCloseBase \/ Cancel \/ Over \/ UNCHANGED vars
  BY <1>2, <1>12 DEF ValCloseBase, Cancel, Over, Halt, vars
<1>13. QED
  BY <1>3, <1>4, <1>5, <1>6, <1>7, <1>8, <1>9, <1>10, <1>11, <1>12
     DEF Next, Expr_, Paren_, Ternary_, Base_

(***************************************************************************)
(* The call under way: how it begins, and how it goes down.                *)
(***************************************************************************)
LEMMA Embedded ==
  ASSUME PrattInv, ExprOpenEmbed
  PROVE  CallOK'
<1> DEFINE kind   == ExprOpenAlt
           target == EmbedTarget(rules[cur], kind)
<1>1. /\ kind \in DOMAIN Opening /\ target # Undefined
      /\ pratt' = [kind |-> kind, op |-> OpUsed(kind), token |-> at,
                   root |-> target, expr |-> target]
      /\ arena' = arena
  BY DEF ExprOpenEmbed
<1>2. OpUsed(kind) \in OperandOps /\ OpUsed(kind).kind = kind
  BY <1>1, OpensOnOperator
<1>3. kind = "prefix" \/ kind = "infix" \/ kind = "suffix"
  BY <1>1 DEF Opening
<1>4. CASE kind = "prefix"
  <2>1. target = FoldTarget(rules[cur])
    BY <1>4 DEF EmbedTarget
  <2>2. /\ Live(arena, target)
        /\ OpOf(arena, target).kind # "ternary" /\ OpOf(arena, target).kind # "paren"
    BY <1>1, <2>1 DEF FoldTarget, IsOp, IsKind
  <2> HIDE DEF target, kind
  <2>3. QED
    BY <1>1, <1>2, <2>2 DEF CallOK, InExpr, OpOf, Live, Brackets
<1>5. CASE kind = "infix"
  <2>1. Live(arena, target)
    BY <1>1, <1>5 DEF EmbedTarget, SecondOperator, UnaryFirst, IsOp
  <2> HIDE DEF target, kind
  <2>2. QED
    BY <1>1, <1>2, <1>5, <2>1 DEF CallOK, Live
<1>6. CASE kind = "suffix"
  <2>1. Live(arena, target)
    BY <1>1, <1>6 DEF EmbedTarget, IsOp
  <2> HIDE DEF target, kind
  <2>2. QED
    BY <1>1, <1>2, <1>6, <2>1 DEF CallOK, Live
<1>7. QED
  BY <1>3, <1>4, <1>5, <1>6

LEMMA Drilled ==
  ASSUME PrattInv, PrattDrill
  PROVE  CallOK'
<1> DEFINE last == TermAt(arena, pratt.expr, LastPos)
<1>1. /\ pratt # NoCall /\ PrattDrills /\ arena' = arena
      /\ pratt' = [pratt EXCEPT !.expr = last]
  BY DEF PrattDrill, Pratting
<1>2. /\ pratt = [kind |-> pratt.kind, op |-> pratt.op, token |-> pratt.token,
                  root |-> pratt.root, expr |-> pratt.expr]
      /\ pratt.kind \in DOMAIN Opening /\ pratt.op \in OperandOps /\ pratt.op.kind = pratt.kind
  BY <1>1 DEF PrattInv, CallOK
<1>3. Live(arena, last) /\ (pratt.kind = "infix" \/ pratt.kind = "suffix")
  BY <1>1 DEF PrattDrills, IsOp
<1> HIDE DEF last
<1>4. pratt' = [kind |-> pratt.kind, op |-> pratt.op, token |-> pratt.token,
                root |-> pratt.root, expr |-> last]
  BY <1>1, <1>2
<1>5. QED
  BY <1>1, <1>2, <1>3, <1>4 DEF CallOK, Live

LEMMA StepCallOK ==
  ASSUME PrattInv, [Next]_vars
  PROVE  CallOK'
<1>1. CallOK
  BY DEF PrattInv
<1>2. CASE pratt' = NoCall
  BY <1>2 DEF CallOK
<1>3. CASE arena' = arena /\ pratt' = pratt
  BY <1>1, <1>3 DEF CallOK, Live, InExpr, OpOf
<1>4. CASE ExprOpenEmbed
  BY <1>4, Embedded
<1>5. CASE PrattDrill
  BY <1>5, Drilled
<1>6. CASE PrattLooser \/ PrattTighter \/ PrattPrefix
  BY <1>2, <1>6 DEF PrattLooser, PrattTighter, PrattPrefix, PrattReturn
<1>7. CASE Val_
  BY <1>3, <1>7 DEF Val_, ValOpenPrefix, ValOpenPreval, ValOpenParen, ValOpenValue, ValOpenEnd,
         ValOpenElsewhere, ValCloseTernary, ValCloseOperator, ValCloseChain, ValClosePop, Halt
<1>8. CASE ExprOpenParen \/ ExprOpenPrior \/ ExprCloseReplace \/ ExprClosePop \/ ExprCloseBase
           \/ ExprCloseEnd
  BY <1>2, <1>8 DEF ExprOpenParen, ExprOpenPrior, ExprCloseReplace, ExprClosePop, ExprCloseBase,
         ExprCloseEnd, Passing
<1>9. CASE Paren_
  BY <1>2, <1>9 DEF Paren_, ParenOpenEmpty, ParenOpenVal, ParenClosed, ParenError, Halt, Passing
<1>10. CASE Ternary_ \/ TernaryCloseBase \/ TernaryCloseElse
  BY <1>2, <1>10 DEF Ternary_, TernaryOpenFirst, TernaryOpenStep, TernaryCloseThen, TernaryError,
         TernaryCloseBase, TernaryCloseElse, Halt, Passing
<1>11. CASE ValCloseBase \/ Cancel \/ Over \/ UNCHANGED vars
  BY <1>3, <1>11 DEF ValCloseBase, Cancel, Over, Halt, vars
<1>12. QED
  BY <1>4, <1>5, <1>6, <1>7, <1>8, <1>9, <1>10, <1>11 DEF Next, Expr_, Base_

LEMMA AlwaysPrattInv == Spec => []PrattInv
<1>1. Init => PrattInv
  <2> SUFFICES ASSUME Init PROVE PrattInv
    OBVIOUS
  <2>1. pratt = NoCall /\ DOMAIN arena.nodes = {}
    BY EmptySeq DEF Init, InitWith, EmptyArena
  <2>2. QED
    BY <2>1, InitSound DEF PrattInv, CallOK, FromTable
<1>2. PrattInv /\ [Next]_vars => PrattInv'
  <2> SUFFICES ASSUME PrattInv, [Next]_vars PROVE PrattInv'
    OBVIOUS
  <2>1. Sound(arena')
    BY StepSound DEF PrattInv
  <2>2. FromTable(arena') /\ CallOK'
    BY StepFromTable, StepCallOK
  <2>3. QED
    BY <2>1, <2>2 DEF PrattInv, Sound, WellRooted, Flagged, OwnCounted, Family, IsNode, FromTable
<1>3. QED
  BY <1>1, <1>2, PTL DEF Spec

(***************************************************************************)
(* One step of the core.                                                   *)
(***************************************************************************)
LEMMA LooserWhole ==
  ASSUME PrattInv, PrattLooser, NEW i \in DOMAIN arena.nodes
  PROVE  StaysWhole(i)
<1> DEFINE new == Len(arena.nodes) + 1
<1>1. Wraps(arena, arena', pratt.expr, pratt.op, pratt.token)
  BY WrapWraps DEF PrattInv, CallOK, PrattLooser, Pratting
<1>2. new \in DOMAIN arena'.nodes \ DOMAIN arena.nodes
  <2>1. Len(arena.nodes) \in Nat /\ DOMAIN arena.nodes = 1..Len(arena.nodes)
    BY Nodes DEF PrattInv, Sound
  <2>2. QED
    BY <1>1, <2>1 DEF Wraps
<1>3. CASE i = pratt.expr.id
  BY <1>1, <1>2, <1>3 DEF Wraps, SameCell, StaysWhole
<1>4. CASE i # pratt.expr.id
  BY <1>1, <1>4 DEF Wraps, SameCell, StaysWhole
<1>5. QED
  BY <1>3, <1>4

\* Where the core does not wrap, it is no paren and no ternary it works on.
LEMMA OperandBelow ==
  ASSUME PrattInv, SuffixesBelowMax, PrattTighter \/ PrattPrefix
  PROVE  InExpr.kind \notin Brackets
<1>1. /\ pratt # NoCall /\ CallOK /\ FromTable(arena)
      /\ pratt.kind # "prefix" => PrattTighter
  BY DEF PrattInv, PrattTighter, PrattPrefix, Pratting
<1>2. /\ pratt.kind \in DOMAIN Opening /\ pratt.op \in OperandOps /\ pratt.op.kind = pratt.kind
      /\ Live(arena, pratt.expr) /\ (pratt.kind = "prefix" => InExpr.kind \notin Brackets)
  BY <1>1 DEF CallOK
<1>3. SUFFICES ASSUME InExpr.kind \in Brackets PROVE FALSE
  OBVIOUS
<1>4. InExpr \in BracketOps \cup OperandOps
  BY <1>1, <1>2 DEF InExpr, OpOf, Live, FromTable
<1>5. InExpr.right = MaxPower
  BY <1>3, <1>4, BracketPower, OperandPower
<1>6. /\ pratt.op.left \in Int /\ pratt.op.left <= MaxPower /\ MaxPower \in Int
      /\ pratt.kind = "suffix" => pratt.op.left < MaxPower
  BY <1>2, OperandPower, PowersAssumption
<1>7. pratt.kind = "infix" \/ pratt.kind = "suffix"
  BY <1>2, <1>3 DEF Opening
<1>8. PrattLoosens
  BY <1>5, <1>6, <1>7 DEF PrattLoosens
<1>9. QED
  BY <1>1, <1>7, <1>8 DEF PrattTighter

LEMMA BelowWhole ==
  ASSUME PrattInv, SuffixesBelowMax, PrattTighter \/ PrattPrefix, NEW i \in DOMAIN arena.nodes,
         arena.nodes[i].op.kind \in Brackets
  PROVE  StaysWhole(i)
<1>1. i # pratt.expr.id /\ Sound(arena) /\ Live(arena, pratt.expr)
  BY OperandBelow DEF PrattInv, CallOK, InExpr, OpOf, PrattTighter, PrattPrefix, Pratting
<1>2. ASSUME NEW terms,
             LET b == NewNodeUnder(arena, pratt.op, pratt.token, terms, pratt.expr)
             IN  arena' = SetTerm(b, pratt.expr, LastPos, Newest(b))
      PROVE  StaysWhole(i)
  <2> DEFINE b == NewNodeUnder(arena, pratt.op, pratt.token, terms, pratt.expr)
  <2>1. /\ Allocates(arena, b, pratt.op, pratt.token, terms)
        /\ \E new : Retermed(b, arena', pratt.expr, new)
    BY <1>1, <1>2, BelowRetermed
  <2> HIDE DEF b
  <2>2. Len(arena.nodes) \in Nat /\ DOMAIN arena.nodes = 1..Len(arena.nodes)
    BY <1>1, Nodes DEF Sound
  <2>3. i \in DOMAIN b.nodes /\ SameCell(b.nodes[i], arena.nodes[i])
    BY <2>1, <2>2 DEF Allocates
  <2>4. SameCell(arena'.nodes[i], b.nodes[i])
    BY <1>1, <2>1, <2>3 DEF Retermed, Keeps
  <2>5. QED
    BY <2>3, <2>4 DEF SameCell, StaysWhole
<1>3. CASE PrattTighter
  BY <1>2, <1>3 DEF PrattTighter
<1>4. CASE PrattPrefix
  BY <1>2, <1>4 DEF PrattPrefix
<1>5. QED
  BY <1>3, <1>4

LEMMA CoreAlone ==
  ASSUME [Next]_vars, pratt # NoCall
  PROVE  PrattLooser \/ PrattTighter \/ PrattPrefix \/ arena' = arena
<1>1. \A name, state : ~Passing(name, state)
  BY DEF Passing
<1>2. ~Val_
  BY <1>1 DEF Val_, ValOpenPrefix, ValOpenPreval, ValOpenParen, ValOpenValue, ValOpenEnd,
         ValOpenElsewhere, ValCloseTernary, ValCloseOperator, ValCloseChain, ValClosePop
<1>3. ~Paren_ /\ ~Ternary_ /\ ~Base_ /\ ~ExprCloseEnd /\ ~TernaryCloseElse
  BY <1>1 DEF Paren_, ParenOpenEmpty, ParenOpenVal, ParenClosed, ParenError,
         Ternary_, TernaryOpenFirst, TernaryOpenStep, TernaryCloseThen, TernaryError,
         Base_, ValCloseBase, ExprCloseBase, TernaryCloseBase, ExprCloseEnd, TernaryCloseElse
<1>4. Expr_ => PrattLooser \/ PrattDrill \/ PrattTighter \/ PrattPrefix
  BY <1>1 DEF Expr_, ExprOpenParen, ExprOpenEmbed, ExprOpenPrior, ExprCloseReplace, ExprClosePop
<1>5. PrattDrill \/ Cancel \/ Over \/ UNCHANGED vars => arena' = arena
  BY DEF PrattDrill, Cancel, Over, Halt, vars
<1>6. QED
  BY <1>2, <1>3, <1>4, <1>5 DEF Next

(***************************************************************************)
(* The core takes a paren or a ternary whole, or leaves it alone: no       *)
(* operator is ever put between a ternary and one of its branches, nor     *)
(* between a paren and what it holds, and no prefix is read into one.      *)
(***************************************************************************)
THEOREM BracketsStayWhole == SuffixesBelowMax => (Spec => OperandsWhole)
<1> SUFFICES ASSUME SuffixesBelowMax PROVE Spec => OperandsWhole
  OBVIOUS
<1>1. PrattInv /\ [Next]_vars =>
        [pratt # NoCall =>
           \A i \in DOMAIN arena.nodes :
             arena.nodes[i].op.kind \in {"paren", "ternary"} => StaysWhole(i)]_vars
  <2> SUFFICES ASSUME PrattInv, [Next]_vars, pratt # NoCall, NEW i \in DOMAIN arena.nodes,
                      arena.nodes[i].op.kind \in Brackets
               PROVE  StaysWhole(i)
    BY DEF Brackets
  <2>1. CASE arena' = arena
    BY <2>1 DEF StaysWhole
  <2>2. QED
    BY <2>1, CoreAlone, LooserWhole, BelowWhole
<1>2. QED
  BY <1>1, AlwaysPrattInv, PTL DEF Spec, OperandsWhole
=============================================================================
