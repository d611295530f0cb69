----------------------------- MODULE ExprProps -----------------------------
(***************************************************************************)
(* What the rules of ExprRules must guarantee about the expression they    *)
(* build and hand back.                                                    *)
(***************************************************************************)
EXTENDS ExprRules

(***************************************************************************)
(* The tokens of a tree read back in source order.  A paren node carries   *)
(* its closer; an opener and the second token of a ternary have no node of *)
(* their own.                                                              *)
(***************************************************************************)
Straight(v) == \A i \in Tree(arena, v) : i \notin Reached(arena, Held(arena, i))

RECURSIVE Reading(_)
Reading(v) ==
  IF ~IsOp(arena, v) THEN IF v = Undefined THEN <<>> ELSE <<v.id>>
  ELSE LET node    == arena.nodes[v.id]
           term(i) == Reading(Slot(node.terms, i))
       IN  CASE node.op.kind = "prefix"  -> <<node.token>> \o term(1)
             [] node.op.kind = "infix"   -> term(1) \o <<node.token>> \o term(2)
             [] node.op.kind = "suffix"  -> term(1) \o <<node.token>>
             [] node.op.kind = "ternary" -> term(1) \o <<node.token>> \o term(2) \o term(3)
             [] node.op.kind = "paren"   -> term(1) \o term(2) \o <<node.token>>

Written == SelectSeq([p \in 1..(at - 1) |-> p],
                     LAMBDA p : input[p] \notin ParenOpen \cup Tern1)

(***************************************************************************)
(* A parse that succeeds hands back every token it consumed, each exactly  *)
(* once and in the order of the source: no rewrite in place, and no node   *)
(* handed from rule to rule, drops, repeats or reorders an operand.        *)
(***************************************************************************)
SourceComplete ==
  status = "done" /\ Straight(result) => Reading(result) = Written

(***************************************************************************)
(* Every paren the source opens is a node of the result, in a table with   *)
(* one kind of paren: of two, a closer may end a paren of the other kind.  *)
(***************************************************************************)
ParensKept ==
  status = "done" =>
    Cardinality({i \in Tree(arena, result) : arena.nodes[i].op.kind = "paren"})
      = Cardinality({p \in 1..(at - 1) : input[p] \in ParenOpen})

(***************************************************************************)
(* Precedence.  The operators whose right operand a new operator on the    *)
(* right could have been taken into bind at least as tightly as it does,   *)
(* and likewise on the left.                                               *)
(***************************************************************************)
RECURSIVE RightEdge(_)
RightEdge(v) ==
  IF OpOf(arena, v).kind \in {"infix", "prefix"}
  THEN {v.id} \cup RightEdge(TermAt(arena, v, OpOf(arena, v).terms)) ELSE {}
RECURSIVE LeftEdge(_)
LeftEdge(v) ==
  IF OpOf(arena, v).kind \in {"infix", "suffix"}
  THEN {v.id} \cup LeftEdge(TermAt(arena, v, 1)) ELSE {}

Power(i) == arena.nodes[i].op

PrecedenceKept ==
  status = "done" => \A i \in Tree(arena, result) :
    LET node == arena.nodes[i]
    IN  /\ node.op.kind \in {"infix", "suffix"} =>
             \A z \in RightEdge(Slot(node.terms, 1)) : node.op.left <= Power(z).right
        /\ node.op.kind \in {"infix", "prefix"} =>
             \A y \in LeftEdge(Slot(node.terms, node.op.terms)) :
                Power(y).left >= node.op.right

(***************************************************************************)
(* An operator lacks an operand only where the source ran out.             *)
(***************************************************************************)
DanglesOnlyAtEnd ==
  status = "done" => \A i \in Tree(arena, result) :
    LET node == arena.nodes[i]
    IN  node.op.kind # "paren" /\ Len(node.terms) < node.op.terms => node.token = at - 1

(***************************************************************************)
(* A ternary is the loosest operator: it stands below another ternary or a *)
(* paren, never below an operator with a binding power.                    *)
(***************************************************************************)
TernaryLoosest ==
  status = "done" => \A i \in Tree(arena, result) :
    arena.nodes[i].op.kind \in {"prefix", "infix", "suffix"} =>
      \A v \in NodeTerms(i) : ~IsKind(arena, v, "ternary")

(***************************************************************************)
(* Ternaries chain to the right: one is the condition of another only      *)
(* where its own last branch is missing, the second token of the one being *)
(* followed at once by the first of the other.                             *)
(***************************************************************************)
TernaryChainsRight ==
  status = "done" => \A i \in Tree(arena, result) :
    LET cond == TermAt(arena, Handle(i), 1)
    IN  arena.nodes[i].op.kind = "ternary" /\ IsKind(arena, cond, "ternary")
          => input[arena.nodes[i].token - 1] \in Tern1

(***************************************************************************)
(* A tree grows only downward from its root: whatever rewrite is made, the *)
(* tokens below a root stay below it, and a node's root never changes.     *)
(***************************************************************************)
Tokened(v) == {Reading(v)[j] : j \in DOMAIN Reading(v)}

GrowsDownward ==
  [][\A i \in DOMAIN arena.nodes :
        /\ i \in DOMAIN arena'.nodes
        /\ arena'.nodes[i].root = arena.nodes[i].root
        /\ arena.nodes[i].root = i => Tokened(Handle(i)) \subseteq Tokened(Handle(i))']_vars

(***************************************************************************)
(* The engine's loop ends: every source is parsed or refused.              *)
(***************************************************************************)
Ends == <>(status # "run")
=============================================================================
