----------------------------- MODULE NodeArena -----------------------------
(***************************************************************************)
(* The expression node arena of rs/src/lib.rs: where the nodes of the      *)
(* expression under construction live, how they are rewritten in place,    *)
(* and how the size of an expression is accounted against NODE_LIMIT.      *)
(*                                                                         *)
(* An arena is a record; every function of the code that changes the arena *)
(* is an operator from an arena (and its other arguments) to the arena it  *)
(* leaves behind.  Node identities are handed out in order and never       *)
(* reused while a parse runs, so the nodes are a sequence and an identity  *)
(* is an index into it.                                                    *)
(***************************************************************************)
EXTENDS Integers, Sequences, FiniteSets

CONSTANT NodeLimit              \* NODE_LIMIT, 127 in the code
ASSUME NodeLimitAssumption == NodeLimit \in Nat \ {0}

(***************************************************************************)
(* A value travelling through the parse: nothing, a plain value standing   *)
(* for the input token it was read from, or the handle of a node.          *)
(***************************************************************************)
Undefined == [k |-> "undefined", id |-> 0]
Leaf(p)   == [k |-> "leaf", id |-> p]
Handle(i) == [k |-> "node", id |-> i]

NoOp == [kind |-> "none", name |-> "none", left |-> 0, right |-> 0, terms |-> 0]

EmptyArena == [nodes |-> <<>>, over_limit |-> FALSE]

(***************************************************************************)
(* Reading the arena.                                                      *)
(***************************************************************************)
Live(a, v)   == v.k = "node" /\ v.id \in DOMAIN a.nodes
RootOf(a, v) == a.nodes[v.id].root
OpOf(a, v)   == IF Live(a, v) THEN a.nodes[v.id].op ELSE NoOp
IsOp(a, v)   == Live(a, v)
IsKind(a, v, kind) == OpOf(a, v).kind = kind

Terms(a, v)     == IF Live(a, v) THEN a.nodes[v.id].terms ELSE <<>>
TermAt(a, v, i) == IF i \in DOMAIN Terms(a, v) THEN Terms(a, v)[i] ELSE Undefined

SameNode(u, v) == u.k = "node" /\ v.k = "node" /\ u.id = v.id

\* MUTANT of Newest: the handle is made of the identity after.
NewestNext(a) == Handle(Len(a.nodes) + 1)

\* The handle of the node an operator below has just allocated.
Newest(a) == Handle(Len(a.nodes))

(***************************************************************************)
(* Accounting.  Only a root counts, and a tree taken in from another       *)
(* expression is counted with the size its own root has at that moment.    *)
(***************************************************************************)
\* MUTANT of Grow: the limit is asked of the size before the growth.
GrowLate(a, v, count) ==
  IF ~Live(a, v) THEN a
  ELSE LET r == RootOf(a, v)
       IN  [nodes      |-> [a.nodes EXCEPT ![r] = [@ EXCEPT !.size = @ + count]],
            over_limit |-> a.over_limit \/ a.nodes[r].size > NodeLimit]

Grow(a, v, count) ==
  IF ~Live(a, v) THEN a
  ELSE LET r    == RootOf(a, v)
           size == a.nodes[r].size + count
       IN  [nodes      |-> [a.nodes EXCEPT ![r] = [@ EXCEPT !.size = size]],
            over_limit |-> a.over_limit \/ size > NodeLimit]

\* MUTANT of Adopt: a tree taken in counts as one node.
AdoptOne(a, container, term) ==
  IF Live(a, container) /\ Live(a, term) /\ RootOf(a, container) # RootOf(a, term)
  THEN Grow(a, container, 1)
  ELSE a

Adopt(a, container, term) ==
  IF /\ Live(a, container)
     /\ Live(a, term)
     /\ RootOf(a, container) # RootOf(a, term)
  THEN Grow(a, container, a.nodes[RootOf(a, term)].size)
  ELSE a

\* No operator takes more than three terms.
Slot(terms, i) == IF i \in DOMAIN terms THEN terms[i] ELSE Undefined
AdoptAll(a, container, terms) ==
  Adopt(Adopt(Adopt(a, container, Slot(terms, 1)),
                       container, Slot(terms, 2)),
                       container, Slot(terms, 3))

(***************************************************************************)
(* Allocating and rewriting.  `under` is the expression a node is built    *)
(* in, Undefined for a node that starts an expression of its own.          *)
(***************************************************************************)
Added(a, op, token, terms, root) ==
  [a EXCEPT !.nodes = Append(@, [op |-> op, token |-> token, terms |-> terms,
                                 root |-> root, size |-> 1])]

NewNode(a, op, token, terms) ==
  LET b == Added(a, op, token, terms, Len(a.nodes) + 1)
  IN  AdoptAll(b, Newest(b), terms)

\* MUTANT of NewNodeUnder: the node itself is not counted.
NewNodeUncounted(a, op, token, terms, under) ==
  LET root == IF Live(a, under) THEN RootOf(a, under) ELSE Len(a.nodes) + 1
      b    == Added(a, op, token, terms, root)
  IN  AdoptAll(b, Newest(b), terms)

NewNodeUnder(a, op, token, terms, under) ==
  LET root == IF Live(a, under) THEN RootOf(a, under) ELSE Len(a.nodes) + 1
      b    == Added(a, op, token, terms, root)
  IN  AdoptAll(Grow(b, Newest(b), 1), Newest(b), terms)

DupNode(a, v) ==
  IF Live(a, v)
  THEN NewNodeUnder(a, a.nodes[v.id].op, a.nodes[v.id].token, a.nodes[v.id].terms, v)
  ELSE a

\* MUTANT of Rewritten: the size starts again at one.
RewrittenAfresh(a, v, op, token, terms) ==
  IF Live(a, v)
  THEN [a EXCEPT !.nodes[v.id] = [op |-> op, token |-> token, terms |-> terms,
                                  root |-> @.root, size |-> 1]]
  ELSE a

Rewritten(a, v, op, token, terms) ==
  IF Live(a, v)
  THEN [a EXCEPT !.nodes[v.id] = [op |-> op, token |-> token, terms |-> terms,
                                  root |-> @.root, size |-> @.size]]
  ELSE a

UpdateExprNode(a, v, op, token, terms) ==
  Rewritten(AdoptAll(a, v, terms), v, op, token, terms)

WithTerms(a, v, terms) ==
  IF Live(a, v)
  THEN [a EXCEPT !.nodes[v.id] = [@ EXCEPT !.terms = terms]]
  ELSE a

\* Assigning past the end leaves the slots between undefined.
SetTerm(a, v, i, value) ==
  LET old == Terms(a, v)
      len == IF Len(old) < i THEN i ELSE Len(old)
  IN  WithTerms(Adopt(a, v, value), v,
                [j \in 1..len |-> IF j = i THEN value ELSE Slot(old, j)])

\* MUTANT of PushTerm: the pushed tree is not counted.
PushTermUncounted(a, v, value) == WithTerms(a, v, Append(Terms(a, v), value))

PushTerm(a, v, value) ==
  WithTerms(Adopt(a, v, value), v, Append(Terms(a, v), value))

(***************************************************************************)
(* The rewrite every looser operator makes: the node keeps its identity    *)
(* and becomes the new operator, with a copy of what it was as first term. *)
(***************************************************************************)
\* MUTANT of Wrap: the terms go to the new operator, the old one is lost.
WrapBare(a, v, op, token) == UpdateExprNode(a, v, op, token, Terms(a, v))

Wrap(a, v, op, token) ==
  LET b == DupNode(a, v)
  IN  UpdateExprNode(b, v, op, token, <<Newest(b)>>)

(***************************************************************************)
(* The tree of an arena.  A node is held by those it is a term of, and     *)
(* reached from a set of nodes when no set that has those, and all its     *)
(* members hold, is without it.  No node is reached from itself when every *)
(* set of nodes has one that holds no other of them.                       *)
(***************************************************************************)
Held(a, i) == {x \in DOMAIN a.nodes :
                 \E j \in DOMAIN a.nodes[i].terms : SameNode(a.nodes[i].terms[j], Handle(x))}

Reached(a, S) ==
  LET links  == UNION {{i} \X Held(a, i) : i \in DOMAIN a.nodes}
      around == {T \in SUBSET DOMAIN a.nodes :
                   S \subseteq T /\ \A l \in links : l[1] \in T => l[2] \in T}
  IN  {x \in DOMAIN a.nodes : \A T \in around : x \in T}

Tree(a, v) == IF IsOp(a, v) THEN Reached(a, {v.id}) ELSE {}

Acyclic(a) == \A S \in SUBSET DOMAIN a.nodes : S # {} => \E i \in S : Held(a, i) \cap S = {}

(***************************************************************************)
(* The accounting of an arena.                                             *)
(***************************************************************************)
\* No expression has outgrown the limit unless the arena says so.
Flagged(a) == \A i \in DOMAIN a.nodes : a.nodes[i].size > NodeLimit => a.over_limit

\* The nodes built in an expression: those its root is the root of.
Family(a, r) == {i \in DOMAIN a.nodes : a.nodes[i].root = r}

\* An expression counts at least the nodes that were built in it.
OwnCounted(a) == \A i \in DOMAIN a.nodes :
                Cardinality(Family(a, a.nodes[i].root)) <= a.nodes[a.nodes[i].root].size
=============================================================================
